------------------------------- MODULE Evaluate -------------------------------
(***************************************************************************)
(* The evaluate handler of tg-proxy (cmd/tg-proxy/handlers.go and          *)
(* helpers.go) composed with the rate limiter and policy reload: every     *)
(* gate in its order, the boundary denies, the audit append with its       *)
(* downgrades and retries, the answer with its receipt, and the counters   *)
(* /metrics reports.                                                       *)
(*                                                                         *)
(* A call takes one step per piece of shared state it touches.  What the   *)
(* engine decides is a choice here (PolicyEngine models it), the audit     *)
(* writer appears as AuditChain promises it, a reservation of the          *)
(* escalation registry is a hidden id (EscalationStore models its life and *)
(* that publishing it never fails), and the velocity window a proceeding   *)
(* call is recorded in is Velocity's.                                      *)
(***************************************************************************)
EXTENDS RateLimiter, PolicyReload

CONSTANTS Calls,       \* POST /evaluate requests
          Ids,         \* envelope ids, chosen by the callers
          Tools,       \* tool names
          Declared,    \* the tool names each policy declares in enforcement
          MaxPending,  \* hard cap of the escalation registry
          MaxFaults    \* bound on audit faults

\* A nil escalationReservation.
NoId == "none"

ASSUME EvaluateAssumption ==
    /\ Declared \in [Policies -> SUBSET Tools]
    /\ NoId \notin Ids
    /\ MaxPending \in Nat /\ MaxFaults \in Nat

VARIABLES
    flags,      \* the configuration main accepted
    call,       \* the state of each call
    escalations,\* ids reserved or pending in the escalation registry
    log,        \* the records the audit chain holds
    poisoned,   \* p.auditPoisoned
    faults,     \* audit faults so far
    count       \* the counters of /metrics

auditVars == <<log, poisoned, faults>>
evalVars  == <<flags, call, escalations, log, poisoned, faults, count>>
vars == <<limiterVars, reloadVars, evalVars>>

-----------------------------------------------------------------------------
(* Configuration *)

\* The flags the control flow depends on; limited is -rate-limit-rps > 0.
Flags == [failClosed : BOOLEAN, unknownToolsDeny : BOOLEAN, limited : BOOLEAN]

-----------------------------------------------------------------------------
(* Results, traces and answers *)

Actions == {"allowed", "allowed_shadow", "flagged", "escalated", "denied"}

ActionProceeds(a) == a \in {"allowed", "allowed_shadow", "flagged"}

\* Why an action was taken: a rule, or one of the proxy's own denies.
Reasons == {"policy", "rate_limit", "protected_path", "no_policies", "panic",
            "unknown_tool", "not_registered", "escalation_audit", "audit"}

\* A decision, with the policy set that made it.
Result == [action : Actions, reason : Reasons, by : [Files -> Content]]

\* What is appended: the result and the hash stamped on it.
Trace(c, res, hash) == [call |-> c, res |-> res, hash |-> hash]

OperationalDeny(res, reason) == [res EXCEPT !.action = "denied", !.reason = reason]

Boundary(c, reason) ==
    [action |-> "denied", reason |-> reason, by |-> call[c].policies]

NoResult == [action |-> "denied", reason |-> "policy", by |-> NoPolicies]

\* A call that is not waiting for a token.
NoKey == "none"

NewCall == [pc |-> "new", key |-> NoKey, bucket |-> 0, id |-> NoId, policies |-> NoPolicies,
            hash |-> {}, res |-> NoResult, status |-> 0, receipt |-> {}]

Counters == {"eval", "allowed", "denied", "escalated", "flagged", "failClosed",
             "auditFailure"}

\* p.allowCount, denyCount, escalateCount or flagCount.
CounterOf(action) ==
    CASE action \in {"allowed", "allowed_shadow"} -> "allowed"
      [] action = "denied" -> "denied"
      [] action = "escalated" -> "escalated"
      [] action = "flagged" -> "flagged"

\* The counters with each of cs incremented.
Bump(cs) == count' = [k \in Counters |-> count[k] + IF k \in cs THEN 1 ELSE 0]

Init ==
    /\ LimiterInit
    /\ ReloadInit
    /\ flags \in Flags
    /\ call = [c \in Calls |-> NewCall]
    /\ escalations = {}
    /\ log = {}
    /\ poisoned = FALSE /\ faults = 0
    /\ count = [k \in Counters |-> 0]

-----------------------------------------------------------------------------
(* The audit writer *)

Outcomes ==
    IF poisoned THEN {"poisoned"}
    ELSE {"ok"} \cup IF faults < MaxFaults THEN {"failed", "poisoned"} ELSE {}

\* An append writes its record, or is proven rolled back ("failed"), or leaves
\* the writer poisoned and the record's presence open; a poisoned writer writes
\* nothing.
AuditEffect(t, out) ==
    /\ log' \in CASE out = "ok" -> {log \cup {t}}
                  [] out = "poisoned" /\ ~poisoned -> {log, log \cup {t}}
                  [] OTHER -> {log}
    /\ poisoned' = (poisoned \/ out = "poisoned")
    /\ faults' = IF out = "ok" \/ poisoned THEN faults ELSE faults + 1

\* receiptForAppendedTrace, after a successful append.
Receipt(t, out) == IF out = "ok" THEN {t} ELSE {}

-----------------------------------------------------------------------------
(* Reading the request *)

\* A request refused before it is read: 413, or 400 for one too deep or
\* undecodable.  Nothing is audited; only the evaluation counter moves.
RejectBody(c) ==
    /\ call[c].pc = "new"
    /\ \E status \in {400, 413} :
         call' = [call EXCEPT ![c].pc = "done", ![c].status = status]
    /\ Bump({"eval"})
    /\ UNCHANGED <<limiterVars, reloadVars, flags, escalations, auditVars>>

\* The envelope is decoded and the policies are captured with their hash under
\* one read lock.
Receive(c) ==
    /\ call[c].pc = "new"
    /\ call' = [call EXCEPT ![c] =
                  [call[c] EXCEPT !.pc = IF flags.limited THEN "limit" ELSE "gates",
                                  !.policies = policies, !.hash = policySetHash]]
    /\ UNCHANGED <<limiterVars, reloadVars, flags, escalations, auditVars, count>>

Limit(c) ==
    /\ call[c].pc = "limit"
    /\ \E key \in Keys, b \in 1..(Len(bucket) + 1) :
         /\ FetchBucket(key, b)
         /\ call' = [call EXCEPT ![c].pc = "take", ![c].key = key, ![c].bucket = b]
    /\ UNCHANGED <<reloadVars, flags, escalations, auditVars, count>>

\* Over the limit the call is denied at the boundary with 429.
TakeToken(c) ==
    /\ call[c].pc = "take"
    /\ \E granted \in BOOLEAN :
         /\ Take(call[c].key, call[c].bucket, granted)
         /\ call' = [call EXCEPT ![c] =
                       [(IF granted THEN [call[c] EXCEPT !.pc = "gates"]
                         ELSE [call[c] EXCEPT !.pc = "boundary", !.status = 429,
                                              !.res = Boundary(c, "rate_limit")])
                        EXCEPT !.key = NoKey, !.bucket = 0]]
    /\ UNCHANGED <<reloadVars, flags, escalations, auditVars, count>>

-----------------------------------------------------------------------------
(* The gates before and around the engine, on the captured policy set *)

AtGates(c) ==
    /\ call[c].pc = "gates"
    /\ UNCHANGED <<limiterVars, reloadVars, flags, escalations, auditVars>>

\* ?mode= names no mode: 400, unaudited, and the token is spent.
RejectMode(c) ==
    /\ AtGates(c)
    /\ call' = [call EXCEPT ![c].pc = "done", ![c].status = 400]
    /\ Bump({"eval"})

DenyAtBoundary(c, reason, status) ==
    /\ call' = [call EXCEPT ![c] =
                  [call[c] EXCEPT !.pc = "boundary", !.status = status,
                                  !.res = Boundary(c, reason)]]
    /\ UNCHANGED count

\* engine.ViolatesProtectedPaths, before any policy is looked at.
DenyProtectedPath(c) == AtGates(c) /\ DenyAtBoundary(c, "protected_path", 403)

DenyNoPolicies(c) ==
    /\ AtGates(c)
    /\ Present(call[c].policies) = {} /\ flags.failClosed
    /\ DenyAtBoundary(c, "no_policies", 503)

\* safeEvaluate recovered a panic: denied whatever -fail-closed says.
DenyPanic(c) ==
    /\ AtGates(c)
    /\ ~(Present(call[c].policies) = {} /\ flags.failClosed)
    /\ DenyAtBoundary(c, "panic", 500)

\* engine.ToolNameKnown: declared by an approved enforcement policy.
ToolNameKnown(tool, set) == \E f \in Present(set) : tool \in Declared[set[f]]

\* Without policies the engine allows.
Verdicts(set) == IF Present(set) = {} THEN {"allowed"} ELSE Actions

\* The engine reading the policies in force rather than the captured ones.
PoliciesInForce(c) == policies

\* The policies handed to the engine.
EvaluatedSet(c) == call[c].policies

\* The engine decides on the captured set; an undeclared tool name turns the
\* decision into a deny.  The trace is stamped with the captured hash.
Decide(c) ==
    /\ AtGates(c)
    /\ ~(Present(call[c].policies) = {} /\ flags.failClosed)
    /\ \E a \in Verdicts(EvaluatedSet(c)), tool \in Tools :
         LET r == [action |-> a, reason |-> "policy", by |-> EvaluatedSet(c)]
             res == IF flags.unknownToolsDeny
                       /\ ~ToolNameKnown(tool, call[c].policies)
                    THEN OperationalDeny(r, "unknown_tool") ELSE r
         IN call' = [call EXCEPT ![c] =
                       [call[c] EXCEPT !.res = res, !.status = 200,
                                       !.pc = IF res.action = "escalated" THEN "reserve"
                                              ELSE "append"]]
    /\ UNCHANGED count

-----------------------------------------------------------------------------
(* Escalation, audit append and answer *)

\* The registry hides the entry until it is audited; a taken id or a full
\* registry turns the escalation into a deny.
Reserve(c) ==
    /\ call[c].pc = "reserve"
    /\ \E i \in Ids :
         IF i \notin escalations /\ Cardinality(escalations) < MaxPending
         THEN /\ escalations' = escalations \cup {i}
              /\ call' = [call EXCEPT ![c].pc = "append", ![c].id = i]
         ELSE /\ call' = [call EXCEPT ![c] =
                    [call[c] EXCEPT !.res = OperationalDeny(call[c].res, "not_registered"),
                                    !.pc = "append"]]
              /\ UNCHANGED escalations
    /\ UNCHANGED <<limiterVars, reloadVars, flags, auditVars, count>>

Reserved(c) == call[c].id # NoId

TraceOf(c) == Trace(c, call[c].res, call[c].hash)

\* emitBoundaryDeny and the answer: the deny goes out whether or not its
\* record could be written.
BoundaryDeny(c) ==
    /\ call[c].pc = "boundary"
    /\ \E out \in Outcomes :
         /\ AuditEffect(TraceOf(c), out)
         /\ call' = [call EXCEPT ![c].pc = "done",
                                 ![c].receipt = Receipt(TraceOf(c), out)]
         /\ Bump({"eval", "denied"}
                 \cup (IF out # "ok" THEN {"auditFailure"} ELSE {})
                 \cup (IF call[c].status \in {500, 503} THEN {"failClosed"} ELSE {}))
    /\ UNCHANGED <<limiterVars, reloadVars, flags, escalations>>

\* The downgrade forgetting that a flagged call proceeds too.
DowngradesAllowedOnly(c) == flags.failClosed /\ call[c].res.action = "allowed"

Downgrades(c) == flags.failClosed /\ ActionProceeds(call[c].res.action)

\* The first append of a decided call.  A failed one discards a reservation,
\* and under -fail-closed turns an action that would proceed into a deny; a
\* deny is written again unless the writer is poisoned.
AppendTrace(c) ==
    /\ call[c].pc = "append"
    /\ \E out \in Outcomes :
         /\ AuditEffect(TraceOf(c), out)
         /\ call' = [call EXCEPT ![c] =
              CASE out = "ok" ->
                     [call[c] EXCEPT !.receipt = Receipt(TraceOf(c), out), !.pc = "answer"]
                [] out # "ok" /\ Reserved(c) ->
                     [call[c] EXCEPT !.pc = IF out = "failed" THEN "discardRetry"
                                            ELSE "discard"]
                [] out # "ok" /\ ~Reserved(c) /\ Downgrades(c) ->
                     [call[c] EXCEPT !.res = OperationalDeny(call[c].res, "audit"),
                                     !.pc = IF out = "failed" THEN "reappend" ELSE "answer"]
                [] OTHER -> [call[c] EXCEPT !.pc = "answer"]]
         /\ Bump(IF out # "ok" THEN {"auditFailure"} ELSE {})
    /\ UNCHANGED <<limiterVars, reloadVars, flags, escalations>>

\* The registry keeping the hidden entry when the writer is poisoned.
ReleasedUnlessPoisoned(c) == IF poisoned THEN escalations ELSE escalations \ {call[c].id}

Released(c) == escalations \ {call[c].id}

\* discardReserved; the deny that takes its place is recorded when the failed
\* append was proven rolled back.
Discard(c) ==
    /\ call[c].pc \in {"discard", "discardRetry"}
    /\ escalations' = Released(c)
    /\ call' = [call EXCEPT ![c] =
                  [call[c] EXCEPT !.res = OperationalDeny(call[c].res, "escalation_audit"),
                                  !.id = NoId,
                                  !.pc = IF call[c].pc = "discardRetry" THEN "retry"
                                         ELSE "answer"]]
    /\ UNCHANGED <<limiterVars, reloadVars, flags, auditVars, count>>

\* The trace as it was built before the downgrade.
UnsyncedTrace(c) ==
    Trace(c, [call[c].res EXCEPT !.action = "escalated"], call[c].hash)

\* syncResultOutcomeToTrace: the trace after an operational deny.
SyncedTrace(c) == TraceOf(c)

\* The durable record of the deny, with a receipt when it succeeds.
RetryDeny(c) ==
    /\ call[c].pc = "retry"
    /\ \E out \in Outcomes :
         /\ AuditEffect(SyncedTrace(c), out)
         /\ call' = [call EXCEPT ![c].pc = "answer",
                                 ![c].receipt = Receipt(SyncedTrace(c), out)]
    /\ UNCHANGED <<limiterVars, reloadVars, flags, escalations, count>>

\* The best-effort record of a fail-closed downgrade; no receipt either way.
ReappendDeny(c) ==
    /\ call[c].pc = "reappend"
    /\ \E out \in Outcomes : AuditEffect(SyncedTrace(c), out)
    /\ call' = [call EXCEPT ![c].pc = "answer"]
    /\ UNCHANGED <<limiterVars, reloadVars, flags, escalations, count>>

\* Counting an overridden call by what the engine wanted.
CountedBeforeOverride(c) ==
    IF call[c].res.reason = "audit" THEN "allowed" ELSE CounterOf(call[c].res.action)

CountedAs(c) == CounterOf(call[c].res.action)

\* An escalation is published (202), the final action is counted once, and the
\* call is answered.
Answer(c) ==
    /\ call[c].pc = "answer"
    /\ call' = [call EXCEPT ![c].pc = "done",
                            ![c].status = IF call[c].res.action = "escalated" THEN 202 ELSE 200]
    /\ Bump({"eval", CountedAs(c)})
    /\ UNCHANGED <<limiterVars, reloadVars, flags, escalations, auditVars>>

-----------------------------------------------------------------------------

CallStep(c) ==
    \/ RejectBody(c) \/ Receive(c) \/ Limit(c) \/ TakeToken(c)
    \/ RejectMode(c) \/ DenyProtectedPath(c) \/ DenyNoPolicies(c) \/ DenyPanic(c)
    \/ Decide(c) \/ Reserve(c)
    \/ BoundaryDeny(c) \/ AppendTrace(c) \/ Discard(c) \/ RetryDeny(c)
    \/ ReappendDeny(c) \/ Answer(c)

Next ==
    \/ \E c \in Calls : CallStep(c)
    \/ Tick /\ UNCHANGED <<reloadVars, evalVars>>
    \/ ReloadNext /\ UNCHANGED <<limiterVars, evalVars>>

Spec == Init /\ [][Next]_vars

-----------------------------------------------------------------------------
(* Properties *)

Done(c) == call[c].pc = "done"

\* A call that was decided on, rather than refused with 400 or 413.
Decided(c) == Done(c) /\ call[c].status \notin {400, 413}

RecordsOf(c) == {t \in log : t.call = c}

\* Under -fail-closed no caller is told to proceed unless the chain holds the
\* record of exactly that action, whatever the audit writer did in between;
\* without it only an audit failure can leave a proceeding call unrecorded.
ProceedIsAudited ==
    \A c \in Calls :
        Decided(c) /\ ActionProceeds(call[c].res.action) =>
            \/ \E t \in RecordsOf(c) : t.res = call[c].res
            \/ ~flags.failClosed /\ count["auditFailure"] > 0

\* The chain never contradicts an answer: every record of an answered call
\* carries the action and the reason the caller was given, and a receipt is of
\* a record in the chain.  The one exception is the record whose append
\* poisoned the writer: its caller may have been answered with a deny instead,
\* and there is at most one such call.
ChainAgrees ==
    LET contradicted == {c \in Calls : /\ Decided(c)
                                       /\ \E t \in RecordsOf(c) : t.res # call[c].res}
    IN /\ Cardinality(contradicted) <= IF poisoned THEN 1 ELSE 0
       /\ \A c \in contradicted : call[c].res.action = "denied"
       /\ \A c \in Calls : Decided(c) => call[c].receipt \subseteq RecordsOf(c)

\* Each record is stamped with the hash of the policy set that decided it,
\* though the set may have been reloaded any number of times since.
StampedByDecider == \A t \in log : t.hash = PolicySetHash(t.res.by)

\* The counters agree with the answers once each: every evaluation is counted
\* by its final action, and no decided call lacks a record without an audit
\* failure of its own being counted.
MetricsHonest ==
    LET answered(k) == {c \in Calls : Decided(c) /\ CounterOf(call[c].res.action) = k}
    IN /\ \A k \in {"allowed", "denied", "escalated", "flagged"} :
            count[k] = Cardinality(answered(k))
       /\ count["eval"] = Cardinality({c \in Calls : Done(c)})
       /\ Cardinality({c \in Calls : Decided(c) /\ RecordsOf(c) = {}})
            <= count["auditFailure"]

\* An id is held in the registry exactly by one call that is between reserving
\* and discarding it or was answered 202: no failed append leaks a hidden
\* reservation, and no caller is told to poll an id nobody holds.
ReservationsHeld ==
    /\ \A i \in escalations : Cardinality({c \in Calls : call[c].id = i}) = 1
    /\ \A c \in Calls : Done(c) /\ call[c].status = 202 => call[c].id \in escalations

=============================================================================
