--------------------------- MODULE EvaluateProofs ---------------------------
(***************************************************************************)
(* Proofs about the evaluate handler composed with the rate limiter and   *)
(* policy reload, for any number of calls, keys, reloads and audit faults. *)
(*                                                                         *)
(* EvalInv is the inductive invariant.  ReloadInv is about the policy      *)
(* loader alone, LimiterInv about the token buckets and Waiting about the  *)
(* calls between finding a bucket and taking from it; CallsOK says what a  *)
(* call carries at each program point (its policies with their hash, who   *)
(* decided it, whether it holds a reservation); Held ties the calls to the *)
(* escalation registry, Chain to the audit log, and Counted to the         *)
(* counters.                                                               *)
(***************************************************************************)
EXTENDS Evaluate, FiniteSetTheorems, TLAPS

-----------------------------------------------------------------------------
(* The inductive invariant *)

\* A reload in progress has read no refused file.
ReloadInv ==
    /\ dir \in [Files -> Content] /\ policies \in [Files -> Content]
    /\ reload \in [Reloaders -> [pc : {"idle", "reading"}, todo : SUBSET Files,
                                 loaded : [Files -> Content]]]
    /\ \A r \in Reloaders, f \in Files : reload[r].loaded[f] # "invalid"
    /\ ServingValid

\* The limiter: buckets are never shared between keys, and what a key has been
\* granted, together with the tokens left in its bucket, is within its budget.
\* A key without a bucket can afford a full one.
Budget ==
    IdleEvict * Rate >= Burst =>
        \A k \in LimitKeys :
            /\ buckets[k] = 0 => admitted[k] <= Rate * now + stale[k]
            /\ buckets[k] # 0 => admitted[k] + bucket[buckets[k]].tokens
                                  <= Burst + Rate * bucket[buckets[k]].last + stale[k]

LimiterInv ==
    /\ now \in Nat
    /\ bucket \in Seq([tokens : Nat, last : Nat])
    /\ \A b \in 1..Len(bucket) : bucket[b].last <= now
    /\ buckets \in [LimitKeys -> 0..Len(bucket)]
    /\ admitted \in [LimitKeys -> Nat] /\ stale \in [LimitKeys -> Nat]
    /\ \A k, l \in LimitKeys : buckets[k] = buckets[l] /\ buckets[k] # 0 => k = l
    /\ Budget

\* A call about to take a token holds a bucket made for its own key.
Waiting ==
    \A c \in Calls : call[c].pc = "take" =>
        /\ call[c].key \in Keys /\ call[c].bucket \in 1..Len(bucket)
        /\ \A k \in LimitKeys : buckets[k] = call[c].bucket => k = LimitKey(call[c].key)

Pc == {"new", "limit", "take", "gates", "boundary", "reserve", "append", "discard",
       "discardRetry", "retry", "reappend", "answer", "done"}

Record == [call : Calls, res : Result, hash : SUBSET Content]

CallType == [pc : Pc, key : Keys \cup {NoKey}, bucket : Nat, id : Ids \cup {NoId},
             policies : [Files -> Content], hash : SUBSET Content, res : Result,
             status : Nat, receipt : SUBSET Record]

\* A call whose append has been tried and has not succeeded yet.
Unwritten == {"discard", "discardRetry", "retry", "reappend"}

\* A call that was decided on.
HasResult(n) ==
    \/ n.pc \in {"boundary", "reserve", "append", "answer"} \cup Unwritten
    \/ n.pc = "done" /\ n.status \notin {400, 413}

\* What a call carries: policies and hash as captured together, a result of
\* exactly these policies, and a reservation exactly while it is to be escalated.
CallOK(n) ==
    /\ n \in CallType
    /\ n.hash = PolicySetHash(n.policies)
    /\ HasResult(n) => n.res.by = n.policies
    /\ n.pc = "boundary" => n.res.action = "denied" /\ n.status \in {403, 429, 500, 503}
    /\ n.pc = "reserve" => n.res.action = "escalated"
    /\ n.pc \in {"retry", "reappend"} => n.res.action = "denied"
    /\ n.id # NoId => /\ n.pc \in {"append", "discard", "discardRetry", "answer", "done"}
                    /\ n.res.action = "escalated"
    /\ n.pc \in {"discard", "discardRetry"} => n.id # NoId
    /\ n.pc \in {"append", "answer"} /\ n.res.action = "escalated" => n.id # NoId
    /\ n.pc = "done" /\ n.status = 202 => n.id # NoId

CallsOK ==
    /\ call \in [Calls -> CallType]
    /\ \A c \in Calls : CallOK(call[c])
    /\ flags \in Flags

\* The registry holds exactly the ids of the calls that carry one.
Held ==
    /\ escalations \subseteq Ids
    /\ \A c \in Calls : call[c].id # NoId => call[c].id \in escalations
    /\ \A i \in escalations : \E c \in Calls : call[c].id = i
    /\ \A c, d \in Calls : call[c].id # NoId /\ call[c].id = call[d].id => c = d

\* Program points before the first append.
Fresh == {"new", "limit", "take", "gates", "boundary", "reserve", "append"}

\* The record of the call differs, or is about to differ, from its result.
Suspect(c) ==
    \/ call[c].pc = "discard" /\ RecordsOf(c) # {}
    \/ \E t \in RecordsOf(c) : t.res # call[c].res

\* What the chain holds of each call.
Chain ==
    /\ log \subseteq Record /\ poisoned \in BOOLEAN
    /\ StampedByDecider
    /\ \A c \in Calls :
         /\ call[c].pc \in Fresh \cup {"discardRetry", "retry", "reappend"} => RecordsOf(c) = {}
         /\ call[c].receipt \subseteq log /\ \A t \in call[c].receipt : t.call = c
         /\ (call[c].pc = "answer" \/ Decided(c)) /\ ActionProceeds(call[c].res.action) =>
               \/ \E t \in RecordsOf(c) : t.res = call[c].res
               \/ ~flags.failClosed /\ count["auditFailure"] > 0
         /\ Suspect(c) => /\ poisoned
                          /\ call[c].pc # "discard" => call[c].res.action = "denied"
         /\ call[c].pc = "discard" => poisoned
    /\ \A c, d \in Calls : Suspect(c) /\ Suspect(d) => c = d

Started == {c \in Calls : call[c].pc # "new"}

DoneCalls == {c \in Calls : Done(c)}

AnsweredAs(k) == {c \in Calls : Decided(c) /\ CounterOf(call[c].res.action) = k}

\* Calls past their first append of which the chain holds nothing.
Unrecorded ==
    {c \in Calls : /\ call[c].pc \in Unwritten \cup {"answer"} \/ Decided(c)
                   /\ RecordsOf(c) = {}}

Counted ==
    /\ count \in [Counters -> Nat]
    /\ IsFiniteSet(Started)
    /\ count["eval"] = Cardinality(DoneCalls)
    /\ \A k \in {"allowed", "denied", "escalated", "flagged"} :
         count[k] = Cardinality(AnsweredAs(k))
    /\ Cardinality(Unrecorded) <= count["auditFailure"]

EvalInv == ReloadInv /\ LimiterInv /\ CallsOK /\ Waiting /\ Held /\ Chain /\ Counted

-----------------------------------------------------------------------------
(* Policy reload *)

\* A loadable directory is served from the start.
LEMMA ReloadInvInit == ReloadInit => ReloadInv
<1> SUFFICES ASSUME ReloadInit PROVE ReloadInv
  OBVIOUS
<1>1. Idle \in [pc : {"idle", "reading"}, todo : SUBSET Files, loaded : [Files -> Content]]
      /\ \A f \in Files : Idle.loaded[f] # "invalid"
  BY DEF Idle, NoPolicies, Content
<1> QED BY <1>1 DEF ReloadInit, ReloadInv, ServingValid

\* Edits, reads and publications keep the loader's invariant: only a set that
\* was validated as a whole, file by file and together, is swapped in.
LEMMA ReloadInvStep == ReloadInv /\ ReloadNext => ReloadInv'
<1> SUFFICES ASSUME ReloadInv, ReloadNext PROVE ReloadInv'
  OBVIOUS
<1> DEFINE T == [pc : {"idle", "reading"}, todo : SUBSET Files, loaded : [Files -> Content]]
<1>1. Idle \in T /\ \A f \in Files : Idle.loaded[f] # "invalid"
  BY DEF Idle, NoPolicies, Content
<1>2. reload \in [Reloaders -> T]
  BY DEF ReloadInv
<1>3. CASE EditDir
  <2>1. dir' \in [Files -> Content] /\ UNCHANGED <<policies, policySetHash, reload>>
    BY <1>3 DEF EditDir, ReloadInv
  <2> QED BY <2>1 DEF ReloadInv, ServingValid, Loadable
<1>4. ASSUME NEW r \in Reloaders, NEW n \in T, reload' = [reload EXCEPT ![r] = n],
             \A f \in Files : n.loaded[f] # "invalid"
      PROVE  /\ reload' \in [Reloaders -> T]
             /\ \A q \in Reloaders, f \in Files : reload'[q].loaded[f] # "invalid"
  BY <1>2, <1>4 DEF ReloadInv
<1>5. ASSUME NEW r \in Reloaders, ReadDir(r) PROVE ReloadInv'
  <2> DEFINE n == [Idle EXCEPT !.pc = "reading", !.todo = Present(dir)]
  <2>1. n \in T /\ n.loaded = Idle.loaded
    BY <1>1 DEF Idle, Present
  <2>2. reload' = [reload EXCEPT ![r] = n]
        /\ UNCHANGED <<dir, policies, policySetHash>>
    BY <1>5 DEF ReadDir
  <2> HIDE DEF n
  <2>3. /\ reload' \in [Reloaders -> T]
        /\ \A q \in Reloaders, f \in Files : reload'[q].loaded[f] # "invalid"
    BY <1>1, <1>4, <2>1, <2>2
  <2> QED BY <2>2, <2>3 DEF ReloadInv, ServingValid, Loadable
<1>6. ASSUME NEW r \in Reloaders, LoadFile(r) PROVE ReloadInv'
  <2>1. reload[r] \in T /\ reload[r].todo # {} /\ reload[r].todo \subseteq Files
    <3>1. reload[r] \in T
      BY <1>2
    <3> QED BY <1>6, <3>1 DEF LoadFile
  <2> DEFINE f == CHOOSE f \in reload[r].todo : \A g \in reload[r].todo : f <= g
             n == IF dir[f] \in Policies
                  THEN [reload[r] EXCEPT !.todo = @ \ {f}, !.loaded[f] = dir[f]] ELSE Idle
  <2>2. reload' = [reload EXCEPT ![r] = n] /\ UNCHANGED <<dir, policies, policySetHash>>
    BY <1>2, <1>6 DEF LoadFile
  <2>3. n \in T /\ \A g \in Files : n.loaded[g] # "invalid"
    <3> HIDE DEF f
    <3>1. CASE dir[f] \in Policies
      <4> DEFINE l == [reload[r].loaded EXCEPT ![f] = dir[f]]
      <4>1. l \in [Files -> Content] /\ \A g \in Files : l[g] # "invalid"
        BY <2>1, <3>1, PolicyReloadAssumption DEF ReloadInv, Content
      <4>2. n = [reload[r] EXCEPT !.todo = reload[r].todo \ {f}, !.loaded = l]
        BY <2>1, <3>1
      <4> HIDE DEF l
      <4> QED BY <2>1, <4>1, <4>2
    <3>2. CASE dir[f] \notin Policies
      BY <1>1, <3>2
    <3> QED BY <3>1, <3>2
  <2> HIDE DEF n
  <2>4. /\ reload' \in [Reloaders -> T]
        /\ \A q \in Reloaders, g \in Files : reload'[q].loaded[g] # "invalid"
    BY <1>4, <2>2, <2>3
  <2> QED BY <2>2, <2>4 DEF ReloadInv, ServingValid, Loadable
<1>7. ASSUME NEW r \in Reloaders, PublishSet(r) PROVE ReloadInv'
  <2>1. /\ reload' \in [Reloaders -> T]
        /\ \A q \in Reloaders, g \in Files : reload'[q].loaded[g] # "invalid"
    BY <1>1, <1>4, <1>7 DEF PublishSet
  <2>2. dir' = dir
    BY <1>7 DEF PublishSet
  <2>3. policies' \in [Files -> Content] /\ Loadable(policies')
        /\ policySetHash' = PolicySetHash(policies')
    BY <1>2, <1>7 DEF PublishSet, ReloadInv, ServingValid, Loadable
  <2> QED BY <2>1, <2>2, <2>3 DEF ReloadInv, ServingValid, Loadable
<1> QED BY <1>3, <1>5, <1>6, <1>7 DEF ReloadNext

\* What the handler leaves alone keeps the loader's invariant.
LEMMA ReloadInvFrame == ReloadInv /\ UNCHANGED reloadVars => ReloadInv'
BY DEF ReloadInv, reloadVars, ServingValid, Loadable

-----------------------------------------------------------------------------
(* What each step does to the call that takes it *)

Moves(c, n) == CallOK(n) /\ call' = [call EXCEPT ![c] = n]

\* The other calls keep their place.
LEMMA MoveEffect ==
    ASSUME CallsOK, NEW c \in Calls, NEW n, Moves(c, n), flags' = flags
    PROVE  CallsOK' /\ call'[c] = n /\ \A d \in Calls \ {c} : call'[d] = call[d]
<1>1. n \in CallType
  BY DEF Moves, CallOK
<1>2. call' \in [Calls -> CallType] /\ call'[c] = n
      /\ \A d \in Calls \ {c} : call'[d] = call[d]
  BY <1>1 DEF Moves, CallsOK
<1>3. \A d \in Calls : CallOK(call'[d])
  BY <1>2 DEF Moves, CallsOK
<1>4. CallsOK'
  BY <1>2, <1>3 DEF CallsOK, CallOK, CallType, HasResult
<1> QED BY <1>2, <1>4

\* The hash of a policy set is made of what its files declare.
LEMMA HashType == \A s \in [Files -> Content] : PolicySetHash(s) \in SUBSET Content
BY DEF PolicySetHash, Present

\* A downgraded result is a deny by the same policies.
LEMMA DenyEffect ==
    ASSUME NEW res \in Result, NEW reason \in Reasons
    PROVE  /\ OperationalDeny(res, reason) \in Result
           /\ OperationalDeny(res, reason).action = "denied"
           /\ OperationalDeny(res, reason).by = res.by
BY DEF OperationalDeny, Result, Actions

\* A boundary deny is by the captured policies.
LEMMA BoundaryEffect ==
    ASSUME CallsOK, NEW c \in Calls, NEW reason \in Reasons
    PROVE  /\ Boundary(c, reason) \in Result
           /\ Boundary(c, reason).action = "denied"
           /\ Boundary(c, reason).by = call[c].policies
BY DEF Boundary, Result, Actions, CallsOK, CallType

\* A call with a new place, status and result.
Ruled(x, p, st, d) == [x EXCEPT !.pc = p, !.status = st, !.res = d]

\* Its other fields stay.
LEMMA RuledEffect ==
    ASSUME NEW x \in CallType, NEW p \in Pc, NEW st \in Nat, NEW d \in Result
    PROVE  /\ Ruled(x, p, st, d) \in CallType
           /\ Ruled(x, p, st, d).pc = p /\ Ruled(x, p, st, d).status = st
           /\ Ruled(x, p, st, d).res = d /\ Ruled(x, p, st, d).policies = x.policies
           /\ Ruled(x, p, st, d).hash = x.hash /\ Ruled(x, p, st, d).id = x.id
           /\ Ruled(x, p, st, d).receipt = x.receipt
BY DEF CallType, Ruled

\* A call before its decision carries policies and hash, and nothing else yet.
LEMMA UndecidedOK ==
    ASSUME NEW n \in CallType, n.pc \in {"limit", "take", "gates"},
           n.hash = PolicySetHash(n.policies), n.id = NoId
    PROVE  CallOK(n)
<1>1. ~HasResult(n)
  BY DEF HasResult, Unwritten
<1> QED BY <1>1 DEF CallOK

\* A call denied at the boundary.
LEMMA BoundaryOK ==
    ASSUME NEW n \in CallType, n.pc = "boundary", n.hash = PolicySetHash(n.policies),
           n.id = NoId, n.res.by = n.policies, n.res.action = "denied",
           n.status \in {403, 429, 500, 503}
    PROVE  CallOK(n)
BY DEF CallOK

\* Before it reserves an id a call holds none.
LEMMA NoIdYet ==
    ASSUME CallsOK, NEW c \in Calls, call[c].pc \in {"new", "limit", "take", "gates", "boundary",
                                                    "reserve", "retry", "reappend"}
    PROVE  call[c].id = NoId
BY DEF CallsOK, CallOK

\* A step before the first append: nothing is recorded, counted or released.
Quiet(c, n) ==
    /\ Moves(c, n)
    /\ call[c].pc \in Fresh /\ n.pc \in Fresh \ {"new"}
    /\ n.id = call[c].id /\ n.receipt = call[c].receipt
    /\ UNCHANGED <<flags, escalations, auditVars, count>>

\* Receive captures policies and hash together.
LEMMA EffReceive ==
    ASSUME CallsOK, ReloadInv, NEW c \in Calls, Receive(c)
    PROVE  \E n : Quiet(c, n) /\ n.pc # "take"
<1> DEFINE n == [call[c] EXCEPT !.pc = IF flags.limited THEN "limit" ELSE "gates",
                                !.policies = policies, !.hash = policySetHash]
<1>1. call[c] \in CallType /\ CallOK(call[c]) /\ call[c].pc = "new"
  BY DEF CallsOK, Receive
<1>2. policies \in [Files -> Content] /\ policySetHash = PolicySetHash(policies)
      /\ policySetHash \in SUBSET Content
  BY HashType DEF ReloadInv, ServingValid
<1>3. /\ n \in CallType /\ n.pc \in {"limit", "gates"} /\ n.policies = policies
      /\ n.hash = policySetHash /\ n.id = call[c].id /\ n.receipt = call[c].receipt
  BY <1>1, <1>2 DEF CallType, Pc
<1>4. call' = [call EXCEPT ![c] = n] /\ UNCHANGED <<flags, escalations, auditVars, count>>
  BY DEF Receive
<1> HIDE DEF n
<1>5. CallOK(n)
  BY <1>1, <1>2, <1>3, NoIdYet, UndecidedOK
<1> QED BY <1>1, <1>3, <1>4, <1>5 DEF Quiet, Moves, Fresh

\* Limit remembers the key and the bucket.
LEMMA EffLimit ==
    ASSUME CallsOK, LimiterInv, NEW c \in Calls, Limit(c)
    PROVE  \E n : Quiet(c, n)
<1>1. PICK key \in Keys, b \in 1..(Len(bucket) + 1) :
        call' = [call EXCEPT ![c].pc = "take", ![c].key = key, ![c].bucket = b]
  BY DEF Limit
<1> DEFINE n == [call[c] EXCEPT !.pc = "take", !.key = key, !.bucket = b]
<1>2. call[c] \in CallType /\ CallOK(call[c]) /\ call[c].pc = "limit" /\ b \in Nat
  BY DEF CallsOK, Limit, LimiterInv
<1>3. /\ n \in CallType /\ n.pc = "take" /\ n.policies = call[c].policies
      /\ n.hash = call[c].hash /\ n.id = call[c].id /\ n.receipt = call[c].receipt
  BY <1>2 DEF CallType, Pc
<1>4. call' = [call EXCEPT ![c] = n]
  BY <1>1, <1>2 DEF CallsOK, CallType
<1>5. UNCHANGED <<flags, escalations, auditVars, count>>
  BY DEF Limit
<1> HIDE DEF n
<1>6. CallOK(n)
  BY <1>2, <1>3, NoIdYet, UndecidedOK DEF CallOK
<1> QED BY <1>2, <1>3, <1>4, <1>5, <1>6 DEF Quiet, Moves, Fresh

\* TakeToken goes on, or denies at the boundary.
LEMMA EffTakeToken ==
    ASSUME CallsOK, NEW c \in Calls, TakeToken(c)
    PROVE  \E n : Quiet(c, n) /\ n.pc # "take"
<1>1. call[c] \in CallType /\ CallOK(call[c]) /\ call[c].pc = "take"
  BY DEF CallsOK, TakeToken
<1>2. UNCHANGED <<flags, escalations, auditVars, count>>
  BY DEF TakeToken
<1> DEFINE d == Boundary(c, "rate_limit")
           m == Ruled(call[c], "boundary", 429, d)
           over == [m EXCEPT !.key = NoKey, !.bucket = 0]
           on == [[call[c] EXCEPT !.pc = "gates"] EXCEPT !.key = NoKey, !.bucket = 0]
<1>3. call' = [call EXCEPT ![c] = on] \/ call' = [call EXCEPT ![c] = over]
  BY DEF TakeToken, Ruled
<1>4. d \in Result /\ d.action = "denied" /\ d.by = call[c].policies
  BY BoundaryEffect DEF Reasons
<1> HIDE DEF d
<1>5. /\ on \in CallType /\ on.pc = "gates" /\ on.policies = call[c].policies
      /\ on.hash = call[c].hash /\ on.id = call[c].id /\ on.receipt = call[c].receipt
  BY <1>1 DEF CallType, Pc
<1>6. /\ m \in CallType /\ m.pc = "boundary" /\ m.policies = call[c].policies
      /\ m.hash = call[c].hash /\ m.id = call[c].id /\ m.receipt = call[c].receipt
      /\ m.status = 429 /\ m.res = d
  <2>1. "boundary" \in Pc /\ 429 \in Nat
    BY DEF Pc
  <2> QED BY <1>1, <1>4, <2>1, RuledEffect
<1> HIDE DEF m
<1>7. /\ over \in CallType /\ over.pc = "boundary" /\ over.policies = call[c].policies
      /\ over.hash = call[c].hash /\ over.id = call[c].id /\ over.receipt = call[c].receipt
      /\ over.status = 429 /\ over.res = d
  BY <1>6 DEF CallType
<1> HIDE DEF on, over
<1>8. CallOK(on)
  BY <1>1, <1>5, NoIdYet, UndecidedOK DEF CallOK
<1>9. CallOK(over)
  BY <1>1, <1>4, <1>7, NoIdYet, BoundaryOK DEF CallOK
<1> QED BY <1>1, <1>2, <1>3, <1>5, <1>7, <1>8, <1>9 DEF Quiet, Moves, Fresh

\* The three denies before the engine's decision counts.
LEMMA EffDeny ==
    ASSUME CallsOK, NEW c \in Calls,
           DenyProtectedPath(c) \/ DenyNoPolicies(c) \/ DenyPanic(c)
    PROVE  \E n : Quiet(c, n) /\ n.pc # "take"
<1>1. PICK reason \in Reasons, status \in {403, 500, 503} : DenyAtBoundary(c, reason, status)
  BY DEF DenyProtectedPath, DenyNoPolicies, DenyPanic, Reasons
<1>2. AtGates(c)
  BY DEF DenyProtectedPath, DenyNoPolicies, DenyPanic
<1>3. call[c] \in CallType /\ CallOK(call[c]) /\ call[c].pc = "gates" /\ status \in Nat
  BY <1>2 DEF CallsOK, AtGates
<1> DEFINE d == Boundary(c, reason)
           n == Ruled(call[c], "boundary", status, d)
<1>4. d \in Result /\ d.action = "denied" /\ d.by = call[c].policies
  BY BoundaryEffect
<1>5. call' = [call EXCEPT ![c] = n] /\ UNCHANGED <<flags, escalations, auditVars, count>>
  BY <1>1, <1>2 DEF DenyAtBoundary, AtGates, Ruled
<1> HIDE DEF d
<1>6. /\ n \in CallType /\ n.pc = "boundary" /\ n.policies = call[c].policies
      /\ n.hash = call[c].hash /\ n.id = call[c].id /\ n.receipt = call[c].receipt
      /\ n.status = status /\ n.res = d
  <2>1. "boundary" \in Pc
    BY DEF Pc
  <2> QED BY <1>3, <1>4, <2>1, RuledEffect
<1> HIDE DEF n
<1>7. CallOK(n)
  BY <1>3, <1>4, <1>6, NoIdYet, BoundaryOK DEF CallOK
<1> QED BY <1>3, <1>5, <1>6, <1>7 DEF Quiet, Moves, Fresh

\* Decide: the result is by the captured policies, also when an undeclared tool
\* turns it into a deny.
LEMMA EffDecide ==
    ASSUME CallsOK, NEW c \in Calls, Decide(c)
    PROVE  \E n : Quiet(c, n) /\ n.pc # "take"
<1>1. call[c] \in CallType /\ CallOK(call[c]) /\ call[c].pc = "gates"
      /\ call[c].policies \in [Files -> Content]
  BY DEF CallsOK, Decide, AtGates, CallType
<1>2. PICK res \in Result :
        /\ res.by = call[c].policies
        /\ call' = [call EXCEPT ![c] =
                      [call[c] EXCEPT !.res = res, !.status = 200,
                                      !.pc = IF res.action = "escalated" THEN "reserve"
                                             ELSE "append"]]
  <2>1. PICK a \in Verdicts(EvaluatedSet(c)), tool \in Tools :
          LET r == [action |-> a, reason |-> "policy", by |-> EvaluatedSet(c)]
              res == IF flags.unknownToolsDeny
                       /\ ~ToolNameKnown(tool, call[c].policies)
                     THEN OperationalDeny(r, "unknown_tool") ELSE r
          IN call' = [call EXCEPT ![c] =
                        [call[c] EXCEPT !.res = res, !.status = 200,
                                        !.pc = IF res.action = "escalated" THEN "reserve"
                                               ELSE "append"]]
    BY DEF Decide
  <2> DEFINE r == [action |-> a, reason |-> "policy", by |-> call[c].policies]
             res == IF flags.unknownToolsDeny /\ ~ToolNameKnown(tool, call[c].policies)
                    THEN OperationalDeny(r, "unknown_tool") ELSE r
  <2>2. r \in Result /\ r.by = call[c].policies
    BY <1>1 DEF Verdicts, Actions, Reasons, Result
  <2>3. call' = [call EXCEPT ![c] =
                  [call[c] EXCEPT !.res = res, !.status = 200,
                                  !.pc = IF res.action = "escalated" THEN "reserve"
                                         ELSE "append"]]
    BY <2>1 DEF EvaluatedSet
  <2> HIDE DEF r
  <2>4. res \in Result /\ res.by = call[c].policies
    BY <2>2, DenyEffect DEF Reasons
  <2> QED BY <2>3, <2>4, ZenonT(30)
<1> DEFINE p == IF res.action = "escalated" THEN "reserve" ELSE "append"
           n == [call[c] EXCEPT !.res = res, !.status = 200, !.pc = p]
<1>3. p \in Pc
  BY DEF Pc
<1>4. call' = [call EXCEPT ![c] = n] /\ UNCHANGED <<flags, escalations, auditVars, count>>
  BY <1>2 DEF Decide, AtGates
<1> HIDE DEF p
<1>5. /\ n \in CallType /\ n.policies = call[c].policies /\ n.hash = call[c].hash
      /\ n.id = call[c].id /\ n.receipt = call[c].receipt /\ n.res = res /\ n.pc = p
  BY <1>1, <1>3, ZenonT(30) DEF CallType
<1> HIDE DEF n
<1>6. CallOK(n)
  BY <1>1, <1>2, <1>5, NoIdYet DEF CallOK, HasResult, Unwritten, p
<1>7. n.pc \in {"reserve", "append"}
  BY <1>5 DEF p
<1> QED BY <1>1, <1>4, <1>5, <1>6, <1>7 DEF Quiet, Moves, Fresh

-----------------------------------------------------------------------------
(* What a step may leave as it is *)

\* The other calls are where they were, and this one is n.
Stepped(c, n) == call'[c] = n /\ \A d \in Calls \ {c} : call'[d] = call[d]

\* A step of a call without records that appends nothing, and does not end in
\* telling the caller to proceed.
LEMMA ChainQuiet ==
    ASSUME Chain, NEW c \in Calls, NEW n, Stepped(c, n),
           UNCHANGED <<log, poisoned, flags>>,
           count["auditFailure"] \in Nat, count'["auditFailure"] \in Nat,
           count'["auditFailure"] >= count["auditFailure"],
           RecordsOf(c) = {}, n.receipt = call[c].receipt, n.status \in Nat,
           n.pc # "discard",
           n.pc = "answer" \/ (n.pc = "done" /\ n.status \notin {400, 413}) =>
               ~ActionProceeds(n.res.action)
    PROVE  Chain'
<1>1. \A d \in Calls : RecordsOf(d)' = RecordsOf(d)
  BY DEF RecordsOf
<1>2. ~Suspect(c)' /\ ~Suspect(c)
  BY <1>1 DEF Suspect, Stepped
<1>3. \A d \in Calls \ {c} : (Suspect(d)' <=> Suspect(d)) /\ (Decided(d)' <=> Decided(d))
  BY <1>1 DEF Suspect, Stepped, Decided, Done
<1>4. StampedByDecider' /\ log' \subseteq Record /\ poisoned' \in BOOLEAN
  BY DEF Chain, StampedByDecider
<1>5. \A d \in Calls \ {c} :
        /\ call'[d].pc \in Fresh \cup {"discardRetry", "retry", "reappend"} => RecordsOf(d)' = {}
        /\ call'[d].receipt \subseteq log' /\ \A t \in call'[d].receipt : t.call = d
        /\ (call'[d].pc = "answer" \/ Decided(d)') /\ ActionProceeds(call'[d].res.action) =>
              \/ \E t \in RecordsOf(d)' : t.res = call'[d].res
              \/ ~flags'.failClosed /\ count'["auditFailure"] > 0
        /\ Suspect(d)' => /\ poisoned'
                          /\ call'[d].pc # "discard" => call'[d].res.action = "denied"
        /\ call'[d].pc = "discard" => poisoned'
  BY <1>1, <1>3 DEF Chain, Stepped
<1>6. /\ RecordsOf(c)' = {}
      /\ call'[c].receipt \subseteq log' /\ \A t \in call'[c].receipt : t.call = c
      /\ ~((call'[c].pc = "answer" \/ Decided(c)') /\ ActionProceeds(call'[c].res.action))
      /\ call'[c].pc # "discard"
  <2>1. call'[c] = n /\ RecordsOf(c)' = {} /\ n.pc # "discard"
    BY <1>1 DEF Stepped
  <2>2. call[c].receipt \subseteq log /\ \A t \in call[c].receipt : t.call = c
    BY DEF Chain
  <2>3. Decided(c)' <=> n.pc = "done" /\ n.status \notin {400, 413}
    BY <2>1 DEF Decided, Done
  <2>4. ASSUME n.pc = "answer" \/ Decided(c)' PROVE ~ActionProceeds(n.res.action)
    <3>1. n.pc = "answer" \/ (n.pc = "done" /\ n.status \notin {400, 413})
      BY <2>1, <2>4 DEF Decided, Done
    <3> QED BY <3>1
  <2> QED BY <2>1, <2>2, <2>4
<1>7. \A d, e \in Calls : Suspect(d)' /\ Suspect(e)' => d = e
  BY <1>2, <1>3 DEF Chain
<1> QED BY <1>2, <1>4, <1>5, <1>6, <1>7 DEF Chain

\* Sets of calls that have begun are finite.
LEMMA StartedFinite ==
    ASSUME Counted, NEW S \in SUBSET Started
    PROVE  IsFiniteSet(S) /\ Cardinality(S) \in Nat
           /\ \A T \in SUBSET S : IsFiniteSet(T) /\ Cardinality(T) <= Cardinality(S)
                                /\ Cardinality(T) \in Nat
<1>1. IsFiniteSet(S)
  BY FS_Subset DEF Counted
<1>2. \A T \in SUBSET S : IsFiniteSet(T) /\ Cardinality(T) <= Cardinality(S)
  BY <1>1, FS_Subset
<1> QED BY <1>1, <1>2, FS_CardinalityType

\* The sets the counters are about are made of calls that have begun.
LEMMA CountedSets ==
    /\ DoneCalls \subseteq Started /\ Unrecorded \subseteq Started
    /\ \A k : AnsweredAs(k) \subseteq Started
<1>1. DoneCalls \subseteq Started
  BY DEF DoneCalls, Started, Done
<1>2. Unrecorded \subseteq Started
  BY DEF Unrecorded, Started, Unwritten, Decided, Done
<1>3. \A k : AnsweredAs(k) \subseteq Started
  BY DEF AnsweredAs, Started, Decided, Done
<1> QED BY <1>1, <1>2, <1>3

\* One more call has begun at most.
LEMMA StartedStep ==
    ASSUME Counted, NEW c \in Calls, NEW n, Stepped(c, n)
    PROVE  IsFiniteSet(Started')
<1>1. Started' \subseteq Started \cup {c}
  BY DEF Started, Stepped
<1>2. IsFiniteSet(Started \cup {c})
  BY FS_AddElement DEF Counted
<1> QED BY <1>1, <1>2, FS_Subset

\* A step that neither ends a call, nor counts, nor appends.
LEMMA CountedQuiet ==
    ASSUME Counted, NEW c \in Calls, NEW n, Stepped(c, n),
           UNCHANGED <<log, count>>, call[c].pc # "done", n.pc # "done",
           n.pc \in Unwritten \cup {"answer"} => c \in Unrecorded \/ RecordsOf(c) # {}
    PROVE  Counted'
<1>1. IsFiniteSet(Started')
  BY StartedStep
<1>2. DoneCalls' = DoneCalls
  BY DEF DoneCalls, Done, Stepped
<1>3. \A k : AnsweredAs(k)' = AnsweredAs(k)
  BY DEF AnsweredAs, Decided, Done, Stepped
<1>4. Unrecorded' \subseteq Unrecorded
  <2>1. \A d \in Calls : RecordsOf(d)' = RecordsOf(d)
    BY DEF RecordsOf
  <2> QED BY <2>1 DEF Unrecorded, Decided, Done, Stepped
<1>5. Cardinality(Unrecorded') <= Cardinality(Unrecorded) /\ Cardinality(Unrecorded') \in Nat
      /\ Cardinality(Unrecorded) \in Nat
  BY <1>4, CountedSets, StartedFinite
<1>6. count["auditFailure"] \in Nat
  BY DEF Counted, Counters
<1>7. Cardinality(Unrecorded') <= count'["auditFailure"]
  BY <1>5, <1>6 DEF Counted
<1> QED BY <1>1, <1>2, <1>3, <1>7 DEF Counted

\* A step that touches no reservation.
LEMMA HeldQuiet ==
    ASSUME Held, NEW c \in Calls, NEW n, Stepped(c, n),
           escalations' = escalations, n.id = call[c].id
    PROVE  Held'
BY DEF Held, Stepped

\* Before its first append the chain holds nothing of a call.
LEMMA NoRecordYet ==
    ASSUME Chain, NEW c \in Calls,
           call[c].pc \in Fresh \cup {"discardRetry", "retry", "reappend"}
    PROVE  RecordsOf(c) = {}
BY DEF Chain

\* Every step before the first append keeps what the call, the registry, the
\* chain and the counters promise.
LEMMA QuietKeeps ==
    ASSUME CallsOK, Held, Chain, Counted, NEW c \in Calls, NEW n, Quiet(c, n)
    PROVE  CallsOK' /\ Held' /\ Chain' /\ Counted' /\ Stepped(c, n)
<1>1. CallsOK' /\ Stepped(c, n)
  BY MoveEffect DEF Quiet, Stepped
<1>2. Held'
  BY <1>1, HeldQuiet DEF Quiet
<1>3. count["auditFailure"] \in Nat
  BY DEF Counted, Counters
<1>4. RecordsOf(c) = {}
  BY NoRecordYet DEF Quiet
<1>5. n.pc \notin {"discard", "answer", "done"} \cup Unwritten /\ call[c].pc # "done"
  BY DEF Quiet, Fresh, Unwritten
<1> n.status \in Nat
  BY DEF Quiet, Moves, CallOK, CallType
<1>6. Chain'
  BY <1>1, <1>3, <1>4, <1>5, ChainQuiet DEF Quiet, auditVars
<1>7. Counted'
  BY <1>1, <1>5, CountedQuiet DEF Quiet, auditVars
<1> QED BY <1>1, <1>2, <1>6, <1>7

-----------------------------------------------------------------------------
(* Steps that end a call, or move it after its decision *)

\* A call that ends with a status.
Ended(x, st) == [x EXCEPT !.pc = "done", !.status = st]

\* Its other fields stay.
LEMMA EndedEffect ==
    ASSUME NEW x \in CallType, NEW st \in Nat
    PROVE  /\ Ended(x, st) \in CallType
           /\ Ended(x, st).pc = "done" /\ Ended(x, st).status = st
           /\ Ended(x, st).res = x.res /\ Ended(x, st).policies = x.policies
           /\ Ended(x, st).hash = x.hash /\ Ended(x, st).id = x.id
           /\ Ended(x, st).receipt = x.receipt
BY DEF CallType, Ended, Pc

\* A call that moves on.
At(x, p) == [x EXCEPT !.pc = p]

\* Its other fields stay.
LEMMA AtEffect ==
    ASSUME NEW x \in CallType, NEW p \in Pc
    PROVE  /\ At(x, p) \in CallType
           /\ At(x, p).pc = p /\ At(x, p).status = x.status
           /\ At(x, p).res = x.res /\ At(x, p).policies = x.policies
           /\ At(x, p).hash = x.hash /\ At(x, p).id = x.id
           /\ At(x, p).receipt = x.receipt
BY DEF CallType, At

\* A call that moves on with a receipt.
Receipted(x, p, rc) == [x EXCEPT !.pc = p, !.receipt = rc]

\* Its other fields stay.
LEMMA ReceiptedEffect ==
    ASSUME NEW x \in CallType, NEW p \in Pc, NEW rc \in SUBSET Record
    PROVE  /\ Receipted(x, p, rc) \in CallType
           /\ Receipted(x, p, rc).pc = p /\ Receipted(x, p, rc).status = x.status
           /\ Receipted(x, p, rc).res = x.res /\ Receipted(x, p, rc).policies = x.policies
           /\ Receipted(x, p, rc).hash = x.hash /\ Receipted(x, p, rc).id = x.id
           /\ Receipted(x, p, rc).receipt = rc
BY DEF CallType, Receipted

\* A call that moves on with a reservation.
Reserving(x, p, i) == [x EXCEPT !.pc = p, !.id = i]

\* Its other fields stay.
LEMMA ReservingEffect ==
    ASSUME NEW x \in CallType, NEW p \in Pc, NEW i \in Ids
    PROVE  /\ Reserving(x, p, i) \in CallType
           /\ Reserving(x, p, i).pc = p /\ Reserving(x, p, i).status = x.status
           /\ Reserving(x, p, i).res = x.res /\ Reserving(x, p, i).policies = x.policies
           /\ Reserving(x, p, i).hash = x.hash /\ Reserving(x, p, i).id = i
           /\ Reserving(x, p, i).receipt = x.receipt
BY DEF CallType, Reserving

\* A call that moves on with another result.
Overruled(x, p, d) == [x EXCEPT !.res = d, !.pc = p]

\* Its other fields stay.
LEMMA OverruledEffect ==
    ASSUME NEW x \in CallType, NEW p \in Pc, NEW d \in Result
    PROVE  /\ Overruled(x, p, d) \in CallType
           /\ Overruled(x, p, d).pc = p /\ Overruled(x, p, d).status = x.status
           /\ Overruled(x, p, d).res = d /\ Overruled(x, p, d).policies = x.policies
           /\ Overruled(x, p, d).hash = x.hash /\ Overruled(x, p, d).id = x.id
           /\ Overruled(x, p, d).receipt = x.receipt
BY DEF CallType, Overruled

\* A call that moves on with another result and without its reservation.
Dropping(x, p, d) == [x EXCEPT !.res = d, !.id = NoId, !.pc = p]

\* Its other fields stay.
LEMMA DroppingEffect ==
    ASSUME NEW x \in CallType, NEW p \in Pc, NEW d \in Result
    PROVE  /\ Dropping(x, p, d) \in CallType
           /\ Dropping(x, p, d).pc = p /\ Dropping(x, p, d).status = x.status
           /\ Dropping(x, p, d).res = d /\ Dropping(x, p, d).policies = x.policies
           /\ Dropping(x, p, d).hash = x.hash /\ Dropping(x, p, d).id = NoId
           /\ Dropping(x, p, d).receipt = x.receipt
BY DEF CallType, Dropping

\* The fields a call carries.
LEMMA Fields ==
    ASSUME CallsOK, NEW c \in Calls
    PROVE  /\ call[c] \in CallType /\ CallOK(call[c])
           /\ call[c].pc \in Pc /\ call[c].status \in Nat /\ call[c].res \in Result
           /\ call[c].id \in Ids \cup {NoId} /\ call[c].receipt \in SUBSET Record
           /\ call[c].policies \in [Files -> Content]
BY DEF CallsOK, CallType

\* Which calls of the chain's ledger a step can add to.
LEMMA UnrecordedStep ==
    ASSUME NEW c \in Calls, NEW n, Stepped(c, n),
           \A d \in Calls \ {c} : RecordsOf(d)' = RecordsOf(d)
    PROVE  /\ Unrecorded' \subseteq Unrecorded \cup {c}
           /\ c \notin Unrecorded' \/ c \in Unrecorded => Unrecorded' \subseteq Unrecorded
<1>1. \A d \in Calls \ {c} : d \in Unrecorded' => d \in Unrecorded
  BY DEF Unrecorded, Decided, Done, Stepped
<1>2. Unrecorded' \subseteq Calls
  BY DEF Unrecorded
<1> QED BY <1>1, <1>2

\* A step counts a call it ends by its final action, and a call that is left
\* without a record by an audit failure.
LEMMA CountedKeeps ==
    ASSUME Counted, NEW c \in Calls, NEW n, Stepped(c, n),
           call[c].pc # "done", n.status \in Nat,
           count' \in [Counters -> Nat],
           count'["eval"] = count["eval"] + (IF n.pc = "done" THEN 1 ELSE 0),
           \A k \in {"allowed", "denied", "escalated", "flagged"} :
             count'[k] = count[k] + (IF /\ n.pc = "done" /\ n.status \notin {400, 413}
                                        /\ CounterOf(n.res.action) = k THEN 1 ELSE 0),
           \/ Unrecorded' \subseteq Unrecorded /\ count'["auditFailure"] >= count["auditFailure"]
           \/ /\ Unrecorded' \subseteq Unrecorded \cup {c}
              /\ count'["auditFailure"] >= count["auditFailure"] + 1
    PROVE  Counted'
<1>1. IsFiniteSet(Started')
  BY StartedStep
<1>2. c \notin DoneCalls /\ IsFiniteSet(DoneCalls)
  BY CountedSets, StartedFinite DEF DoneCalls, Done
<1>3. DoneCalls' = IF n.pc = "done" THEN DoneCalls \cup {c} ELSE DoneCalls
  BY DEF DoneCalls, Done, Stepped
<1>4. count'["eval"] = Cardinality(DoneCalls')
  <2>1. Cardinality(DoneCalls \cup {c}) = Cardinality(DoneCalls) + 1
    BY <1>2, FS_AddElement
  <2>2. Cardinality(DoneCalls) \in Nat /\ count["eval"] = Cardinality(DoneCalls)
    BY <1>2, FS_CardinalityType DEF Counted
  <2>3. CASE n.pc = "done"
    BY <1>3, <2>1, <2>2, <2>3
  <2>4. CASE n.pc # "done"
    BY <1>3, <2>2, <2>4
  <2> QED BY <2>3, <2>4
<1>5. ASSUME NEW k \in {"allowed", "denied", "escalated", "flagged"}
      PROVE  count'[k] = Cardinality(AnsweredAs(k)')
  <2> DEFINE more == n.pc = "done" /\ n.status \notin {400, 413} /\ CounterOf(n.res.action) = k
  <2>1. c \notin AnsweredAs(k) /\ IsFiniteSet(AnsweredAs(k))
    BY CountedSets, StartedFinite DEF AnsweredAs, Decided, Done
  <2>2. c \in AnsweredAs(k)' <=> more
    BY DEF AnsweredAs, Decided, Done, Stepped
  <2>3. \A d \in Calls \ {c} : d \in AnsweredAs(k)' <=> d \in AnsweredAs(k)
    BY DEF AnsweredAs, Decided, Done, Stepped
  <2>4. AnsweredAs(k)' \subseteq Calls /\ AnsweredAs(k) \subseteq Calls
    BY DEF AnsweredAs
  <2>5. Cardinality(AnsweredAs(k) \cup {c}) = Cardinality(AnsweredAs(k)) + 1
    BY <2>1, FS_AddElement
  <2>6. Cardinality(AnsweredAs(k)) \in Nat /\ count[k] = Cardinality(AnsweredAs(k))
    BY <2>1, FS_CardinalityType DEF Counted
  <2>7. CASE more
    <3>1. AnsweredAs(k)' = AnsweredAs(k) \cup {c}
      BY <2>2, <2>3, <2>4, <2>7
    <3>2. count'[k] = count[k] + 1
      BY <2>7
    <3> QED BY <3>1, <3>2, <2>5, <2>6
  <2>8. CASE ~more
    <3> c \notin AnsweredAs(k)'
      BY <2>2, <2>8
    <3> HIDE DEF more
    <3>1. AnsweredAs(k)' = AnsweredAs(k)
      BY <2>1, <2>3, <2>4
    <3>2. count'[k] = count[k] + 0
      BY <2>8 DEF more
    <3> QED BY <3>1, <3>2, <2>6
  <2> QED BY <2>7, <2>8
<1>6. Cardinality(Unrecorded') <= count'["auditFailure"]
  <2>1. IsFiniteSet(Unrecorded) /\ Cardinality(Unrecorded) \in Nat
    BY CountedSets, StartedFinite
  <2>2. IsFiniteSet(Unrecorded \cup {c})
        /\ Cardinality(Unrecorded \cup {c}) <= Cardinality(Unrecorded) + 1
    <3>1. IsFiniteSet(Unrecorded \cup {c})
          /\ \/ Cardinality(Unrecorded \cup {c}) = Cardinality(Unrecorded) + 1
             \/ Cardinality(Unrecorded \cup {c}) = Cardinality(Unrecorded)
      BY <2>1, FS_AddElement
    <3> QED BY <2>1, <3>1
  <2>3. count["auditFailure"] \in Nat /\ count'["auditFailure"] \in Nat
        /\ Cardinality(Unrecorded) <= count["auditFailure"]
    BY DEF Counted, Counters
  <2>4. CASE Unrecorded' \subseteq Unrecorded /\ count'["auditFailure"] >= count["auditFailure"]
    <3>1. Cardinality(Unrecorded') <= Cardinality(Unrecorded) /\ Cardinality(Unrecorded') \in Nat
      BY <2>1, <2>4, FS_Subset, FS_CardinalityType
    <3> QED BY <2>1, <2>3, <2>4, <3>1
  <2>5. CASE /\ Unrecorded' \subseteq Unrecorded \cup {c}
             /\ count'["auditFailure"] >= count["auditFailure"] + 1
    <3>1. /\ Cardinality(Unrecorded') <= Cardinality(Unrecorded \cup {c})
          /\ Cardinality(Unrecorded') \in Nat /\ Cardinality(Unrecorded \cup {c}) \in Nat
      BY <2>2, <2>5, FS_Subset, FS_CardinalityType
    <3> QED BY <2>1, <2>2, <2>3, <2>5, <3>1
  <2> QED BY <2>4, <2>5
<1> QED BY <1>1, <1>4, <1>5, <1>6 DEF Counted

\* What every step but a limiter's promises: the invariants of the handler
\* itself, and that no call is sent to take a token.
Settles ==
    /\ CallsOK' /\ Held' /\ Chain' /\ Counted'
    /\ \A d \in Calls : call'[d].pc = "take" => call'[d] = call[d]

\* The quiet steps settle.
LEMMA QuietSettles ==
    ASSUME CallsOK, Held, Chain, Counted, NEW c \in Calls, NEW n, Quiet(c, n), n.pc # "take"
    PROVE  Settles
BY QuietKeeps DEF Settles, Stepped

\* Counting an evaluation and, at most, one outcome of it.
LEMMA BumpEffect ==
    ASSUME Counted, NEW cs, Bump(cs)
    PROVE  /\ count' \in [Counters -> Nat]
           /\ \A k \in Counters : count'[k] = count[k] + (IF k \in cs THEN 1 ELSE 0)
<1>1. count \in [Counters -> Nat]
  BY DEF Counted
<1>2. \A k \in Counters : count[k] + (IF k \in cs THEN 1 ELSE 0) \in Nat
  BY <1>1
<1> QED BY <1>2 DEF Bump

\* A refused request ends unaudited, counted as an evaluation only.
LEMMA KeepReject ==
    ASSUME CallsOK, Held, Chain, Counted, NEW c \in Calls, RejectBody(c) \/ RejectMode(c)
    PROVE  Settles
<1>1. PICK st : /\ st \in {400, 413}
                /\ call' = [call EXCEPT ![c].pc = "done", ![c].status = st]
  BY DEF RejectBody, RejectMode
<1>2. /\ call[c].pc \in {"new", "gates"} /\ Bump({"eval"})
      /\ UNCHANGED <<flags, escalations, log, poisoned, faults>>
  BY DEF RejectBody, RejectMode, AtGates, auditVars
<1>3. call[c] \in CallType /\ st \in Nat /\ CallOK(call[c]) /\ call[c].id = NoId
  BY <1>1, <1>2, Fields, NoIdYet
<1> DEFINE x == call[c]
           n == Ended(x, st)
<1>4. call' = [call EXCEPT ![c] = n]
  <2>1. call \in [Calls -> CallType]
    BY DEF CallsOK
  <2>2. call' = [call EXCEPT ![c].pc = "done", ![c].status = st]
    BY <1>1
  <2> QED BY <2>1, <2>2 DEF Ended, CallType
<1>5. /\ n \in CallType /\ n.pc = "done" /\ n.status = st /\ n.res = x.res /\ n.id = x.id
      /\ n.receipt = x.receipt /\ n.policies = x.policies /\ n.hash = x.hash
  BY <1>3, EndedEffect
<1> HIDE DEF n
<1>6. st # 202 /\ (st = 400 \/ st = 413) /\ n.status \in {400, 413}
  BY <1>1, <1>5
<1>7. CallOK(n)
  <2>1. ~HasResult(n)
    BY <1>5, <1>6 DEF HasResult, Unwritten
  <2>2. n.hash = PolicySetHash(n.policies)
    BY <1>3, <1>5 DEF CallOK
  <2> QED BY <1>3, <1>5, <1>6, <2>1, <2>2 DEF CallOK
<1>8. CallsOK' /\ Stepped(c, n)
  BY <1>2, <1>4, <1>7, MoveEffect DEF Moves, Stepped
<1>9. Held'
  BY <1>2, <1>5, <1>8, HeldQuiet
<1>10. /\ count' \in [Counters -> Nat] /\ count'["eval"] = count["eval"] + 1
       /\ \A k \in Counters \ {"eval"} : count'[k] = count[k] + 0
  BY <1>2, BumpEffect DEF Counters
<1>11. count["auditFailure"] \in Nat /\ count'["auditFailure"] = count["auditFailure"]
  BY <1>10 DEF Counters, Counted
<1>12. RecordsOf(c) = {} /\ \A d \in Calls : RecordsOf(d)' = RecordsOf(d)
  <2>1. \A d \in Calls : RecordsOf(d)' = RecordsOf(d)
    BY <1>2 DEF RecordsOf
  <2> QED BY <1>2, <2>1, NoRecordYet DEF Fresh
<1>13. Chain'
  BY <1>2, <1>5, <1>6, <1>8, <1>11, <1>12, ChainQuiet
<1>14. Counted'
  <2>1. c \notin Unrecorded'
    BY <1>5, <1>6, <1>8 DEF Unrecorded, Stepped, Decided, Done, Unwritten
  <2>2. Unrecorded' \subseteq Unrecorded
    BY <1>8, <1>12, <2>1, UnrecordedStep
  <2>3. \A k \in {"allowed", "denied", "escalated", "flagged"} : count'[k] = count[k] + 0
    BY <1>10 DEF Counters
  <2> QED BY <1>2, <1>5, <1>6, <1>8, <1>10, <1>11, <2>2, <2>3, CountedKeeps
<1> QED BY <1>5, <1>8, <1>9, <1>13, <1>14 DEF Settles, Stepped

\* A reservation is held by the call that made it; a call that gets none is
\* denied instead.
LEMMA KeepReserve ==
    ASSUME CallsOK, Held, Chain, Counted, NEW c \in Calls, Reserve(c)
    PROVE  Settles
<1> DEFINE x == call[c]
<1>1. /\ x.pc = "reserve" /\ UNCHANGED <<flags, log, poisoned, faults, count>>
  BY DEF Reserve, auditVars
<1>2. x \in CallType /\ CallOK(x) /\ x.id = NoId /\ x.res \in Result /\ x.status \in Nat
  BY <1>1, Fields, NoIdYet
<1>3. RecordsOf(c) = {}
  BY <1>1, NoRecordYet DEF Fresh
<1>4. count["auditFailure"] \in Nat /\ "append" \in Pc
  BY DEF Counted, Counters, Pc
<1>5. ASSUME NEW n, CallOK(n), call' = [call EXCEPT ![c] = n], n.pc = "append",
             n.receipt = x.receipt, n.status \in Nat
      PROVE  CallsOK' /\ Stepped(c, n) /\ Chain' /\ Counted'
  <2>1. CallsOK' /\ Stepped(c, n)
    BY <1>1, <1>5, MoveEffect DEF Moves, Stepped
  <2>2. Chain'
    BY <1>1, <1>3, <1>4, <1>5, <2>1, ChainQuiet
  <2>3. Counted'
    BY <1>1, <1>5, <2>1, CountedQuiet DEF Unwritten
  <2> QED BY <2>1, <2>2, <2>3
<1>6. PICK i : /\ i \in Ids
               /\ IF i \notin escalations /\ Cardinality(escalations) < MaxPending
                  THEN /\ escalations' = escalations \cup {i}
                       /\ call' = [call EXCEPT ![c].pc = "append", ![c].id = i]
                  ELSE /\ call' = [call EXCEPT ![c] =
                            [call[c] EXCEPT !.res = OperationalDeny(call[c].res, "not_registered"),
                                            !.pc = "append"]]
                       /\ UNCHANGED escalations
  BY DEF Reserve
<1>7. CASE i \notin escalations /\ Cardinality(escalations) < MaxPending
  <2> DEFINE n == Reserving(x, "append", i)
  <2>1. i \in Ids /\ i \notin escalations /\ escalations' = escalations \cup {i}
    BY <1>6, <1>7
  <2>2. call' = [call EXCEPT ![c] = n]
    <3>1. call' = [call EXCEPT ![c].pc = "append", ![c].id = i]
      BY <1>6, <1>7
    <3>2. call \in [Calls -> CallType]
      BY DEF CallsOK
    <3> QED BY <3>1, <3>2 DEF Reserving, CallType
  <2>3. /\ n \in CallType /\ n.pc = "append" /\ n.status = x.status /\ n.res = x.res
        /\ n.id = i /\ n.receipt = x.receipt /\ n.policies = x.policies /\ n.hash = x.hash
    BY <1>2, <1>4, <2>1, ReservingEffect
  <2> HIDE DEF n
  <2>4. CallOK(n)
    <3>1. HasResult(x)
      BY <1>1 DEF HasResult
    <3>2. x.hash = PolicySetHash(x.policies) /\ x.res.by = x.policies
          /\ x.res.action = "escalated"
      BY <1>1, <1>2, <3>1 DEF CallOK
    <3>3. x.id = NoId
      BY <1>2
    <3> HIDE DEF x
    <3> QED BY <2>1, <2>3, <3>2, <3>3, EvaluateAssumption DEF CallOK
  <2>5. CallsOK' /\ Stepped(c, n) /\ Chain' /\ Counted'
    BY <1>2, <1>5, <2>2, <2>3, <2>4
  <2>6. Held'
    <3>1. call'[c].id = i /\ \A d \in Calls \ {c} : call'[d].id = call[d].id
      BY <2>3, <2>5 DEF Stepped
    <3>2. \A d \in Calls : call[d].id # i
      BY <2>1, EvaluateAssumption DEF Held
    <3>3. x.id = NoId /\ i # NoId
      BY <1>2, <2>1, EvaluateAssumption
    <3>4. /\ escalations \subseteq Ids
          /\ \A d \in Calls : call[d].id # NoId => call[d].id \in escalations
          /\ \A j \in escalations : \E d \in Calls : call[d].id = j
          /\ \A d, e \in Calls : call[d].id # NoId /\ call[d].id = call[e].id => d = e
      BY DEF Held
    <3>5. escalations' \subseteq Ids
          /\ \A d \in Calls : call'[d].id # NoId => call'[d].id \in escalations'
      BY <2>1, <3>1, <3>4
    <3>6. ASSUME NEW j \in escalations' PROVE \E d \in Calls : call'[d].id = j
      <4>1. CASE j = i
        BY <3>1, <4>1
      <4>2. CASE j # i
        <5> j \in escalations
          BY <2>1, <4>2
        <5>1. PICK d \in Calls : call[d].id = j
          BY <3>4
        <5>2. d # c
          <6>1. NoId \notin escalations
            BY <3>4, EvaluateAssumption
          <6> QED BY <2>1, <3>3, <4>2, <5>1, <6>1
        <5> QED BY <3>1, <5>1, <5>2
      <4> QED BY <4>1, <4>2
    <3>7. \A d, e \in Calls : call'[d].id # NoId /\ call'[d].id = call'[e].id => d = e
      BY <3>1, <3>2, <3>4
    <3> QED BY <3>5, <3>6, <3>7 DEF Held
  <2> QED BY <2>3, <2>5, <2>6 DEF Settles, Stepped
<1>8. CASE ~(i \notin escalations /\ Cardinality(escalations) < MaxPending)
  <2> DEFINE d == OperationalDeny(x.res, "not_registered")
             n == Overruled(x, "append", d)
  <2>1. d \in Result /\ d.action = "denied" /\ d.by = x.res.by
    BY <1>2, DenyEffect DEF Reasons
  <2>2. call' = [call EXCEPT ![c] = n] /\ escalations' = escalations
    BY <1>6, <1>8 DEF Overruled
  <2> HIDE DEF d
  <2>3. /\ n \in CallType /\ n.pc = "append" /\ n.status = x.status /\ n.res = d
        /\ n.id = x.id /\ n.receipt = x.receipt /\ n.policies = x.policies /\ n.hash = x.hash
    BY <1>2, <1>4, <2>1, OverruledEffect
  <2> HIDE DEF n
  <2>4. CallOK(n)
    <3>1. HasResult(x)
      BY <1>1 DEF HasResult
    <3>2. x.hash = PolicySetHash(x.policies) /\ x.res.by = x.policies
          /\ x.res.action = "escalated"
      BY <1>1, <1>2, <3>1 DEF CallOK
    <3>3. x.id = NoId
      BY <1>2
    <3> HIDE DEF x
    <3> QED BY <2>1, <2>3, <3>2, <3>3, EvaluateAssumption DEF CallOK
  <2>5. CallsOK' /\ Stepped(c, n) /\ Chain' /\ Counted'
    BY <1>2, <1>5, <2>2, <2>3, <2>4
  <2>6. Held'
    BY <2>2, <2>3, <2>5, HeldQuiet
  <2> QED BY <2>3, <2>5, <2>6 DEF Settles, Stepped
<1> QED BY <1>7, <1>8

\* A step after the last append: the result stays, or becomes a deny in place of
\* one whose record may be in the chain.
LEMMA ChainStay ==
    ASSUME Chain, NEW c \in Calls, NEW n, Stepped(c, n),
           UNCHANGED <<log, poisoned, flags>>,
           count["auditFailure"] \in Nat, count'["auditFailure"] \in Nat,
           count'["auditFailure"] >= count["auditFailure"],
           n.receipt = call[c].receipt, n.pc \in {"answer", "done"}, n.status \in Nat,
           ActionProceeds(n.res.action) => call[c].pc = "answer" /\ n.res = call[c].res,
           (\E t \in RecordsOf(c) : t.res # n.res) => Suspect(c) /\ n.res.action = "denied"
    PROVE  Chain'
<1>1. \A d \in Calls : RecordsOf(d)' = RecordsOf(d)
  BY DEF RecordsOf
<1>2. Suspect(c)' => Suspect(c) /\ n.res.action = "denied"
  BY <1>1 DEF Suspect, Stepped
<1>3. \A d \in Calls \ {c} : (Suspect(d)' <=> Suspect(d)) /\ (Decided(d)' <=> Decided(d))
  BY <1>1 DEF Suspect, Stepped, Decided, Done
<1>4. StampedByDecider' /\ log' \subseteq Record /\ poisoned' \in BOOLEAN
  BY DEF Chain, StampedByDecider
<1>5. \A d \in Calls \ {c} :
        /\ call'[d].pc \in Fresh \cup {"discardRetry", "retry", "reappend"} => RecordsOf(d)' = {}
        /\ call'[d].receipt \subseteq log' /\ \A t \in call'[d].receipt : t.call = d
        /\ (call'[d].pc = "answer" \/ Decided(d)') /\ ActionProceeds(call'[d].res.action) =>
              \/ \E t \in RecordsOf(d)' : t.res = call'[d].res
              \/ ~flags'.failClosed /\ count'["auditFailure"] > 0
        /\ Suspect(d)' => /\ poisoned'
                          /\ call'[d].pc # "discard" => call'[d].res.action = "denied"
        /\ call'[d].pc = "discard" => poisoned'
  BY <1>1, <1>3 DEF Chain, Stepped
<1>6. /\ call'[c].pc \notin Fresh \cup {"discardRetry", "retry", "reappend", "discard"}
      /\ call'[c].receipt \subseteq log' /\ \A t \in call'[c].receipt : t.call = c
      /\ Suspect(c)' => poisoned' /\ call'[c].res.action = "denied"
  <2>1. call'[c] = n
    BY DEF Stepped
  <2>2. /\ call[c].receipt \subseteq log /\ \A t \in call[c].receipt : t.call = c
        /\ Suspect(c) => poisoned
    BY DEF Chain
  <2> QED BY <1>2, <2>1, <2>2 DEF Fresh
<1>7. ActionProceeds(call'[c].res.action) =>
        \/ \E t \in RecordsOf(c)' : t.res = call'[c].res
        \/ ~flags'.failClosed /\ count'["auditFailure"] > 0
  <2> SUFFICES ASSUME ActionProceeds(n.res.action)
               PROVE  \/ \E t \in RecordsOf(c) : t.res = n.res
                      \/ ~flags.failClosed /\ count["auditFailure"] > 0
    BY <1>1 DEF Stepped
  <2>1. call[c].pc = "answer" /\ n.res = call[c].res
    OBVIOUS
  <2> QED BY <2>1 DEF Chain
<1>8. \A d, e \in Calls : Suspect(d)' /\ Suspect(e)' => d = e
  BY <1>2, <1>3 DEF Chain
<1> QED BY <1>4, <1>5, <1>6, <1>7, <1>8 DEF Chain

\* Every action is counted by one of the four outcome counters.
LEMMA CounterOfType ==
    \A a \in Actions : CounterOf(a) \in {"allowed", "denied", "escalated", "flagged"}
BY DEF Actions, CounterOf

\* The answer: what was decided last is what is counted and told.
LEMMA KeepAnswer ==
    ASSUME CallsOK, Held, Chain, Counted, NEW c \in Calls, Answer(c)
    PROVE  Settles
<1> DEFINE x == call[c]
           st == IF x.res.action = "escalated" THEN 202 ELSE 200
           n == Ended(x, st)
<1>1. /\ x.pc = "answer" /\ Bump({"eval", CounterOf(x.res.action)})
      /\ UNCHANGED <<flags, escalations, log, poisoned, faults>>
  BY DEF Answer, auditVars, CountedAs
<1>2. x \in CallType /\ CallOK(x) /\ x.res \in Result /\ x.res.action \in Actions
  BY <1>1, Fields DEF Result
<1>3. st \in Nat /\ st \in {200, 202} /\ (st = 202 => x.res.action = "escalated")
  OBVIOUS
<1>4. call' = [call EXCEPT ![c] = n]
  <2>1. call' = [call EXCEPT ![c].pc = "done", ![c].status = st]
    BY DEF Answer
  <2>2. call \in [Calls -> CallType]
    BY DEF CallsOK
  <2> HIDE DEF st
  <2> QED BY <2>1, <2>2 DEF Ended, CallType
<1> HIDE DEF st
<1>5. /\ n \in CallType /\ n.pc = "done" /\ n.status = st /\ n.res = x.res /\ n.id = x.id
      /\ n.receipt = x.receipt /\ n.policies = x.policies /\ n.hash = x.hash
  BY <1>2, <1>3, EndedEffect
<1> HIDE DEF n
<1>6. CallOK(n)
  <2>1. /\ x.hash = PolicySetHash(x.policies) /\ x.res.by = x.policies
        /\ x.id # NoId => x.res.action = "escalated"
        /\ x.res.action = "escalated" => x.id # NoId
    BY <1>1, <1>2 DEF CallOK, HasResult
  <2> HIDE DEF x
  <2> QED BY <1>3, <1>5, <2>1 DEF CallOK
<1>7. CallsOK' /\ Stepped(c, n)
  BY <1>1, <1>4, <1>6, MoveEffect DEF Moves, Stepped
<1>8. Held'
  BY <1>1, <1>5, <1>7, HeldQuiet
<1> DEFINE k0 == CounterOf(x.res.action)
<1>9. k0 \in {"allowed", "denied", "escalated", "flagged"}
  BY <1>2, CounterOfType
<1>10. /\ count' \in [Counters -> Nat]
       /\ \A k \in Counters : count'[k] = count[k] + (IF k \in {"eval", k0} THEN 1 ELSE 0)
  BY <1>1, BumpEffect
<1>11. count["auditFailure"] \in Nat /\ count'["auditFailure"] = count["auditFailure"]
  <2> HIDE DEF k0
  <2> QED BY <1>9, <1>10 DEF Counters, Counted
<1>12. \A d \in Calls : RecordsOf(d)' = RecordsOf(d)
  BY <1>1 DEF RecordsOf
<1>13. Chain'
  <2>1. ASSUME \E t \in RecordsOf(c) : t.res # n.res
        PROVE  Suspect(c) /\ n.res.action = "denied"
    <3>1. Suspect(c)
      BY <1>5, <2>1 DEF Suspect
    <3> QED BY <1>1, <1>5, <3>1 DEF Chain
  <2>2. n.status \in Nat /\ n.pc \in {"answer", "done"}
    BY <1>3, <1>5
  <2> QED BY <1>1, <1>5, <1>7, <1>11, <2>1, <2>2, ChainStay
<1>14. Counted'
  <2>1. c \in Unrecorded' => c \in Unrecorded
    BY <1>1, <1>12 DEF Unrecorded
  <2>2. Unrecorded' \subseteq Unrecorded
    BY <1>7, <1>12, <2>1, UnrecordedStep
  <2>3. count'["eval"] = count["eval"] + 1
    <3> HIDE DEF k0
    <3> QED BY <1>10 DEF Counters
  <2>4. n.status \in Nat /\ n.status \notin {400, 413}
    BY <1>3, <1>5
  <2>5. \A k \in {"allowed", "denied", "escalated", "flagged"} :
          count'[k] = count[k] + (IF /\ n.pc = "done" /\ n.status \notin {400, 413}
                                     /\ CounterOf(n.res.action) = k THEN 1 ELSE 0)
    <3>1. CounterOf(n.res.action) = k0
      BY <1>5
    <3> HIDE DEF k0
    <3> QED BY <1>5, <1>10, <2>4, <3>1 DEF Counters
  <2> QED BY <1>1, <1>5, <1>7, <1>10, <1>11, <2>2, <2>3, <2>4, <2>5, CountedKeeps
<1> QED BY <1>5, <1>7, <1>8, <1>13, <1>14 DEF Settles, Stepped

\* Discarding gives the id back, and only the call that held it loses it.
LEMMA KeepDiscard ==
    ASSUME CallsOK, Held, Chain, Counted, NEW c \in Calls, Discard(c)
    PROVE  Settles
<1> DEFINE x == call[c]
           d == OperationalDeny(x.res, "escalation_audit")
           p == IF x.pc = "discardRetry" THEN "retry" ELSE "answer"
           n == Dropping(x, p, d)
<1>1. /\ x.pc \in {"discard", "discardRetry"} /\ escalations' = escalations \ {x.id}
      /\ UNCHANGED <<flags, log, poisoned, faults, count>>
  BY DEF Discard, auditVars, Released
<1>2. /\ x \in CallType /\ CallOK(x) /\ x.res \in Result /\ x.id # NoId
      /\ x.hash = PolicySetHash(x.policies) /\ x.res.by = x.policies
  <2>1. x \in CallType /\ CallOK(x) /\ x.res \in Result
    BY Fields
  <2>2. HasResult(x)
    BY <1>1 DEF HasResult, Unwritten
  <2> QED BY <1>1, <2>1, <2>2 DEF CallOK
<1>3. d \in Result /\ d.action = "denied" /\ d.by = x.res.by
  BY <1>2, DenyEffect DEF Reasons
<1>4. call' = [call EXCEPT ![c] = n]
  BY DEF Discard, Dropping
<1>5. p \in Pc /\ p \in {"retry", "answer"}
  BY DEF Pc
<1> HIDE DEF d
<1>6. /\ n \in CallType /\ n.pc = p /\ n.status = x.status /\ n.res = d
      /\ n.id = NoId /\ n.receipt = x.receipt /\ n.policies = x.policies /\ n.hash = x.hash
  <2> HIDE DEF p
  <2> QED BY <1>2, <1>3, <1>5, DroppingEffect
<1> HIDE DEF n
<1>7. CallOK(n)
  <2> HIDE DEF x, p
  <2> QED BY <1>2, <1>3, <1>5, <1>6 DEF CallOK
<1>8. CallsOK' /\ Stepped(c, n)
  BY <1>1, <1>4, <1>7, MoveEffect DEF Moves, Stepped
<1>9. Held'
  <2>1. call'[c].id = NoId /\ \A e \in Calls \ {c} : call'[e].id = call[e].id
    BY <1>6, <1>8 DEF Stepped
  <2>2. /\ escalations \subseteq Ids
        /\ \A e \in Calls : call[e].id # NoId => call[e].id \in escalations
        /\ \A j \in escalations : \E e \in Calls : call[e].id = j
        /\ \A e, f \in Calls : call[e].id # NoId /\ call[e].id = call[f].id => e = f
    BY DEF Held
  <2>3. \A e \in Calls : call'[e].id # NoId => call'[e].id \in escalations'
    BY <1>1, <1>2, <2>1, <2>2
  <2>4. ASSUME NEW j \in escalations' PROVE \E e \in Calls : call'[e].id = j
    <3>1. j \in escalations /\ j # x.id
      BY <1>1
    <3>2. PICK e \in Calls : call[e].id = j
      BY <2>2, <3>1
    <3> QED BY <2>1, <3>1, <3>2
  <2>5. \A e, f \in Calls : call'[e].id # NoId /\ call'[e].id = call'[f].id => e = f
    BY <2>1, <2>2
  <2>6. escalations' \subseteq Ids
    BY <1>1, <2>2
  <2> QED BY <2>3, <2>4, <2>5, <2>6 DEF Held
<1>10. /\ count["auditFailure"] \in Nat /\ count' = count /\ ~ActionProceeds(n.res.action)
       /\ n.status \in Nat
  BY <1>1, <1>2, <1>3, <1>6 DEF Counted, Counters, ActionProceeds, CallType
<1>11. Chain'
  <2>1. CASE x.pc = "discardRetry"
    <3>1. RecordsOf(c) = {}
      BY <2>1, NoRecordYet
    <3>2. n.pc # "discard"
      BY <1>5, <1>6
    <3> QED BY <1>1, <1>6, <1>8, <1>10, <3>1, <3>2, ChainQuiet
  <2>2. CASE x.pc = "discard"
    <3>1. n.pc = "answer"
      BY <1>6, <2>2
    <3>2. (\E t \in RecordsOf(c) : t.res # n.res) => Suspect(c) /\ n.res.action = "denied"
      BY <1>3, <1>6, <2>2 DEF Suspect
    <3> QED BY <1>1, <1>6, <1>8, <1>10, <3>1, <3>2, ChainStay
  <2> QED BY <1>1, <2>1, <2>2
<1>12. Counted'
  <2>1. c \in Unrecorded \/ RecordsOf(c) # {}
    BY <1>1 DEF Unrecorded, Unwritten
  <2>2. x.pc # "done" /\ n.pc # "done"
    BY <1>1, <1>5, <1>6
  <2> QED BY <1>1, <1>8, <2>1, <2>2, CountedQuiet
<1> QED BY <1>5, <1>6, <1>8, <1>9, <1>11, <1>12 DEF Settles, Stepped

-----------------------------------------------------------------------------
(* The appends *)

\* A poisoned writer writes nothing, and every other outcome is one of three.
LEMMA OutcomeCases ==
    ASSUME NEW out \in Outcomes
    PROVE  out \in {"ok", "failed", "poisoned"} /\ (poisoned => out = "poisoned")
BY DEF Outcomes

\* What an append of the call's trace does to the chain.
LEMMA AppendEffect ==
    ASSUME CallsOK, Chain, NEW c \in Calls, HasResult(call[c]), RecordsOf(c) = {},
           NEW out \in Outcomes, AuditEffect(TraceOf(c), out)
    PROVE  /\ log' \subseteq Record /\ StampedByDecider' /\ log \subseteq log'
           /\ poisoned' \in BOOLEAN /\ (poisoned => poisoned')
           /\ \A d \in Calls \ {c} : RecordsOf(d)' = RecordsOf(d)
           /\ RecordsOf(c)' \subseteq {TraceOf(c)}
           /\ out = "ok" => RecordsOf(c)' = {TraceOf(c)}
           /\ out = "failed" => RecordsOf(c)' = {}
           /\ out = "poisoned" => poisoned'
           /\ poisoned => RecordsOf(c)' = {}
           /\ TraceOf(c) \in Record /\ TraceOf(c).res = call[c].res /\ TraceOf(c).call = c
<1> DEFINE t == TraceOf(c)
<1>1. /\ call[c].hash \in SUBSET Content /\ call[c].res \in Result
      /\ call[c].hash = PolicySetHash(call[c].policies) /\ call[c].res.by = call[c].policies
  BY DEF CallsOK, CallOK, CallType
<1>2. /\ t \in Record /\ t.res = call[c].res /\ t.call = c
      /\ t.hash = PolicySetHash(t.res.by)
  BY <1>1 DEF TraceOf, Trace, Record
<1> HIDE DEF t
<1>3. out \in {"ok", "failed", "poisoned"} /\ (poisoned => out = "poisoned")
  BY OutcomeCases
<1>4. /\ log' \in {log, log \cup {t}}
      /\ out = "ok" => log' = log \cup {t}
      /\ out = "failed" \/ poisoned => log' = log
      /\ poisoned' = (poisoned \/ out = "poisoned")
  BY <1>3 DEF AuditEffect, t
<1>5. log' \subseteq Record /\ log \subseteq log' /\ StampedByDecider'
  BY <1>2, <1>4 DEF Chain, StampedByDecider
<1>6. \A d \in Calls \ {c} : RecordsOf(d)' = RecordsOf(d)
  BY <1>2, <1>4 DEF RecordsOf
<1>7. RecordsOf(c)' \in {{}, {t}} /\ (out = "ok" => RecordsOf(c)' = {t})
      /\ (out = "failed" \/ poisoned => RecordsOf(c)' = {})
  <2>1. log' = log => RecordsOf(c)' = {}
    BY DEF RecordsOf
  <2>2. log' = log \cup {t} => RecordsOf(c)' = {t}
    BY <1>2 DEF RecordsOf
  <2> QED BY <1>4, <2>1, <2>2
<1>8. poisoned' \in BOOLEAN /\ (poisoned => poisoned') /\ (out = "poisoned" => poisoned')
  BY <1>4 DEF Chain
<1> QED BY <1>2, <1>5, <1>6, <1>7, <1>8 DEF t

\* An append keeps the chain in step with the calls: only the record whose
\* append poisons the writer can come to differ from its call, and it is a deny
\* that then takes its place.
LEMMA ChainAppend ==
    ASSUME CallsOK, Chain, NEW c \in Calls, HasResult(call[c]), RecordsOf(c) = {},
           NEW out \in Outcomes, AuditEffect(TraceOf(c), out),
           NEW n, Stepped(c, n), flags' = flags, n.status \in Nat, n.pc \in Pc \ Fresh,
           count["auditFailure"] \in Nat, count'["auditFailure"] \in Nat,
           count'["auditFailure"] >= count["auditFailure"],
           n.receipt \subseteq RecordsOf(c)',
           n.pc \in {"discardRetry", "retry", "reappend"} => out = "failed",
           n.pc = "discard" => out = "poisoned",
           n.pc # "discard" /\ n.res # call[c].res => n.res.action = "denied" /\ out # "ok",
           n.pc \in {"answer", "done"} /\ ActionProceeds(n.res.action) =>
               \/ n.res = call[c].res /\ out = "ok"
               \/ ~flags.failClosed /\ count'["auditFailure"] > 0
    PROVE  Chain'
<1>1. /\ log' \subseteq Record /\ StampedByDecider' /\ log \subseteq log'
      /\ poisoned' \in BOOLEAN /\ (poisoned => poisoned')
      /\ \A d \in Calls \ {c} : RecordsOf(d)' = RecordsOf(d)
      /\ RecordsOf(c)' \subseteq {TraceOf(c)}
      /\ out = "ok" => RecordsOf(c)' = {TraceOf(c)}
      /\ out = "failed" => RecordsOf(c)' = {}
      /\ out = "poisoned" => poisoned'
      /\ poisoned => RecordsOf(c)' = {}
      /\ TraceOf(c) \in Record /\ TraceOf(c).res = call[c].res /\ TraceOf(c).call = c
  BY AppendEffect
<1>2. call'[c] = n /\ \A d \in Calls \ {c} : call'[d] = call[d]
  BY DEF Stepped
<1>3. \A d \in Calls \ {c} : (Suspect(d)' <=> Suspect(d)) /\ (Decided(d)' <=> Decided(d))
  BY <1>1, <1>2 DEF Suspect, Decided, Done
<1>4. \A d \in Calls \ {c} :
        /\ call'[d].pc \in Fresh \cup {"discardRetry", "retry", "reappend"} => RecordsOf(d)' = {}
        /\ call'[d].receipt \subseteq log' /\ \A t \in call'[d].receipt : t.call = d
        /\ (call'[d].pc = "answer" \/ Decided(d)') /\ ActionProceeds(call'[d].res.action) =>
              \/ \E t \in RecordsOf(d)' : t.res = call'[d].res
              \/ ~flags'.failClosed /\ count'["auditFailure"] > 0
        /\ Suspect(d)' => /\ poisoned'
                          /\ call'[d].pc # "discard" => call'[d].res.action = "denied"
        /\ call'[d].pc = "discard" => poisoned'
  BY <1>1, <1>2, <1>3 DEF Chain
<1>5. Suspect(c)' => /\ ~poisoned /\ poisoned'
                     /\ n.pc # "discard" => n.res.action = "denied"
  <2> SUFFICES ASSUME Suspect(c)'
               PROVE  /\ ~poisoned /\ poisoned'
                      /\ n.pc # "discard" => n.res.action = "denied"
    OBVIOUS
  <2>1. RecordsOf(c)' # {} /\ (n.pc = "discard" \/ n.res # call[c].res)
    BY <1>1, <1>2 DEF Suspect
  <2>2. out = "poisoned"
    BY <1>1, <2>1, OutcomeCases
  <2> QED BY <1>1, <2>1, <2>2
<1>6. /\ call'[c].pc \in Fresh \cup {"discardRetry", "retry", "reappend"} => RecordsOf(c)' = {}
      /\ call'[c].receipt \subseteq log' /\ \A t \in call'[c].receipt : t.call = c
      /\ call'[c].pc = "discard" => poisoned'
  <2>1. n.receipt \subseteq log' /\ \A t \in n.receipt : t.call = c
    BY DEF RecordsOf
  <2> QED BY <1>1, <1>2, <2>1
<1>7. (call'[c].pc = "answer" \/ Decided(c)') /\ ActionProceeds(call'[c].res.action) =>
        \/ \E t \in RecordsOf(c)' : t.res = call'[c].res
        \/ ~flags'.failClosed /\ count'["auditFailure"] > 0
  <2> SUFFICES ASSUME n.pc \in {"answer", "done"}, ActionProceeds(n.res.action)
               PROVE  \/ \E t \in RecordsOf(c)' : t.res = n.res
                      \/ ~flags.failClosed /\ count'["auditFailure"] > 0
    BY <1>2 DEF Decided, Done
  <2>1. CASE n.res = call[c].res /\ out = "ok"
    BY <1>1, <2>1
  <2> QED BY <2>1
<1>8. \A d, e \in Calls : Suspect(d)' /\ Suspect(e)' => d = e
  <2>1. Suspect(c)' => \A d \in Calls \ {c} : ~Suspect(d)'
    BY <1>3, <1>5 DEF Chain
  <2>2. \A d, e \in Calls \ {c} : Suspect(d)' /\ Suspect(e)' => d = e
    BY <1>3 DEF Chain
  <2> QED BY <2>1, <2>2
<1> QED BY <1>1, <1>2, <1>4, <1>5, <1>6, <1>7, <1>8 DEF Chain

\* A receipt is of the record just written; a call without records has none.
LEMMA ReceiptEffect ==
    ASSUME CallsOK, Chain, NEW c \in Calls, HasResult(call[c]), RecordsOf(c) = {},
           NEW out \in Outcomes, AuditEffect(TraceOf(c), out)
    PROVE  /\ Receipt(TraceOf(c), out) \in SUBSET Record
           /\ Receipt(TraceOf(c), out) \subseteq RecordsOf(c)'
           /\ call[c].receipt = {}
<1>1. TraceOf(c) \in Record /\ (out = "ok" => RecordsOf(c)' = {TraceOf(c)})
  BY AppendEffect
<1>2. call[c].receipt = {}
  BY DEF Chain, RecordsOf
<1> QED BY <1>1, <1>2 DEF Receipt

\* A deny at the boundary goes out whether or not it could be recorded.
LEMMA KeepBoundaryDeny ==
    ASSUME CallsOK, Held, Chain, Counted, NEW c \in Calls, BoundaryDeny(c)
    PROVE  Settles
<1> DEFINE x == call[c]
<1>1. x.pc = "boundary" /\ flags' = flags /\ escalations' = escalations
  BY DEF BoundaryDeny
<1>2. PICK out : /\ out \in Outcomes
                 /\ AuditEffect(TraceOf(c), out)
                 /\ call' = [call EXCEPT ![c].pc = "done",
                                         ![c].receipt = Receipt(TraceOf(c), out)]
                 /\ Bump({"eval", "denied"}
                         \cup (IF out # "ok" THEN {"auditFailure"} ELSE {})
                         \cup (IF x.status \in {500, 503} THEN {"failClosed"} ELSE {}))
  BY DEF BoundaryDeny
<1>3. /\ x \in CallType /\ CallOK(x) /\ HasResult(x) /\ x.id = NoId /\ x.res \in Result
      /\ x.res.action = "denied" /\ x.status \in Nat
      /\ x.status = 403 \/ x.status = 429 \/ x.status = 500 \/ x.status = 503
      /\ x.hash = PolicySetHash(x.policies) /\ x.res.by = x.policies
  <2>1. x \in CallType /\ CallOK(x) /\ x.id = NoId /\ x.res \in Result /\ x.status \in Nat
    BY <1>1, Fields, NoIdYet
  <2>2. HasResult(x)
    BY <1>1 DEF HasResult
  <2> QED BY <1>1, <2>1, <2>2 DEF CallOK
<1>4. RecordsOf(c) = {}
  BY <1>1, NoRecordYet DEF Fresh
<1> DEFINE rc == Receipt(TraceOf(c), out)
           n == Receipted(x, "done", rc)
<1>5. rc \in SUBSET Record /\ rc \subseteq RecordsOf(c)'
  BY <1>2, <1>3, <1>4, ReceiptEffect
<1> HIDE DEF rc
<1>6. call' = [call EXCEPT ![c] = n]
  <2>1. call' = [call EXCEPT ![c].pc = "done", ![c].receipt = rc]
    BY <1>2 DEF rc
  <2>2. call \in [Calls -> CallType]
    BY DEF CallsOK
  <2> QED BY <2>1, <2>2 DEF Receipted, CallType
<1>7. /\ n \in CallType /\ n.pc = "done" /\ n.status = x.status /\ n.res = x.res
      /\ n.id = x.id /\ n.receipt = rc /\ n.policies = x.policies /\ n.hash = x.hash
  <2>1. "done" \in Pc
    BY DEF Pc
  <2> QED BY <1>3, <1>5, <2>1, ReceiptedEffect
<1> HIDE DEF n
<1>8. CallOK(n)
  <2> HIDE DEF x
  <2> QED BY <1>3, <1>7 DEF CallOK
<1>9. CallsOK' /\ Stepped(c, n)
  BY <1>1, <1>6, <1>8, MoveEffect DEF Moves, Stepped
<1>10. Held'
  BY <1>1, <1>7, <1>9, HeldQuiet
<1>11. /\ count' \in [Counters -> Nat] /\ count \in [Counters -> Nat]
       /\ count'["eval"] = count["eval"] + 1 /\ count'["denied"] = count["denied"] + 1
       /\ \A k \in {"allowed", "escalated", "flagged"} : count'[k] = count[k]
       /\ count'["auditFailure"] = count["auditFailure"] + (IF out # "ok" THEN 1 ELSE 0)
  <2> DEFINE cs == {"eval", "denied"} \cup (IF out # "ok" THEN {"auditFailure"} ELSE {})
                   \cup (IF x.status \in {500, 503} THEN {"failClosed"} ELSE {})
  <2>1. "eval" \in cs /\ "denied" \in cs /\ ("auditFailure" \in cs <=> out # "ok")
        /\ "allowed" \notin cs /\ "escalated" \notin cs /\ "flagged" \notin cs
    OBVIOUS
  <2>2. Bump(cs)
    BY <1>2
  <2> HIDE DEF cs
  <2>3. /\ count' \in [Counters -> Nat] /\ count \in [Counters -> Nat]
        /\ \A k \in Counters : count'[k] = count[k] + (IF k \in cs THEN 1 ELSE 0)
    BY <2>2, BumpEffect DEF Counted
  <2> QED BY <2>1, <2>3 DEF Counters
<1>12. count["auditFailure"] \in Nat /\ count'["auditFailure"] \in Nat
  BY <1>11 DEF Counters
<1>13. n.pc \in Pc \ Fresh /\ ~ActionProceeds(n.res.action) /\ n.status \in Nat
  BY <1>3, <1>7 DEF Pc, Fresh, ActionProceeds
<1>14. Chain'
  <2>1. count'["auditFailure"] >= count["auditFailure"]
    BY <1>11, <1>12
  <2>2. n.receipt \subseteq RecordsOf(c)' /\ n.res = x.res /\ n.pc = "done"
    BY <1>5, <1>7
  <2> QED BY <1>1, <1>2, <1>3, <1>4, <1>9, <1>12, <1>13, <2>1, <2>2, ChainAppend
<1>15. Counted'
  <2>1. /\ \A d \in Calls \ {c} : RecordsOf(d)' = RecordsOf(d)
        /\ out = "ok" => RecordsOf(c)' = {TraceOf(c)}
    BY <1>2, <1>3, <1>4, AppendEffect
  <2>2. out = "ok" => c \notin Unrecorded'
    BY <2>1 DEF Unrecorded
  <2>3. \/ Unrecorded' \subseteq Unrecorded /\ count'["auditFailure"] >= count["auditFailure"]
        \/ /\ Unrecorded' \subseteq Unrecorded \cup {c}
           /\ count'["auditFailure"] >= count["auditFailure"] + 1
    <3>1. CASE out = "ok"
      <4>1. Unrecorded' \subseteq Unrecorded
        BY <1>9, <2>1, <2>2, <3>1, UnrecordedStep
      <4> QED BY <1>11, <1>12, <3>1, <4>1
    <3>2. CASE out # "ok"
      <4>1. Unrecorded' \subseteq Unrecorded \cup {c}
        BY <1>9, <2>1, UnrecordedStep
      <4> QED BY <1>11, <1>12, <3>2, <4>1
    <3> QED BY <3>1, <3>2
  <2>4. CounterOf(n.res.action) = "denied" /\ n.status \notin {400, 413}
    BY <1>3, <1>7 DEF CounterOf
  <2>5. \A k \in {"allowed", "denied", "escalated", "flagged"} :
          count'[k] = count[k] + (IF /\ n.pc = "done" /\ n.status \notin {400, 413}
                                     /\ CounterOf(n.res.action) = k THEN 1 ELSE 0)
    BY <1>7, <1>11, <2>4 DEF Counters
  <2> QED BY <1>1, <1>7, <1>9, <1>11, <1>13, <2>3, <2>5, CountedKeeps
<1> QED BY <1>7, <1>9, <1>10, <1>14, <1>15 DEF Settles, Stepped

\* The second append of a deny: it was counted as a failure at the first.
LEMMA KeepSecondAppend ==
    ASSUME CallsOK, Held, Chain, Counted, NEW c \in Calls,
           call[c].pc \in {"retry", "reappend"}, NEW out \in Outcomes,
           AuditEffect(TraceOf(c), out), NEW n \in CallType,
           call' = [call EXCEPT ![c] = n],
           UNCHANGED <<flags, escalations, count>>,
           n.pc = "answer", n.status = call[c].status, n.res = call[c].res,
           n.id = call[c].id, n.policies = call[c].policies, n.hash = call[c].hash,
           n.receipt \subseteq RecordsOf(c)'
    PROVE  Settles
<1> DEFINE x == call[c]
<1>1. x \in CallType /\ CallOK(x) /\ x.id = NoId /\ x.status \in Nat /\ HasResult(x)
  BY Fields, NoIdYet DEF HasResult, Unwritten
<1>2. /\ x.hash = PolicySetHash(x.policies) /\ x.res.by = x.policies
      /\ x.res.action = "denied"
  BY <1>1 DEF CallOK
<1>3. RecordsOf(c) = {}
  BY NoRecordYet
<1>4. CallOK(n)
  <2>1. /\ n.pc = "answer" /\ n.res.action = "denied" /\ n.id = NoId
        /\ n.hash = PolicySetHash(n.policies) /\ n.res.by = n.policies
    BY <1>1, <1>2
  <2> QED BY <2>1 DEF CallOK
<1>5. CallsOK' /\ Stepped(c, n)
  BY <1>4, MoveEffect DEF Moves, Stepped
<1>6. Held'
  BY <1>5, HeldQuiet
<1>7. count["auditFailure"] \in Nat /\ n.pc \in Pc \ Fresh /\ ~ActionProceeds(n.res.action)
      /\ n.status \in Nat
  BY <1>1, <1>2 DEF Counted, Counters, Pc, Fresh, ActionProceeds
<1>8. Chain'
  BY <1>1, <1>3, <1>5, <1>7, ChainAppend
<1>9. Counted'
  <2>1. \A d \in Calls \ {c} : RecordsOf(d)' = RecordsOf(d)
    BY <1>1, <1>3, AppendEffect
  <2>2. c \in Unrecorded
    BY <1>3 DEF Unrecorded, Unwritten
  <2>3. Unrecorded' \subseteq Unrecorded
    BY <1>5, <2>1, <2>2, UnrecordedStep
  <2>4. count \in [Counters -> Nat] /\ count["eval"] \in Nat
        /\ \A k \in {"allowed", "denied", "escalated", "flagged"} : count[k] \in Nat
    BY DEF Counted, Counters
  <2> QED BY <1>5, <1>7, <2>3, <2>4, CountedKeeps
<1> QED BY <1>5, <1>6, <1>8, <1>9 DEF Settles, Stepped

\* The durable deny.
LEMMA KeepRetryDeny ==
    ASSUME CallsOK, Held, Chain, Counted, NEW c \in Calls, RetryDeny(c)
    PROVE  Settles
<1> DEFINE x == call[c]
<1>1. x.pc = "retry" /\ UNCHANGED <<flags, escalations, count>>
  BY DEF RetryDeny
<1>2. PICK out : /\ out \in Outcomes
                 /\ AuditEffect(TraceOf(c), out)
                 /\ call' = [call EXCEPT ![c].pc = "answer",
                                         ![c].receipt = Receipt(TraceOf(c), out)]
  BY DEF RetryDeny, SyncedTrace
<1>3. x \in CallType /\ HasResult(x) /\ RecordsOf(c) = {}
  BY <1>1, Fields, NoRecordYet DEF HasResult, Unwritten
<1> DEFINE rc == Receipt(TraceOf(c), out)
           n == Receipted(x, "answer", rc)
<1>4. rc \in SUBSET Record /\ rc \subseteq RecordsOf(c)'
  BY <1>2, <1>3, ReceiptEffect
<1> HIDE DEF rc
<1>5. call' = [call EXCEPT ![c] = n]
  <2>1. call' = [call EXCEPT ![c].pc = "answer", ![c].receipt = rc]
    BY <1>2 DEF rc
  <2>2. call \in [Calls -> CallType]
    BY DEF CallsOK
  <2> QED BY <2>1, <2>2 DEF Receipted, CallType
<1>6. /\ n \in CallType /\ n.pc = "answer" /\ n.status = x.status /\ n.res = x.res
      /\ n.id = x.id /\ n.receipt = rc /\ n.policies = x.policies /\ n.hash = x.hash
  <2>1. "answer" \in Pc
    BY DEF Pc
  <2> QED BY <1>3, <1>4, <2>1, ReceiptedEffect
<1> HIDE DEF n
<1> QED BY <1>1, <1>2, <1>4, <1>5, <1>6, KeepSecondAppend

\* The best-effort deny of a fail-closed downgrade.
LEMMA KeepReappendDeny ==
    ASSUME CallsOK, Held, Chain, Counted, NEW c \in Calls, ReappendDeny(c)
    PROVE  Settles
<1> DEFINE x == call[c]
           n == At(x, "answer")
<1>1. x.pc = "reappend" /\ UNCHANGED <<flags, escalations, count>>
  BY DEF ReappendDeny
<1>2. PICK out : out \in Outcomes /\ AuditEffect(TraceOf(c), out)
  BY DEF ReappendDeny, SyncedTrace
<1>3. x \in CallType /\ HasResult(x) /\ RecordsOf(c) = {}
  BY <1>1, Fields, NoRecordYet DEF HasResult, Unwritten
<1>4. x.receipt = {}
  BY <1>2, <1>3, ReceiptEffect
<1>5. call' = [call EXCEPT ![c] = n]
  <2>1. call' = [call EXCEPT ![c].pc = "answer"]
    BY DEF ReappendDeny
  <2>2. call \in [Calls -> CallType]
    BY DEF CallsOK
  <2> QED BY <2>1, <2>2 DEF At, CallType
<1>6. /\ n \in CallType /\ n.pc = "answer" /\ n.status = x.status /\ n.res = x.res
      /\ n.id = x.id /\ n.receipt = x.receipt /\ n.policies = x.policies /\ n.hash = x.hash
  <2>1. "answer" \in Pc
    BY DEF Pc
  <2> QED BY <1>3, <2>1, AtEffect
<1> HIDE DEF n
<1> QED BY <1>1, <1>2, <1>4, <1>5, <1>6, KeepSecondAppend

\* The first append.  Under -fail-closed a call that would proceed without its
\* record is denied, and a reservation without one is on its way back.
LEMMA KeepAppendTrace ==
    ASSUME CallsOK, Held, Chain, Counted, NEW c \in Calls, AppendTrace(c)
    PROVE  Settles
<1> DEFINE x == call[c]
           d == OperationalDeny(x.res, "audit")
<1>1. x.pc = "append" /\ flags' = flags /\ escalations' = escalations
  BY DEF AppendTrace
<1>2. PICK out : /\ out \in Outcomes
                 /\ AuditEffect(TraceOf(c), out)
                 /\ call' = [call EXCEPT ![c] =
                      CASE out = "ok" ->
                             [call[c] EXCEPT !.receipt = Receipt(TraceOf(c), out), !.pc = "answer"]
                        [] out # "ok" /\ Reserved(c) ->
                             [call[c] EXCEPT !.pc = IF out = "failed" THEN "discardRetry"
                                                    ELSE "discard"]
                        [] out # "ok" /\ ~Reserved(c) /\ Downgrades(c) ->
                             [call[c] EXCEPT !.res = OperationalDeny(call[c].res, "audit"),
                                             !.pc = IF out = "failed" THEN "reappend" ELSE "answer"]
                        [] OTHER -> [call[c] EXCEPT !.pc = "answer"]]
                 /\ Bump(IF out # "ok" THEN {"auditFailure"} ELSE {})
  BY DEF AppendTrace
<1>3. /\ x \in CallType /\ CallOK(x) /\ HasResult(x) /\ x.res \in Result /\ x.status \in Nat
      /\ x.hash = PolicySetHash(x.policies) /\ x.res.by = x.policies
      /\ x.id # NoId <=> x.res.action = "escalated"
  <2>1. x \in CallType /\ CallOK(x) /\ x.res \in Result /\ x.status \in Nat
    BY <1>1, Fields
  <2>2. HasResult(x)
    BY <1>1 DEF HasResult
  <2> QED BY <1>1, <2>1, <2>2 DEF CallOK
<1>4. RecordsOf(c) = {}
  BY <1>1, NoRecordYet DEF Fresh
<1>5. x.receipt = {} /\ out \in {"ok", "failed", "poisoned"}
  BY <1>2, <1>3, <1>4, ReceiptEffect, OutcomeCases
<1>6. /\ count' \in [Counters -> Nat] /\ count \in [Counters -> Nat]
      /\ \A k \in Counters \ {"auditFailure"} : count'[k] = count[k]
      /\ count'["auditFailure"] = count["auditFailure"] + (IF out # "ok" THEN 1 ELSE 0)
  <2> DEFINE cs == IF out # "ok" THEN {"auditFailure"} ELSE {}
  <2>1. ("auditFailure" \in cs <=> out # "ok") /\ \A k \in Counters \ {"auditFailure"} : k \notin cs
    OBVIOUS
  <2>2. Bump(cs)
    BY <1>2
  <2> HIDE DEF cs
  <2>3. /\ count' \in [Counters -> Nat] /\ count \in [Counters -> Nat]
        /\ \A k \in Counters : count'[k] = count[k] + (IF k \in cs THEN 1 ELSE 0)
    BY <2>2, BumpEffect DEF Counted
  <2> QED BY <2>1, <2>3 DEF Counters
<1>7. /\ count["auditFailure"] \in Nat /\ count'["auditFailure"] \in Nat
      /\ count'["auditFailure"] >= count["auditFailure"]
      /\ out # "ok" => count'["auditFailure"] > 0
  BY <1>6 DEF Counters
<1>8. ASSUME NEW n, CallOK(n), call' = [call EXCEPT ![c] = n],
             n.pc \in Unwritten \cup {"answer"}, n.status \in Nat, n.id = x.id,
             n.receipt \subseteq RecordsOf(c)',
             n.pc \in {"discardRetry", "retry", "reappend"} => out = "failed",
             n.pc = "discard" => out = "poisoned",
             n.res # x.res => n.res.action = "denied" /\ out # "ok",
             n.pc = "answer" /\ ActionProceeds(n.res.action) =>
                 \/ n.res = x.res /\ out = "ok"
                 \/ ~flags.failClosed /\ out # "ok"
      PROVE  Settles
  <2>1. CallsOK' /\ Stepped(c, n)
    BY <1>1, <1>8, MoveEffect DEF Moves, Stepped
  <2>2. Held'
    BY <1>1, <1>8, <2>1, HeldQuiet
  <2>3. n.pc \in Pc \ Fresh /\ n.pc # "done" /\ n.pc # "take"
    BY <1>8 DEF Pc, Fresh, Unwritten
  <2>4. Chain'
    BY <1>1, <1>2, <1>3, <1>4, <1>7, <1>8, <2>1, <2>3, ChainAppend
  <2>5. Counted'
    <3>1. /\ \A e \in Calls \ {c} : RecordsOf(e)' = RecordsOf(e)
          /\ out = "ok" => RecordsOf(c)' = {TraceOf(c)}
      BY <1>2, <1>3, <1>4, AppendEffect
    <3>2. out = "ok" => c \notin Unrecorded'
      BY <3>1 DEF Unrecorded
    <3>3. \/ Unrecorded' \subseteq Unrecorded /\ count'["auditFailure"] >= count["auditFailure"]
          \/ /\ Unrecorded' \subseteq Unrecorded \cup {c}
             /\ count'["auditFailure"] >= count["auditFailure"] + 1
      <4>1. CASE out = "ok"
        <5>1. Unrecorded' \subseteq Unrecorded
          BY <2>1, <3>1, <3>2, <4>1, UnrecordedStep
        <5> QED BY <1>7, <5>1
      <4>2. CASE out # "ok"
        <5>1. Unrecorded' \subseteq Unrecorded \cup {c}
          BY <2>1, <3>1, UnrecordedStep
        <5> QED BY <1>6, <1>7, <4>2, <5>1
      <4> QED BY <4>1, <4>2
    <3>4. /\ count'["eval"] = count["eval"] + 0
          /\ \A k \in {"allowed", "denied", "escalated", "flagged"} : count'[k] = count[k] + 0
      BY <1>6 DEF Counters
    <3> QED BY <1>1, <1>6, <1>8, <2>1, <2>3, <3>3, <3>4, CountedKeeps
  <2> QED BY <2>1, <2>2, <2>3, <2>4, <2>5 DEF Settles, Stepped
<1>9. CASE out = "ok"
  <2> DEFINE rc == Receipt(TraceOf(c), out)
             n == Receipted(x, "answer", rc)
  <2>1. rc \in SUBSET Record /\ rc \subseteq RecordsOf(c)'
    BY <1>2, <1>3, <1>4, ReceiptEffect
  <2>2. call' = [call EXCEPT ![c] = [x EXCEPT !.receipt = rc, !.pc = "answer"]]
    BY <1>2, <1>9
  <2> HIDE DEF rc
  <2>3. call' = [call EXCEPT ![c] = n]
    BY <1>3, <2>2 DEF Receipted, CallType
  <2>4. /\ n \in CallType /\ n.pc = "answer" /\ n.status = x.status /\ n.res = x.res
        /\ n.id = x.id /\ n.receipt = rc /\ n.policies = x.policies /\ n.hash = x.hash
    <3>1. "answer" \in Pc
      BY DEF Pc
    <3> QED BY <1>3, <2>1, <3>1, ReceiptedEffect
  <2> HIDE DEF n
  <2>5. CallOK(n)
    <3>1. x.hash = PolicySetHash(x.policies) /\ x.res.by = x.policies
      BY <1>3
    <3>2. x.id # NoId <=> x.res.action = "escalated"
      BY <1>3
    <3> HIDE DEF x
    <3> QED BY <2>4, <3>1, <3>2 DEF CallOK
  <2> QED BY <1>3, <1>8, <1>9, <2>1, <2>3, <2>4, <2>5
<1>10. CASE out # "ok" /\ x.id # NoId
  <2> DEFINE p == IF out = "failed" THEN "discardRetry" ELSE "discard"
             n == At(x, p)
  <2>1. call' = [call EXCEPT ![c] = n]
    BY <1>2, <1>10 DEF Reserved, At
  <2>2. /\ p \in Pc /\ p \in Unwritten /\ p \in {"discard", "discardRetry"}
        /\ p = "discardRetry" => out = "failed"
        /\ p = "discard" => out = "poisoned"
    BY <1>5, <1>10 DEF Pc, Unwritten
  <2> HIDE DEF p
  <2>3. /\ n \in CallType /\ n.pc = p /\ n.status = x.status /\ n.res = x.res
        /\ n.id = x.id /\ n.receipt = x.receipt /\ n.policies = x.policies /\ n.hash = x.hash
    BY <1>3, <2>2, AtEffect
  <2> HIDE DEF n
  <2>4. CallOK(n)
    <3>1. /\ x.hash = PolicySetHash(x.policies) /\ x.res.by = x.policies
          /\ x.res.action = "escalated" /\ x.id # NoId
      BY <1>3, <1>10
    <3> HIDE DEF x
    <3> QED BY <2>2, <2>3, <3>1 DEF CallOK
  <2>5. n.pc # "answer" /\ n.pc \notin {"retry", "reappend"} /\ n.receipt \subseteq RecordsOf(c)'
    BY <1>5, <2>2, <2>3
  <2> QED BY <1>3, <1>8, <2>1, <2>2, <2>3, <2>4, <2>5
<1>11. CASE out # "ok" /\ x.id = NoId /\ Downgrades(c)
  <2> DEFINE p == IF out = "failed" THEN "reappend" ELSE "answer"
             n == Overruled(x, p, d)
  <2>1. d \in Result /\ d.action = "denied" /\ d.by = x.res.by
    BY <1>3, DenyEffect DEF Reasons
  <2>2. call' = [call EXCEPT ![c] = n]
    BY <1>2, <1>11 DEF Reserved, Overruled
  <2>3. /\ p \in Pc /\ p \in {"reappend", "answer"} /\ (p = "reappend" => out = "failed")
        /\ p \in Unwritten \cup {"answer"}
    BY DEF Pc, Unwritten
  <2> HIDE DEF p, d
  <2>4. /\ n \in CallType /\ n.pc = p /\ n.status = x.status /\ n.res = d
        /\ n.id = x.id /\ n.receipt = x.receipt /\ n.policies = x.policies /\ n.hash = x.hash
    BY <1>3, <2>1, <2>3, OverruledEffect
  <2> HIDE DEF n
  <2>5. CallOK(n)
    <3>1. x.hash = PolicySetHash(x.policies) /\ x.res.by = x.policies /\ x.id = NoId
      BY <1>3, <1>11
    <3> HIDE DEF x
    <3> QED BY <2>1, <2>3, <2>4, <3>1 DEF CallOK
  <2>6. /\ ~ActionProceeds(n.res.action) /\ n.res.action = "denied" /\ n.pc # "discard"
        /\ n.pc \notin {"retry", "discardRetry"} /\ n.receipt \subseteq RecordsOf(c)'
    BY <1>5, <2>1, <2>3, <2>4 DEF ActionProceeds
  <2> QED BY <1>3, <1>8, <1>11, <2>2, <2>3, <2>4, <2>5, <2>6
<1>12. CASE out # "ok" /\ x.id = NoId /\ ~Downgrades(c)
  <2> DEFINE n == At(x, "answer")
  <2>1. call' = [call EXCEPT ![c] = n]
    BY <1>2, <1>12 DEF Reserved, At
  <2>2. /\ n \in CallType /\ n.pc = "answer" /\ n.status = x.status /\ n.res = x.res
        /\ n.id = x.id /\ n.receipt = x.receipt /\ n.policies = x.policies /\ n.hash = x.hash
    <3>1. "answer" \in Pc
      BY DEF Pc
    <3> QED BY <1>3, <3>1, AtEffect
  <2>3. ActionProceeds(x.res.action) => ~flags.failClosed
    BY <1>12 DEF Downgrades
  <2> HIDE DEF n
  <2>4. CallOK(n)
    <3>1. /\ x.hash = PolicySetHash(x.policies) /\ x.res.by = x.policies /\ x.id = NoId
          /\ x.res.action # "escalated"
      BY <1>3, <1>12
    <3> HIDE DEF x
    <3> QED BY <2>2, <3>1 DEF CallOK
  <2>5. n.receipt \subseteq RecordsOf(c)' /\ n.pc \in Unwritten \cup {"answer"} /\ n.pc # "discard"
        /\ n.pc \notin {"discardRetry", "retry", "reappend"}
    BY <1>5, <2>2
  <2> QED BY <1>3, <1>8, <1>12, <2>1, <2>2, <2>3, <2>4, <2>5
<1> QED BY <1>9, <1>10, <1>11, <1>12

-----------------------------------------------------------------------------
(* The rate limiter *)

\* Products of the rate and a time.
LEMMA RateTimes ==
    ASSUME NEW a \in Nat, NEW b \in Nat, a <= b
    PROVE  /\ Rate * a \in Nat /\ Rate * b \in Nat /\ Rate * a <= Rate * b
           /\ Rate * (b - a) = Rate * b - Rate * a /\ Rate * (b - a) \in Nat
<1>1. PICK d \in Nat : b = a + d
  <2>1. b - a \in Nat /\ b = a + (b - a)
    OBVIOUS
  <2> QED BY <2>1
<1>2. Rate \in Nat /\ Rate * a \in Nat /\ Rate * d \in Nat
  BY RateLimiterAssumption
<1>3. Rate * b = Rate * a + Rate * d
  BY <1>1, <1>2
<1>4. b - a = d
  BY <1>1
<1> QED BY <1>2, <1>3, <1>4

\* What a bucket holds.
LEMMA BucketType ==
    ASSUME LimiterInv, NEW b \in 1..Len(bucket)
    PROVE  /\ bucket[b] \in [tokens : Nat, last : Nat]
           /\ bucket[b].tokens \in Nat /\ bucket[b].last \in Nat
<1> DEFINE B == [tokens : Nat, last : Nat]
<1>1. bucket \in Seq(B)
  BY DEF LimiterInv
<1>2. bucket[b] \in B
  <2> HIDE DEF B
  <2> QED BY <1>1
<1> QED BY <1>2

\* Time only adds to what a key may be granted.
LEMMA LimiterTick == LimiterInv /\ Tick => LimiterInv'
<1> SUFFICES ASSUME LimiterInv, Tick PROVE LimiterInv'
  OBVIOUS
<1>1. now \in Nat /\ now' = now + 1 /\ UNCHANGED <<buckets, bucket, admitted, stale>>
  BY DEF LimiterInv, Tick
<1>2. Rate * now \in Nat /\ Rate * (now + 1) \in Nat /\ Rate * now <= Rate * (now + 1)
  BY <1>1, RateTimes
<1>3. Budget'
  <2> SUFFICES ASSUME IdleEvict * Rate >= Burst, NEW k \in LimitKeys
               PROVE  /\ buckets[k] = 0 => admitted[k] <= Rate * (now + 1) + stale[k]
                      /\ buckets[k] # 0 => admitted[k] + bucket[buckets[k]].tokens
                            <= Burst + Rate * bucket[buckets[k]].last + stale[k]
    BY <1>1 DEF Budget
  <2>1. /\ buckets[k] = 0 => admitted[k] <= Rate * now + stale[k]
        /\ buckets[k] # 0 => admitted[k] + bucket[buckets[k]].tokens
                            <= Burst + Rate * bucket[buckets[k]].last + stale[k]
    BY DEF LimiterInv, Budget
  <2>2. admitted[k] \in Nat /\ stale[k] \in Nat
    BY DEF LimiterInv
  <2> QED BY <1>2, <2>1, <2>2
<1>4. \A b \in 1..Len(bucket) : bucket[b].last <= now'
  <2> SUFFICES ASSUME NEW b \in 1..Len(bucket) PROVE bucket[b].last <= now + 1
    BY <1>1
  <2>1. bucket[b].last \in Nat
    BY BucketType
  <2>2. bucket[b].last <= now
    BY DEF LimiterInv
  <2> QED BY <1>1, <2>1, <2>2
<1>5. /\ now' \in Nat /\ bucket' = bucket /\ buckets' = buckets
      /\ admitted' = admitted /\ stale' = stale
  BY <1>1
<1>6. /\ bucket \in Seq([tokens : Nat, last : Nat]) /\ buckets \in [LimitKeys -> 0..Len(bucket)]
      /\ admitted \in [LimitKeys -> Nat] /\ stale \in [LimitKeys -> Nat]
      /\ \A k, l \in LimitKeys : buckets[k] = buckets[l] /\ buckets[k] # 0 => k = l
  BY DEF LimiterInv
<1> HIDE DEF Budget
<1> QED BY <1>3, <1>4, <1>5, <1>6 DEF LimiterInv

\* A bucket is found or made for a key; the sweep drops only buckets that an
\* idle period has refilled, so a new one is worth no more.
LEMMA LimiterFetch ==
    ASSUME LimiterInv, NEW key \in Keys, NEW b, FetchBucket(key, b)
    PROVE  /\ LimiterInv' /\ b \in 1..Len(bucket')
           /\ \A k \in LimitKeys : buckets'[k] = b => k = LimitKey(key)
           /\ \A e \in 1..Len(bucket) : e \in 1..Len(bucket')
           /\ \A e \in 1..Len(bucket), k \in LimitKeys : buckets'[k] = e => buckets[k] = e
<1> DEFINE kk == LimitKey(key)
           len == Len(bucket)
<1>1. kk \in LimitKeys
  BY DEF LimitKeys
<1> HIDE DEF kk
<1>2. /\ now \in Nat /\ bucket \in Seq([tokens : Nat, last : Nat]) /\ len \in Nat
      /\ buckets \in [LimitKeys -> 0..len]
      /\ \A k, l \in LimitKeys : buckets[k] = buckets[l] /\ buckets[k] # 0 => k = l
  BY DEF LimiterInv
<1>3. CASE buckets[kk] # 0
  <2>1. b = buckets[kk] /\ UNCHANGED limiterVars
    BY <1>3 DEF FetchBucket, kk
  <2>2. UNCHANGED <<now, buckets, bucket, admitted, stale>>
    BY <2>1 DEF limiterVars
  <2>3. LimiterInv'
    BY <2>2 DEF LimiterInv, Budget
  <2> QED BY <1>1, <1>2, <1>3, <2>1, <2>2, <2>3 DEF kk
<1>4. CASE buckets[kk] = 0
  <2> DEFINE m == IF Cardinality(Mapped(buckets)) >= MaxKeys THEN SweepIdle(buckets)
                  ELSE buckets
  <2>1. /\ b = len + 1 /\ bucket' = Append(bucket, [tokens |-> Burst, last |-> now])
        /\ buckets' = [m EXCEPT ![kk] = b] /\ UNCHANGED <<now, admitted, stale>>
    BY <1>4 DEF FetchBucket, kk
  <2>2. m \in [LimitKeys -> 0..len]
        /\ \A k \in LimitKeys : \/ m[k] = buckets[k]
                                \/ /\ m[k] = 0 /\ buckets[k] # 0
                                   /\ bucket[buckets[k]].last + IdleEvict < now
    BY <1>2 DEF SweepIdle
  <2> HIDE DEF m
  <2>3. /\ bucket' \in Seq([tokens : Nat, last : Nat]) /\ Len(bucket') = len + 1
        /\ \A e \in 1..len : bucket'[e] = bucket[e]
        /\ bucket'[len + 1] = [tokens |-> Burst, last |-> now]
    <3>1. [tokens |-> Burst, last |-> now] \in [tokens : Nat, last : Nat]
      BY <1>2, RateLimiterAssumption
    <3> QED BY <1>2, <2>1, <3>1
  <2>4. /\ buckets' \in [LimitKeys -> 0..(len + 1)] /\ buckets'[kk] = len + 1
        /\ \A k \in LimitKeys \ {kk} : buckets'[k] = m[k] /\ buckets'[k] \in 0..len
    BY <1>1, <1>2, <2>1, <2>2
  <2>5. \A e \in 1..(len + 1) : bucket'[e].last <= now
    <3>1. \A e \in 1..len : bucket[e].last <= now
      BY DEF LimiterInv
    <3>2. bucket'[len + 1].last <= now
      BY <1>2, <2>3
    <3>3. \A e \in 1..(len + 1) : e \in 1..len \/ e = len + 1
      BY <1>2
    <3> QED BY <2>3, <3>1, <3>2, <3>3
  <2>6. ASSUME NEW k \in LimitKeys, NEW l \in LimitKeys, buckets'[k] = buckets'[l], buckets'[k] # 0
        PROVE  k = l
    <3>1. len + 1 \notin 0..len
      BY <1>2
    <3>2. CASE k = kk \/ l = kk
      BY <2>4, <2>6, <3>1, <3>2
    <3>3. CASE k # kk /\ l # kk
      <4>1. m[k] = m[l] /\ m[k] # 0
        BY <2>4, <2>6, <3>3
      <4>2. buckets[k] = buckets[l] /\ buckets[k] # 0
        BY <2>2, <4>1
      <4> QED BY <1>2, <4>2
    <3> QED BY <3>2, <3>3
  <2>7. Budget'
    <3> SUFFICES ASSUME IdleEvict * Rate >= Burst, NEW k \in LimitKeys
                 PROVE  /\ buckets'[k] = 0 => admitted[k] <= Rate * now + stale[k]
                        /\ buckets'[k] # 0 => admitted[k] + bucket'[buckets'[k]].tokens
                              <= Burst + Rate * bucket'[buckets'[k]].last + stale[k]
      BY <2>1 DEF Budget
    <3>1. /\ buckets[k] = 0 => admitted[k] <= Rate * now + stale[k]
          /\ buckets[k] # 0 => admitted[k] + bucket[buckets[k]].tokens
                              <= Burst + Rate * bucket[buckets[k]].last + stale[k]
      BY DEF LimiterInv, Budget
    <3>2. admitted[k] \in Nat /\ stale[k] \in Nat /\ Burst \in Nat /\ Rate * now \in Nat
      BY <1>2, RateTimes, RateLimiterAssumption DEF LimiterInv
    <3>3. CASE k = kk
      <4>1. buckets'[k] = len + 1 /\ bucket'[buckets'[k]].tokens = Burst
            /\ bucket'[buckets'[k]].last = now
        BY <2>3, <2>4, <3>3
      <4> QED BY <1>2, <1>4, <3>1, <3>2, <3>3, <4>1
    <3>4. CASE k # kk /\ m[k] = buckets[k]
      <4>1. buckets'[k] = buckets[k] /\ buckets[k] \in 0..len
        BY <1>2, <2>4, <3>4
      <4>2. buckets[k] # 0 => bucket'[buckets'[k]] = bucket[buckets[k]]
        BY <1>2, <2>3, <4>1
      <4> QED BY <3>1, <4>1, <4>2
    <3>5. CASE k # kk /\ m[k] = 0 /\ buckets[k] # 0 /\ bucket[buckets[k]].last + IdleEvict < now
      <4> DEFINE last == bucket[buckets[k]].last
                 tok == bucket[buckets[k]].tokens
      <4>1. last \in Nat /\ tok \in Nat /\ IdleEvict \in Nat /\ Rate \in Nat /\ last + IdleEvict <= now
        <5>1. buckets[k] \in 1..len
          BY <1>2, <3>5
        <5>2. bucket[buckets[k]].tokens \in Nat /\ bucket[buckets[k]].last \in Nat
          BY <5>1, BucketType
        <5> QED BY <1>2, <3>5, <5>2, RateLimiterAssumption, SMTT(30)
      <4> HIDE DEF last, tok
      <4>2. Rate * (last + IdleEvict) <= Rate * now
        BY <1>2, <4>1, RateTimes
      <4>3. Rate * (last + IdleEvict) = Rate * last + IdleEvict * Rate
            /\ Rate * last \in Nat /\ IdleEvict * Rate \in Nat
        BY <4>1
      <4>4. admitted[k] + tok <= Burst + Rate * last + stale[k]
        BY <3>1, <3>5 DEF last, tok
      <4>5. admitted[k] <= Rate * now + stale[k]
        BY <3>2, <4>1, <4>2, <4>3, <4>4
      <4>6. buckets'[k] = 0
        BY <2>4, <3>5
      <4> QED BY <4>5, <4>6
    <3> QED BY <2>2, <3>3, <3>4, <3>5
  <2>8. LimiterInv'
    <3>1. admitted' \in [LimitKeys -> Nat] /\ stale' \in [LimitKeys -> Nat] /\ now' \in Nat
      BY <2>1 DEF LimiterInv
    <3> QED BY <2>1, <2>3, <2>4, <2>5, <2>6, <2>7, <3>1 DEF LimiterInv
  <2>9. b \in 1..Len(bucket') /\ \A k \in LimitKeys : buckets'[k] = b => k = kk
    BY <1>2, <2>1, <2>3, <2>4
  <2>10. /\ \A e \in 1..len : e \in 1..Len(bucket')
         /\ \A e \in 1..len, k \in LimitKeys : buckets'[k] = e => buckets[k] = e
    <3>1. \A e \in 1..len : e \in 1..(len + 1) /\ e # 0 /\ e # len + 1
      BY <1>2
    <3>2. ASSUME NEW e \in 1..len, NEW k \in LimitKeys, buckets'[k] = e PROVE buckets[k] = e
      <4>1. k # kk
        BY <2>4, <3>1, <3>2
      <4>2. m[k] = e /\ e # 0
        BY <2>4, <3>1, <3>2, <4>1
      <4> QED BY <2>2, <4>2
    <3> QED BY <2>3, <3>1, <3>2
  <2> QED BY <2>8, <2>9, <2>10 DEF kk
<1> QED BY <1>3, <1>4

\* What a bucket holds after its refill is within what it held and the time that
\* passed.
LEMMA RefilledBound ==
    ASSUME LimiterInv, NEW b \in 1..Len(bucket)
    PROVE  /\ Refilled(b) \in Nat
           /\ Refilled(b) + Rate * bucket[b].last <= bucket[b].tokens + Rate * now
           /\ Rate * bucket[b].last \in Nat /\ Rate * now \in Nat
<1>1. /\ bucket[b].tokens \in Nat /\ bucket[b].last \in Nat /\ bucket[b].last <= now
      /\ now \in Nat /\ Burst \in Nat
  BY BucketType, RateLimiterAssumption DEF LimiterInv
<1> DEFINE r == Rate * (now - bucket[b].last)
<1>2. /\ r \in Nat /\ r = Rate * now - Rate * bucket[b].last
      /\ Rate * bucket[b].last \in Nat /\ Rate * now \in Nat
  BY <1>1, RateTimes
<1>3. Refilled(b) \in {Burst, bucket[b].tokens + r} /\ Refilled(b) <= bucket[b].tokens + r
  <2>1. Refilled(b) = Least(Burst, bucket[b].tokens + r)
    BY DEF Refilled
  <2> HIDE DEF r
  <2> QED BY <1>1, <1>2, <2>1 DEF Least
<1> DEFINE p == Rate * now
           q == Rate * bucket[b].last
           t == bucket[b].tokens
           f == Refilled(b)
<1>4. /\ r \in Nat /\ r = p - q /\ q \in Nat /\ p \in Nat /\ t \in Nat /\ Burst \in Nat
      /\ f \in {Burst, t + r} /\ f <= t + r
  BY <1>1, <1>2, <1>3
<1> HIDE DEF r, p, q, t, f
<1>5. f \in Nat /\ f + q <= t + p
  BY <1>4
<1> QED BY <1>2, <1>5 DEF p, q, t, f

\* A token is paid for by the refill of the bucket it comes from, or counted as
\* granted by a bucket that is no longer in the map.
LEMMA LimiterTake ==
    ASSUME LimiterInv, NEW key \in Keys, NEW b \in 1..Len(bucket), NEW granted,
           Take(key, b, granted),
           \A k \in LimitKeys : buckets[k] = b => k = LimitKey(key)
    PROVE  LimiterInv' /\ buckets' = buckets /\ Len(bucket') = Len(bucket)
<1> DEFINE kk == LimitKey(key)
           B == [tokens : Nat, last : Nat]
           g == IF granted THEN 1 ELSE 0
           s == IF granted /\ buckets[kk] # b THEN 1 ELSE 0
           new == [tokens |-> IF granted THEN Refilled(b) - 1 ELSE Refilled(b), last |-> now]
<1>1. kk \in LimitKeys
  BY DEF LimitKeys
<1>2. /\ now \in Nat /\ bucket \in Seq(B) /\ Len(bucket) \in Nat
      /\ buckets \in [LimitKeys -> 0..Len(bucket)]
      /\ admitted \in [LimitKeys -> Nat] /\ stale \in [LimitKeys -> Nat]
      /\ \A e \in 1..Len(bucket) : bucket[e].last <= now
  BY DEF LimiterInv
<1>3. /\ granted = (Refilled(b) >= 1) /\ bucket' = [bucket EXCEPT ![b] = new]
      /\ admitted' = [admitted EXCEPT ![kk] = admitted[kk] + g]
      /\ stale' = [stale EXCEPT ![kk] = stale[kk] + s]
      /\ now' = now /\ buckets' = buckets
  BY <1>1, <1>2 DEF Take
<1>4. g \in Nat /\ s \in Nat /\ s <= g /\ (buckets[kk] # b => s = g)
  OBVIOUS
<1>5. Refilled(b) \in Nat
  BY RefilledBound
<1>6. new \in B /\ new.last = now /\ new.tokens = Refilled(b) - g
  <2>1. CASE granted
    <3>1. Refilled(b) >= 1
      BY <1>3, <2>1, Zenon
    <3>2. Refilled(b) - 1 \in Nat
      BY <1>5, <3>1
    <3> QED BY <1>2, <2>1, <3>2
  <2>2. CASE ~granted
    BY <1>2, <1>5, <2>2
  <2> QED BY <2>1, <2>2
<1> HIDE DEF g, s, new, kk, B
<1>7. /\ bucket' \in Seq(B) /\ Len(bucket') = Len(bucket) /\ bucket'[b] = new
      /\ \A e \in 1..Len(bucket) : e # b => bucket'[e] = bucket[e]
  BY <1>2, <1>3, <1>6
<1>8. /\ admitted' \in [LimitKeys -> Nat] /\ stale' \in [LimitKeys -> Nat]
      /\ admitted'[kk] = admitted[kk] + g /\ stale'[kk] = stale[kk] + s
      /\ \A k \in LimitKeys \ {kk} : admitted'[k] = admitted[k] /\ stale'[k] = stale[k]
  BY <1>1, <1>2, <1>3, <1>4
<1>9. \A e \in 1..Len(bucket') : bucket'[e].last <= now
  <2> SUFFICES ASSUME NEW e \in 1..Len(bucket) PROVE bucket'[e].last <= now
    BY <1>7
  <2>1. CASE e = b
    BY <1>2, <1>6, <1>7, <2>1
  <2>2. CASE e # b
    BY <1>2, <1>7, <2>2
  <2> QED BY <2>1, <2>2
<1>10. Budget'
  <2> SUFFICES ASSUME IdleEvict * Rate >= Burst, NEW k \in LimitKeys
               PROVE  /\ buckets[k] = 0 => admitted'[k] <= Rate * now + stale'[k]
                      /\ buckets[k] # 0 => admitted'[k] + bucket'[buckets[k]].tokens
                            <= Burst + Rate * bucket'[buckets[k]].last + stale'[k]
    BY <1>3 DEF Budget
  <2>1. /\ buckets[k] = 0 => admitted[k] <= Rate * now + stale[k]
        /\ buckets[k] # 0 => admitted[k] + bucket[buckets[k]].tokens
                            <= Burst + Rate * bucket[buckets[k]].last + stale[k]
    BY DEF LimiterInv, Budget
  <2>2. admitted[k] \in Nat /\ stale[k] \in Nat /\ Burst \in Nat /\ buckets[k] \in 0..Len(bucket)
    BY <1>2, RateLimiterAssumption
  <2>3. CASE buckets[k] = b
    <3>1. k = kk /\ buckets[k] # 0 /\ s = 0
      BY <2>3 DEF kk, s
    <3>2. /\ Refilled(b) + Rate * bucket[b].last <= bucket[b].tokens + Rate * now
          /\ Rate * bucket[b].last \in Nat /\ Rate * now \in Nat /\ bucket[b].tokens \in Nat
      BY RefilledBound, BucketType
    <3>3. /\ bucket'[buckets[k]].tokens = Refilled(b) - g /\ bucket'[buckets[k]].last = now
          /\ admitted'[k] = admitted[k] + g /\ stale'[k] = stale[k] + 0
      BY <1>6, <1>7, <1>8, <2>3, <3>1
    <3>4. admitted[k] + bucket[b].tokens <= Burst + Rate * bucket[b].last + stale[k]
      BY <2>1, <2>3, <3>1
    <3>5. admitted[k] + g + (Refilled(b) - g) <= Burst + Rate * now + (stale[k] + 0)
      <4> DEFINE p == Rate * now
                 q == Rate * bucket[b].last
                 t == bucket[b].tokens
                 f == Refilled(b)
                 a == admitted[k]
                 z == stale[k]
      <4>1. /\ p \in Nat /\ q \in Nat /\ t \in Nat /\ f \in Nat /\ a \in Nat /\ z \in Nat
            /\ f + q <= t + p /\ a + t <= Burst + q + z /\ g \in Nat /\ Burst \in Nat
        BY <1>4, <1>5, <2>2, <3>2, <3>4
      <4> HIDE DEF p, q, t, f, a, z
      <4>2. a + g + (f - g) <= Burst + p + (z + 0)
        BY <4>1
      <4> QED BY <4>2 DEF p, f, a, z
    <3> QED BY <3>1, <3>3, <3>5
  <2>4. CASE buckets[k] # b
    <3>1. \E i \in Nat : admitted'[k] = admitted[k] + i /\ stale'[k] = stale[k] + i
      <4>1. CASE k = kk
        BY <1>4, <1>8, <2>4, <4>1
      <4>2. CASE k # kk
        <5>1. admitted'[k] = admitted[k] + 0 /\ stale'[k] = stale[k] + 0
          BY <1>8, <2>2, <4>2
        <5> QED BY <5>1
      <4> QED BY <4>1, <4>2
    <3>2. PICK i \in Nat : admitted'[k] = admitted[k] + i /\ stale'[k] = stale[k] + i
      BY <3>1
    <3>3. CASE buckets[k] = 0
      <4>1. Rate * now \in Nat
        BY RefilledBound
      <4> QED BY <2>1, <2>2, <3>2, <3>3, <4>1
    <3>4. CASE buckets[k] # 0
      <4>1. buckets[k] \in 1..Len(bucket)
        BY <1>2, <2>2, <3>4
      <4>2. bucket'[buckets[k]] = bucket[buckets[k]]
        BY <1>7, <2>4, <4>1
      <4>3. bucket[buckets[k]].tokens \in Nat /\ Rate * bucket[buckets[k]].last \in Nat
        BY <4>1, BucketType, RefilledBound
      <4>4. admitted[k] + i + bucket[buckets[k]].tokens
              <= Burst + Rate * bucket[buckets[k]].last + (stale[k] + i)
        <5> DEFINE q == Rate * bucket[buckets[k]].last
                   t == bucket[buckets[k]].tokens
                   a == admitted[k]
                   z == stale[k]
        <5>1. /\ q \in Nat /\ t \in Nat /\ a \in Nat /\ z \in Nat /\ Burst \in Nat
              /\ a + t <= Burst + q + z
          BY <2>1, <2>2, <3>4, <4>3
        <5> HIDE DEF q, t, a, z
        <5>2. a + i + t <= Burst + q + (z + i)
          BY <5>1
        <5> QED BY <5>2 DEF q, t, a, z
      <4> QED BY <3>2, <3>4, <4>2, <4>4
    <3> QED BY <3>3, <3>4
  <2> QED BY <2>3, <2>4
<1>11. \A k, l \in LimitKeys : buckets'[k] = buckets'[l] /\ buckets'[k] # 0 => k = l
  BY <1>3 DEF LimiterInv
<1>12. now' \in Nat /\ buckets' \in [LimitKeys -> 0..Len(bucket')]
  BY <1>2, <1>3, <1>7
<1>13. LimiterInv'
  BY <1>3, <1>7, <1>8, <1>9, <1>10, <1>11, <1>12 DEF LimiterInv, B
<1> QED BY <1>3, <1>7, <1>13

\* Steps that leave the limiter alone.
LEMMA LimiterFrame == LimiterInv /\ UNCHANGED limiterVars => LimiterInv'
BY DEF LimiterInv, Budget, limiterVars

\* And send no call to take a token.
LEMMA WaitingFrame ==
    ASSUME Waiting, UNCHANGED <<buckets, bucket>>,
           \A d \in Calls : call'[d].pc = "take" => call'[d] = call[d]
    PROVE  Waiting'
BY DEF Waiting

\* Limit: the call waits with a bucket of its own key, and the sweep takes no
\* other call's bucket for another key's.
LEMMA KeepLimit ==
    ASSUME EvalInv, NEW c \in Calls, Limit(c)
    PROVE  LimiterInv' /\ Waiting' /\ CallsOK' /\ Held' /\ Chain' /\ Counted'
<1>0. CallsOK /\ LimiterInv /\ Waiting /\ Held /\ Chain /\ Counted
  BY DEF EvalInv
<1>1. PICK key, b : /\ key \in Keys /\ FetchBucket(key, b)
                    /\ call' = [call EXCEPT ![c].pc = "take", ![c].key = key, ![c].bucket = b]
  BY DEF Limit
<1>2. PICK n : Quiet(c, n)
  BY <1>0, EffLimit
<1>3. CallsOK' /\ Held' /\ Chain' /\ Counted' /\ Stepped(c, n)
  BY <1>0, <1>2, QuietKeeps
<1>4. /\ LimiterInv' /\ b \in 1..Len(bucket')
      /\ \A k \in LimitKeys : buckets'[k] = b => k = LimitKey(key)
      /\ \A e \in 1..Len(bucket) : e \in 1..Len(bucket')
      /\ \A e \in 1..Len(bucket), k \in LimitKeys : buckets'[k] = e => buckets[k] = e
  BY <1>0, <1>1, LimiterFetch
<1>5. call'[c].key = key /\ call'[c].bucket = b
  <2>1. call \in [Calls -> CallType]
    BY <1>0 DEF CallsOK
  <2> QED BY <1>1, <2>1 DEF CallType
<1>6. ASSUME NEW d \in Calls, call'[d].pc = "take"
      PROVE  /\ call'[d].key \in Keys /\ call'[d].bucket \in 1..Len(bucket')
             /\ \A k \in LimitKeys : buckets'[k] = call'[d].bucket => k = LimitKey(call'[d].key)
  <2>1. CASE d = c
    BY <1>1, <1>4, <1>5, <2>1
  <2>2. CASE d # c
    <3>1. call'[d] = call[d]
      BY <1>3, <2>2 DEF Stepped
    <3>2. /\ call[d].key \in Keys /\ call[d].bucket \in 1..Len(bucket)
          /\ \A k \in LimitKeys : buckets[k] = call[d].bucket => k = LimitKey(call[d].key)
      BY <1>0, <1>6, <3>1 DEF Waiting
    <3> QED BY <1>4, <3>1, <3>2
  <2> QED BY <2>1, <2>2
<1>7. Waiting'
  BY <1>6 DEF Waiting
<1> QED BY <1>3, <1>4, <1>7

\* TakeToken: the bucket a call holds is of its own key.
LEMMA KeepTakeToken ==
    ASSUME EvalInv, NEW c \in Calls, TakeToken(c)
    PROVE  LimiterInv' /\ Waiting' /\ CallsOK' /\ Held' /\ Chain' /\ Counted'
<1>0. CallsOK /\ LimiterInv /\ Waiting /\ Held /\ Chain /\ Counted
  BY DEF EvalInv
<1>1. PICK n : Quiet(c, n) /\ n.pc # "take"
  BY <1>0, EffTakeToken
<1>2. Settles
  BY <1>0, <1>1, QuietSettles
<1>3. /\ call[c].key \in Keys /\ call[c].bucket \in 1..Len(bucket)
      /\ \A k \in LimitKeys : buckets[k] = call[c].bucket => k = LimitKey(call[c].key)
  BY <1>0 DEF Waiting, TakeToken
<1>4. PICK granted : Take(call[c].key, call[c].bucket, granted)
  BY DEF TakeToken
<1>5. LimiterInv' /\ buckets' = buckets /\ Len(bucket') = Len(bucket)
  BY <1>0, <1>3, <1>4, LimiterTake
<1>6. Waiting'
  BY <1>0, <1>2, <1>5 DEF Settles, Waiting
<1> QED BY <1>2, <1>5, <1>6 DEF Settles

\* Every step of a call keeps the invariant.
LEMMA CallStepKeeps ==
    ASSUME EvalInv, NEW c \in Calls, CallStep(c)
    PROVE  EvalInv'
<1>0. ReloadInv /\ CallsOK /\ LimiterInv /\ Waiting /\ Held /\ Chain /\ Counted
  BY DEF EvalInv
<1>1. UNCHANGED reloadVars
  BY DEF CallStep, RejectBody, Receive, Limit, TakeToken, RejectMode, DenyProtectedPath,
         DenyNoPolicies, DenyPanic, Decide, Reserve, BoundaryDeny, AppendTrace, Discard,
         RetryDeny, ReappendDeny, Answer, AtGates
<1>2. ReloadInv'
  BY <1>0, <1>1, ReloadInvFrame
<1>3. CASE Limit(c)
  BY <1>2, <1>3, KeepLimit DEF EvalInv
<1>4. CASE TakeToken(c)
  BY <1>2, <1>4, KeepTakeToken DEF EvalInv
<1>5. CASE ~Limit(c) /\ ~TakeToken(c)
  <2>1. UNCHANGED limiterVars
    BY <1>5 DEF CallStep, RejectBody, Receive, RejectMode, DenyProtectedPath,
           DenyNoPolicies, DenyPanic, Decide, Reserve, BoundaryDeny, AppendTrace, Discard,
           RetryDeny, ReappendDeny, Answer, AtGates
  <2>2. Settles
    <3>1. CASE RejectBody(c) \/ RejectMode(c)
      BY <1>0, <3>1, KeepReject
    <3>2. CASE Receive(c)
      BY <1>0, <3>2, EffReceive, QuietSettles
    <3>3. CASE DenyProtectedPath(c) \/ DenyNoPolicies(c) \/ DenyPanic(c)
      BY <1>0, <3>3, EffDeny, QuietSettles
    <3>4. CASE Decide(c)
      BY <1>0, <3>4, EffDecide, QuietSettles
    <3>5. CASE Reserve(c)
      BY <1>0, <3>5, KeepReserve
    <3>6. CASE BoundaryDeny(c)
      BY <1>0, <3>6, KeepBoundaryDeny
    <3>7. CASE AppendTrace(c)
      BY <1>0, <3>7, KeepAppendTrace
    <3>8. CASE Discard(c)
      BY <1>0, <3>8, KeepDiscard
    <3>9. CASE RetryDeny(c)
      BY <1>0, <3>9, KeepRetryDeny
    <3>10. CASE ReappendDeny(c)
      BY <1>0, <3>10, KeepReappendDeny
    <3>11. CASE Answer(c)
      BY <1>0, <3>11, KeepAnswer
    <3> QED BY <1>5, <3>1, <3>2, <3>3, <3>4, <3>5, <3>6, <3>7, <3>8, <3>9, <3>10, <3>11
            DEF CallStep
  <2>3. LimiterInv'
    BY <1>0, <2>1, LimiterFrame
  <2>4. Waiting'
    BY <1>0, <2>1, <2>2, WaitingFrame DEF Settles, limiterVars
  <2> QED BY <1>2, <2>2, <2>3, <2>4 DEF Settles, EvalInv
<1> QED BY <1>3, <1>4, <1>5

\* Steps of the clock and of the loader leave the calls alone.
LEMMA HandlerFrame ==
    ASSUME CallsOK, Held, Chain, Counted, UNCHANGED evalVars
    PROVE  CallsOK' /\ Held' /\ Chain' /\ Counted'
<1>1. UNCHANGED <<flags, call, escalations, log, poisoned, faults, count>>
  BY DEF evalVars
<1>2. CallsOK'
  BY <1>1 DEF CallsOK, CallOK, CallType, HasResult
<1>3. Held'
  BY <1>1 DEF Held
<1>4. \A d \in Calls : /\ RecordsOf(d)' = RecordsOf(d) /\ (Decided(d)' <=> Decided(d))
                       /\ (Done(d)' <=> Done(d)) /\ (Suspect(d)' <=> Suspect(d))
  BY <1>1 DEF RecordsOf, Decided, Done, Suspect
<1>5. Chain'
  BY <1>1, <1>4 DEF Chain, StampedByDecider
<1>6. Started' = Started /\ DoneCalls' = DoneCalls /\ Unrecorded' = Unrecorded
      /\ \A k : AnsweredAs(k)' = AnsweredAs(k)
  BY <1>1, <1>4 DEF Started, DoneCalls, Unrecorded, AnsweredAs
<1>7. Counted'
  BY <1>1, <1>6 DEF Counted
<1> QED BY <1>2, <1>3, <1>5, <1>7

\* The invariant is inductive.
LEMMA EvalInvStep == EvalInv /\ [Next]_vars => EvalInv'
<1> SUFFICES ASSUME EvalInv, [Next]_vars PROVE EvalInv'
  OBVIOUS
<1>0. ReloadInv /\ CallsOK /\ LimiterInv /\ Waiting /\ Held /\ Chain /\ Counted
  BY DEF EvalInv
<1>1. ASSUME UNCHANGED evalVars, ReloadInv', LimiterInv', UNCHANGED <<buckets, bucket>>
      PROVE  EvalInv'
  <2>1. call' = call
    BY <1>1 DEF evalVars
  <2>2. Waiting'
    BY <1>0, <1>1, <2>1, WaitingFrame
  <2> QED BY <1>0, <1>1, <2>2, HandlerFrame DEF EvalInv
<1>2. CASE \E c \in Calls : CallStep(c)
  BY <1>2, CallStepKeeps
<1>3. CASE Tick /\ UNCHANGED <<reloadVars, evalVars>>
  BY <1>0, <1>1, <1>3, LimiterTick, ReloadInvFrame DEF Tick
<1>4. CASE ReloadNext /\ UNCHANGED <<limiterVars, evalVars>>
  BY <1>0, <1>1, <1>4, LimiterFrame, ReloadInvStep DEF limiterVars
<1>5. CASE UNCHANGED vars
  BY <1>0, <1>1, <1>5, LimiterFrame, ReloadInvFrame DEF limiterVars, vars
<1> QED BY <1>2, <1>3, <1>4, <1>5 DEF Next

\* It holds initially.
LEMMA EvalInvInit == Init => EvalInv
<1> SUFFICES ASSUME Init PROVE EvalInv
  OBVIOUS
<1>1. ReloadInv
  BY ReloadInvInit DEF Init
<1>2. LimiterInv
  <2>1. /\ now = 0 /\ buckets = [k \in LimitKeys |-> 0] /\ bucket = <<>>
        /\ admitted = [k \in LimitKeys |-> 0] /\ stale = [k \in LimitKeys |-> 0]
    BY DEF Init, LimiterInit
  <2>2. Len(bucket) = 0 /\ bucket \in Seq([tokens : Nat, last : Nat])
    BY <2>1
  <2>3. Rate * now = 0
    BY <2>1, RateLimiterAssumption
  <2>4. Budget
    BY <2>1, <2>3 DEF Budget
  <2> QED BY <2>1, <2>2, <2>4 DEF LimiterInv
<1>3. /\ flags \in Flags /\ call = [c \in Calls |-> NewCall] /\ escalations = {} /\ log = {}
      /\ poisoned = FALSE /\ count = [k \in Counters |-> 0]
  BY DEF Init
<1>4. /\ NewCall \in CallType /\ NewCall.pc = "new" /\ NewCall.id = NoId
      /\ NewCall.receipt = {} /\ NewCall.hash = PolicySetHash(NewCall.policies)
  <2>1. NoPolicies \in [Files -> Content] /\ PolicySetHash(NoPolicies) = {}
    BY DEF NoPolicies, Content, PolicySetHash, Present
  <2>2. NoResult \in Result
    BY <2>1 DEF NoResult, Result, Actions, Reasons
  <2> QED BY <2>1, <2>2 DEF NewCall, CallType, Pc
<1>5. CallOK(NewCall)
  BY <1>4 DEF CallOK, HasResult, Unwritten
<1>6. \A c \in Calls : call[c] = NewCall
  BY <1>3
<1>7. CallsOK
  BY <1>3, <1>4, <1>5 DEF CallsOK
<1>8. Waiting
  BY <1>4, <1>6 DEF Waiting
<1>9. Held
  BY <1>3, <1>4, <1>6 DEF Held
<1>10. \A c \in Calls : RecordsOf(c) = {} /\ ~Decided(c) /\ ~Done(c) /\ ~Suspect(c)
  BY <1>3, <1>4, <1>6 DEF RecordsOf, Decided, Done, Suspect
<1>11. Chain
  BY <1>3, <1>4, <1>6, <1>10 DEF Chain, StampedByDecider
<1>12. Started = {} /\ DoneCalls = {} /\ Unrecorded = {} /\ \A k : AnsweredAs(k) = {}
  BY <1>4, <1>6, <1>10 DEF Started, DoneCalls, Unrecorded, AnsweredAs, Unwritten
<1>13. Counted
  <2>1. IsFiniteSet({}) /\ Cardinality({}) = 0
    BY FS_EmptySet
  <2>2. count \in [Counters -> Nat] /\ \A k \in Counters : count[k] = 0
    BY <1>3
  <2>3. \A k \in {"allowed", "denied", "escalated", "flagged"} : count[k] = Cardinality(AnsweredAs(k))
    BY <1>12, <2>1, <2>2 DEF Counters
  <2>4. count["eval"] = Cardinality(DoneCalls) /\ Cardinality(Unrecorded) <= count["auditFailure"]
    BY <1>12, <2>1, <2>2 DEF Counters
  <2>5. IsFiniteSet(Started)
    BY <1>12, <2>1
  <2> QED BY <2>2, <2>3, <2>4, <2>5 DEF Counted
<1> QED BY <1>1, <1>2, <1>7, <1>8, <1>9, <1>11, <1>13 DEF EvalInv

-----------------------------------------------------------------------------
(* The theorems *)

\* The inductive invariant holds in every reachable state of the handler, the
\* limiter and the loader together, and with it the types of their state.
THEOREM EvalInvariant == Spec => []EvalInv
BY EvalInvInit, EvalInvStep, PTL DEF Spec

\* Whatever edits, reloads and failed reloads interleave (reload in
\* policy_loader.go), the set in force is valid and matches its hash.
THEOREM ServedSetIsValid == Spec => []ServingValid
<1>1. EvalInv => ServingValid
  BY DEF EvalInv, ReloadInv
<1> QED BY <1>1, EvalInvariant, PTL

\* Every record carries the hash of the set that decided it, however many
\* reloads passed between the capture and the append (handleEvaluate).
THEOREM RecordsNameTheirDecider == Spec => []StampedByDecider
<1>1. EvalInv => StampedByDecider
  BY DEF EvalInv, Chain
<1> QED BY <1>1, EvalInvariant, PTL

\* Under -fail-closed nobody is told to proceed without a record of exactly that
\* action, for any number of calls and any pattern of audit failures.
THEOREM FailClosedProceedsAudited == Spec => []ProceedIsAudited
<1>1. EvalInv => ProceedIsAudited
  BY DEF EvalInv, Chain, ProceedIsAudited
<1> QED BY <1>1, EvalInvariant, PTL

\* A record contradicts its call's answer only when its append poisoned the
\* writer, for one call at most, and the answer is then a deny; receipts are of
\* records that are there.
THEOREM ChainNeverContradicts == Spec => []ChainAgrees
<1>1. ASSUME EvalInv PROVE ChainAgrees
  <2> DEFINE S == {c \in Calls : Decided(c) /\ \E t \in RecordsOf(c) : t.res # call[c].res}
  <2>1. \A c \in S : Suspect(c) /\ call[c].pc # "discard" /\ c \in Calls
    BY DEF Suspect, Decided, Done
  <2>2. Chain /\ poisoned \in BOOLEAN
    BY <1>1 DEF EvalInv, Chain
  <2>3. /\ \A c \in S : poisoned /\ call[c].res.action = "denied"
        /\ \A c, d \in S : c = d
    BY <2>1, <2>2 DEF Chain
  <2>4. \A c \in Calls : Decided(c) => call[c].receipt \subseteq RecordsOf(c)
    BY <2>2 DEF Chain, RecordsOf
  <2>5. Cardinality(S) <= IF poisoned THEN 1 ELSE 0
    <3> HIDE DEF S
    <3>1. CASE S = {}
      BY <3>1, <2>2, FS_EmptySet
    <3>2. CASE S # {}
      <4>1. PICK c \in S : S = {c}
        BY <2>3, <3>2
      <4>2. Cardinality({c}) = 1
        BY FS_Singleton
      <4> QED BY <2>2, <2>3, <4>1, <4>2
    <3> QED BY <3>1, <3>2
  <2> QED BY <2>3, <2>4, <2>5 DEF ChainAgrees
<1> QED BY <1>1, EvalInvariant, PTL

\* The counters of /metrics agree with the answers, and no decided call lacks a
\* record without a counted audit failure of its own.
THEOREM MetricsAreHonest == Spec => []MetricsHonest
<1>1. ASSUME EvalInv PROVE MetricsHonest
  <2> DEFINE S == {c \in Calls : Decided(c) /\ RecordsOf(c) = {}}
  <2>1. Counted
    BY <1>1 DEF EvalInv
  <2>2. S \subseteq Unrecorded
    BY DEF Unrecorded
  <2>3. Cardinality(S) <= Cardinality(Unrecorded) /\ Cardinality(S) \in Nat
        /\ Cardinality(Unrecorded) \in Nat
    <3> HIDE DEF S
    <3> QED BY <2>1, <2>2, CountedSets, StartedFinite
  <2>4. count["auditFailure"] \in Nat /\ Cardinality(Unrecorded) <= count["auditFailure"]
    BY <2>1 DEF Counted, Counters
  <2>5. Cardinality(S) <= count["auditFailure"]
    <3> HIDE DEF S
    <3> QED BY <2>3, <2>4
  <2> QED BY <2>1, <2>5 DEF Counted, MetricsHonest, AnsweredAs, DoneCalls
<1> QED BY <1>1, EvalInvariant, PTL

\* Every reserved id belongs to exactly one call, and a caller answered 202
\* holds its id.
THEOREM ReservationsAreHeld == Spec => []ReservationsHeld
<1>1. ASSUME EvalInv PROVE ReservationsHeld
  <2>1. /\ escalations \subseteq Ids
        /\ \A c \in Calls : call[c].id # NoId => call[c].id \in escalations
        /\ \A i \in escalations : \E c \in Calls : call[c].id = i
        /\ \A c, d \in Calls : call[c].id # NoId /\ call[c].id = call[d].id => c = d
    BY <1>1 DEF EvalInv, Held
  <2>2. ASSUME NEW i \in escalations PROVE Cardinality({c \in Calls : call[c].id = i}) = 1
    <3>1. PICK c \in Calls : call[c].id = i
      BY <2>1
    <3>2. i # NoId
      BY <2>1, EvaluateAssumption
    <3>3. {d \in Calls : call[d].id = i} = {c}
      BY <2>1, <3>1, <3>2
    <3>4. Cardinality({c}) = 1
      BY FS_Singleton
    <3> QED BY <3>3, <3>4
  <2>3. \A c \in Calls : Done(c) /\ call[c].status = 202 => call[c].id # NoId
    BY <1>1 DEF EvalInv, CallsOK, CallOK, Done
  <2> QED BY <2>1, <2>2, <2>3 DEF ReservationsHeld
<1> QED BY <1>1, EvalInvariant, PTL

\* When an idle period refills the burst, no key is granted more than its burst
\* and the refill since the start, save by buckets the sweep has dropped: for
\* every rate, burst, number of keys and order of sweeps (ratelimit.go).
THEOREM KeysStayInBudget == Spec => []RateBudget
<1>1. ASSUME EvalInv PROVE RateBudget
  <2> SUFFICES ASSUME IdleEvict * Rate >= Burst, NEW k \in LimitKeys
               PROVE  admitted[k] <= Burst + Rate * now + stale[k]
    BY DEF RateBudget
  <2>1. LimiterInv
    BY <1>1 DEF EvalInv
  <2>2. /\ now \in Nat /\ buckets[k] \in 0..Len(bucket) /\ admitted[k] \in Nat
        /\ stale[k] \in Nat /\ Len(bucket) \in Nat
    BY <2>1 DEF LimiterInv
  <2>3. /\ buckets[k] = 0 => admitted[k] <= Rate * now + stale[k]
        /\ buckets[k] # 0 => admitted[k] + bucket[buckets[k]].tokens
                            <= Burst + Rate * bucket[buckets[k]].last + stale[k]
    BY <2>1 DEF LimiterInv, Budget
  <2>4. Rate * now \in Nat /\ Burst \in Nat
    BY <2>2, RateTimes, RateLimiterAssumption
  <2>5. CASE buckets[k] = 0
    BY <2>2, <2>3, <2>4, <2>5
  <2>6. CASE buckets[k] # 0
    <3> DEFINE b == buckets[k]
    <3>1. b \in 1..Len(bucket)
      BY <2>2, <2>6
    <3>2. bucket[b].tokens \in Nat /\ bucket[b].last \in Nat /\ bucket[b].last <= now
      BY <2>1, <3>1, BucketType DEF LimiterInv
    <3>3. Rate * bucket[b].last <= Rate * now /\ Rate * bucket[b].last \in Nat
      BY <2>2, <3>2, RateTimes
    <3>4. admitted[k] + bucket[b].tokens <= Burst + Rate * bucket[b].last + stale[k]
      BY <2>3, <2>6
    <3> DEFINE q == Rate * bucket[b].last
               p == Rate * now
               t == bucket[b].tokens
               a == admitted[k]
               z == stale[k]
    <3>5. /\ q \in Nat /\ p \in Nat /\ t \in Nat /\ a \in Nat /\ z \in Nat /\ Burst \in Nat
          /\ q <= p /\ a + t <= Burst + q + z
      BY <2>2, <2>4, <3>2, <3>3, <3>4
    <3> HIDE DEF q, p, t, a, z
    <3>6. a <= Burst + p + z
      BY <3>5
    <3> QED BY <3>6 DEF a, p, z
  <2> QED BY <2>5, <2>6
<1> QED BY <1>1, EvalInvariant, PTL
=============================================================================
