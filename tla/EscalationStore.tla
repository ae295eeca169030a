--------------------------- MODULE EscalationStore ---------------------------
(***************************************************************************)
(* The human-approval path of tg-proxy: the in-memory escalation registry  *)
(* (cmd/tg-proxy/escalation.go), the part of the evaluate handler that     *)
(* registers an escalation around its audit append (handlers.go), the      *)
(* approve and deny endpoints (escalation_handlers.go) and the reaper      *)
(* goroutine (main.go).                                                    *)
(*                                                                         *)
(* Requests run concurrently, one step per critical section or audit       *)
(* append.  resolveAudited and reapExpiredAudited hold the store mutex     *)
(* across their audit append, so the mutex is a variable and time, audit   *)
(* faults and crashes may fall inside the critical section.                *)
(*                                                                         *)
(* The audit writer appears as AuditChain promises it: an append succeeds  *)
(* durably, fails and leaves nothing, finds or makes the writer poisoned   *)
(* with nothing written, or is indeterminate, which poisons the writer and *)
(* may or may not have left the record in the file.                        *)
(***************************************************************************)
EXTENDS Naturals, FiniteSets

CONSTANTS Req,             \* evaluate calls whose applied action is escalated
          Ids,             \* envelope ids, chosen by the caller
          NoReq,           \* the owner of an empty map slot
          MaxEntries,      \* maxEntries
          Timeouts,        \* timeout_minutes values of rules and flags
          DefaultTimeout,  \* the 15 minutes reserve falls back to
          MaxTime,         \* bound on the clock
          MaxFaults,       \* bound on audit faults
          MaxRestarts      \* bound on process restarts

ASSUME EscalationAssumption ==
    /\ NoReq \notin Req
    /\ IsFiniteSet(Ids) /\ Ids # {}
    /\ MaxEntries \in Nat \ {0}
    /\ Timeouts \subseteq Nat
    /\ DefaultTimeout \in Nat \ {0}
    /\ MaxTime \in Nat /\ MaxFaults \in Nat /\ MaxRestarts \in Nat

VARIABLES
    now,       \* the clock
    entries,   \* s.entries: the record kept under each id
    req,       \* the state of each evaluate call
    mu,        \* s.mu: "free", or who holds it across an audit append
    txn,       \* the candidate of resolveAudited or of one reaper iteration
    reaper,    \* the reaper goroutine: phase, captured time, entries left
    log,       \* escalation records durably in the audit chain
    maybe,     \* records an indeterminate append may have left there
    poisoned,  \* p.auditPoisoned
    faults,    \* audit faults so far
    told,      \* history: resolutions answered 200
    restarts   \* process restarts so far

auditVars == <<log, maybe, poisoned, faults>>
vars == <<now, entries, req, mu, txn, reaper, log, maybe, poisoned, faults,
          told, restarts>>

-----------------------------------------------------------------------------
(* Entries, candidates and records *)

Decided  == {"approved", "denied", "expired"}
Resolved == Decided \cup {"indeterminate"}
Visible  == Resolved \cup {"pending"}         \* what get and list return
State    == Visible \cup {"none", "registering"}

Entry == [req : Req \cup {NoReq}, state : State, created : Nat, expires : Nat,
          resolved : Nat]

NoEntry == [req |-> NoReq, state |-> "none", created |-> 0, expires |-> 0,
            resolved |-> 0]

Pc == {"idle", "reserve", "append", "publish", "discard", "discardPoisoned",
       "denyRecord", "accepted", "denied", "lost"}

Call == [pc : Pc, id : Ids, created : Nat, expires : Nat]

Outcome == {"none", "ok", "failed", "poisoned", "indeterminate"}

Txn == [on : BOOLEAN, id : Ids, state : Decided, resolved : Nat, out : Outcome]

AnyId == CHOOSE i \in Ids : TRUE

NoTxn == [on |-> FALSE, id |-> AnyId, state |-> "denied", resolved |-> 0,
          out |-> "none"]

Reaper == [phase : {"idle", "waiting", "reaping"}, at : Nat, todo : SUBSET Ids]

IdleReaper == [phase |-> "idle", at |-> 0, todo |-> {}]

Record == [req : Req, kind : {"escalated"} \cup Decided]

Rec(r, k) == [req |-> r, kind |-> k]

Init ==
    /\ now = 1
    /\ entries = [i \in Ids |-> NoEntry]
    /\ req = [r \in Req |-> [pc |-> "idle", id |-> AnyId, created |-> 0, expires |-> 0]]
    /\ mu = "free"
    /\ txn = NoTxn
    /\ reaper = IdleReaper
    /\ log = {} /\ maybe = {}
    /\ poisoned = FALSE
    /\ faults = 0
    /\ told = {}
    /\ restarts = 0

-----------------------------------------------------------------------------
(* The audit writer *)

Outcomes ==
    IF poisoned THEN {"poisoned"}
    ELSE {"ok"} \cup (IF faults < MaxFaults
                      THEN {"failed", "poisoned", "indeterminate"} ELSE {})

\* What one append does to the writer and, for the records kept here, the log.
AuditEffect(recs, out) ==
    /\ log' = IF out = "ok" THEN log \cup recs ELSE log
    /\ maybe' = IF out = "indeterminate" THEN maybe \cup recs ELSE maybe
    /\ poisoned' = (poisoned \/ out \in {"poisoned", "indeterminate"})
    /\ faults' = IF out = "ok" \/ poisoned THEN faults ELSE faults + 1

\* The append of an unrelated request poisons the writer.
OtherAppendPoisons ==
    /\ ~poisoned /\ faults < MaxFaults
    /\ poisoned' = TRUE
    /\ faults' = faults + 1
    /\ UNCHANGED <<now, entries, req, mu, txn, reaper, log, maybe, told, restarts>>

-----------------------------------------------------------------------------
(* evaluate: reserve, append the escalated trace durably, publish *)

Goto(r, pc) == req' = [req EXCEPT ![r].pc = pc]

\* reserve reads the clock before it takes the mutex; a timeout below one
\* minute becomes the default.
Arrive(r, i, t) ==
    LET timeout == IF t < 1 THEN DefaultTimeout ELSE t
    IN  /\ req[r].pc = "idle"
        /\ now + timeout <= MaxTime
        /\ req' = [req EXCEPT ![r] = [pc |-> "reserve", id |-> i, created |-> now,
                                      expires |-> now + timeout]]
        /\ UNCHANGED <<now, entries, mu, txn, reaper, auditVars, told, restarts>>

Used == {i \in Ids : entries[i].state # "none"}

ResolvedIds == {i \in Ids : entries[i].state \in Resolved}

\* evictOldestResolvedLocked compares ResolvedAt, or CreatedAt where it is nil.
Age(i) == IF entries[i].resolved # 0 THEN entries[i].resolved ELSE entries[i].created

\* mutant: eviction takes the oldest entry whatever its state
OldestResolved_AnyState ==
    {i \in Used : \A j \in Used : entries[i].created <= entries[j].created}

\* Entries evictOldestResolvedLocked may drop; map order breaks ties.
OldestResolved ==
    {i \in ResolvedIds : \A j \in ResolvedIds : Age(i) <= Age(j)}

Registered(r) ==
    [req |-> r, state |-> "registering", created |-> req[r].created,
     expires |-> req[r].expires, resolved |-> 0]

\* reserve inserts the hidden entry, evicting one resolved entry at the cap.
ReserveOk(r) ==
    /\ req[r].pc = "reserve" /\ mu = "free"
    /\ entries[req[r].id].state = "none"
    /\ \/ /\ Cardinality(Used) < MaxEntries
          /\ entries' = [entries EXCEPT ![req[r].id] = Registered(r)]
       \/ /\ Cardinality(Used) >= MaxEntries
          /\ \E v \in OldestResolved :
                entries' = [entries EXCEPT ![v] = NoEntry, ![req[r].id] = Registered(r)]
    /\ Goto(r, "append")
    /\ UNCHANGED <<now, mu, txn, reaper, auditVars, told, restarts>>

\* reserve returns nil: the id is taken, or the store is full of entries that
\* may not be evicted.  The handler downgrades to deny.
ReserveNil(r) ==
    /\ req[r].pc = "reserve" /\ mu = "free"
    /\ \/ entries[req[r].id].state # "none"
       \/ Cardinality(Used) >= MaxEntries /\ ResolvedIds = {}
    /\ Goto(r, "denyRecord")
    /\ UNCHANGED <<now, entries, mu, txn, reaper, auditVars, told, restarts>>

\* appendTraceDurable of the escalated trace, outside the store mutex
AppendEscalated(r, out) ==
    /\ req[r].pc = "append"
    /\ AuditEffect({Rec(r, "escalated")}, out)
    /\ Goto(r, CASE out = "ok"     -> "publish"
                 [] out = "failed" -> "discard"
                 [] OTHER          -> "discardPoisoned")
    /\ UNCHANGED <<now, entries, mu, txn, reaper, told, restarts>>

\* Pointer identity: the slot still holds this call's own reservation.
OwnReservation(r) ==
    /\ entries[req[r].id].req = r
    /\ entries[req[r].id].state = "registering"

\* publishReserved; on a mismatch the handler downgrades to deny.
Publish(r) ==
    /\ req[r].pc = "publish" /\ mu = "free"
    /\ IF OwnReservation(r)
       THEN /\ entries' = [entries EXCEPT ![req[r].id].state = "pending"]
            /\ Goto(r, "accepted")
       ELSE Goto(r, "denied") /\ UNCHANGED entries
    /\ UNCHANGED <<now, mu, txn, reaper, auditVars, told, restarts>>

\* mutant: the hidden reservation is not discarded
Discard_Forgotten(r) ==
    /\ req[r].pc \in {"discard", "discardPoisoned"} /\ mu = "free"
    /\ Goto(r, IF req[r].pc = "discard" THEN "denyRecord" ELSE "denied")
    /\ UNCHANGED <<now, entries, mu, txn, reaper, auditVars, told, restarts>>

\* discardReserved; one durable deny record is tried unless the writer is
\* poisoned.
Discard(r) ==
    /\ req[r].pc \in {"discard", "discardPoisoned"} /\ mu = "free"
    /\ entries' = IF OwnReservation(r)
                  THEN [entries EXCEPT ![req[r].id] = NoEntry] ELSE entries
    /\ Goto(r, IF req[r].pc = "discard" THEN "denyRecord" ELSE "denied")
    /\ UNCHANGED <<now, mu, txn, reaper, auditVars, told, restarts>>

\* The deny trace of a downgraded call, best effort; the answer is deny.
DenyRecord(r, out) ==
    /\ req[r].pc = "denyRecord"
    /\ AuditEffect({}, out)
    /\ Goto(r, "denied")
    /\ UNCHANGED <<now, entries, mu, txn, reaper, told, restarts>>

-----------------------------------------------------------------------------
(* resolveAudited and reapExpiredAudited *)

Candidate(i, s, t) == [on |-> TRUE, id |-> i, state |-> s, resolved |-> t, out |-> "none"]

\* mutant: the deadline is left to the reaper
ResolveBegin_IgnoresDeadline(i, s) ==
    /\ mu = "free"
    /\ entries[i].state = "pending"
    /\ mu' = "approver"
    /\ txn' = Candidate(i, s, now)
    /\ UNCHANGED <<now, entries, req, reaper, auditVars, told, restarts>>

\* approve or deny with a valid token: only a pending entry before its
\* deadline is prepared; every other case returns without a change.
ResolveBegin(i, s) ==
    /\ mu = "free"
    /\ entries[i].state = "pending"
    /\ now < entries[i].expires
    /\ mu' = "approver"
    /\ txn' = Candidate(i, s, now)
    /\ UNCHANGED <<now, entries, req, reaper, auditVars, told, restarts>>

\* The ticker fires: the reaper reads the clock, then waits for the mutex.
ReaperTick ==
    /\ reaper.phase = "idle"
    /\ reaper' = [phase |-> "waiting", at |-> now, todo |-> {}]
    /\ UNCHANGED <<now, entries, req, mu, txn, auditVars, told, restarts>>

\* mutant: entries that are not pending any more are reaped too
ReapLock_AnyState ==
    /\ reaper.phase = "waiting" /\ mu = "free"
    /\ mu' = "reaper"
    /\ reaper' = [reaper EXCEPT !.phase = "reaping",
                    !.todo = {i \in Used : entries[i].expires <= reaper.at}]
    /\ UNCHANGED <<now, entries, req, txn, auditVars, told, restarts>>

\* mutant: the due check is strict in the wrong direction
ReapLock_NotYetDue ==
    /\ reaper.phase = "waiting" /\ mu = "free"
    /\ mu' = "reaper"
    /\ reaper' = [reaper EXCEPT !.phase = "reaping",
                    !.todo = {i \in Ids : entries[i].state = "pending"
                                          /\ entries[i].expires > reaper.at}]
    /\ UNCHANGED <<now, entries, req, txn, auditVars, told, restarts>>

ReapLock ==
    /\ reaper.phase = "waiting" /\ mu = "free"
    /\ mu' = "reaper"
    /\ reaper' = [reaper EXCEPT !.phase = "reaping",
                    !.todo = {i \in Ids : entries[i].state = "pending"
                                          /\ entries[i].expires <= reaper.at}]
    /\ UNCHANGED <<now, entries, req, txn, auditVars, told, restarts>>

ReapBegin(i) ==
    /\ reaper.phase = "reaping" /\ ~txn.on /\ i \in reaper.todo
    /\ txn' = Candidate(i, "expired", reaper.at)
    /\ reaper' = [reaper EXCEPT !.todo = @ \ {i}]
    /\ UNCHANGED <<now, entries, req, mu, auditVars, told, restarts>>

ReapEnd ==
    /\ reaper.phase = "reaping" /\ ~txn.on /\ reaper.todo = {}
    /\ mu' = "free"
    /\ reaper' = IdleReaper
    /\ UNCHANGED <<now, entries, req, txn, auditVars, told, restarts>>

\* beforeCommit: emitEscalationResolution or emitEscalationExpiry
TxnAppend(out) ==
    /\ txn.on /\ txn.out = "none"
    /\ AuditEffect({Rec(entries[txn.id].req, txn.state)}, out)
    /\ txn' = [txn EXCEPT !.out = out]
    /\ UNCHANGED <<now, entries, req, mu, reaper, told, restarts>>

\* mutant: an indeterminate append is treated like a failed one
TxnReturn_IndeterminateStaysPending ==
    /\ txn.on /\ txn.out # "none"
    /\ entries' = IF txn.out = "ok"
                  THEN [entries EXCEPT ![txn.id].state = txn.state,
                                       ![txn.id].resolved = txn.resolved]
                  ELSE entries
    /\ mu' = IF mu = "approver" THEN "free" ELSE mu
    /\ told' = IF mu = "approver" /\ txn.out = "ok"
               THEN told \cup {Rec(entries[txn.id].req, txn.state)} ELSE told
    /\ txn' = NoTxn
    /\ UNCHANGED <<now, req, reaper, auditVars, restarts>>

\* mutant: the state is published although the append failed
TxnReturn_PublishesAnyway ==
    /\ txn.on /\ txn.out # "none"
    /\ entries' = [entries EXCEPT ![txn.id].state = txn.state,
                                  ![txn.id].resolved = txn.resolved]
    /\ mu' = IF mu = "approver" THEN "free" ELSE mu
    /\ told' = IF mu = "approver"
               THEN told \cup {Rec(entries[txn.id].req, txn.state)} ELSE told
    /\ txn' = NoTxn
    /\ UNCHANGED <<now, req, reaper, auditVars, restarts>>

\* The callback returned: publish the candidate, mark it indeterminate, or
\* leave the entry pending.  An approver's 200 goes out on success only.
TxnReturn ==
    /\ txn.on /\ txn.out # "none"
    /\ entries' = CASE txn.out = "ok" ->
                         [entries EXCEPT ![txn.id].state = txn.state,
                                         ![txn.id].resolved = txn.resolved]
                    [] txn.out = "indeterminate" ->
                         [entries EXCEPT ![txn.id].state = "indeterminate",
                                         ![txn.id].resolved = txn.resolved]
                    [] OTHER -> entries
    /\ mu' = IF mu = "approver" THEN "free" ELSE mu
    /\ told' = IF mu = "approver" /\ txn.out = "ok"
               THEN told \cup {Rec(entries[txn.id].req, txn.state)} ELSE told
    /\ txn' = NoTxn
    /\ UNCHANGED <<now, req, reaper, auditVars, restarts>>

-----------------------------------------------------------------------------
(* Time and restarts *)

Tick ==
    /\ now < MaxTime
    /\ now' = now + 1
    /\ UNCHANGED <<entries, req, mu, txn, reaper, auditVars, told, restarts>>

\* The process stops and starts again: the registry and every call in flight
\* are lost, and the log may turn out to hold a record of uncertain fate.
Restart ==
    /\ restarts < MaxRestarts
    /\ restarts' = restarts + 1
    /\ entries' = [i \in Ids |-> NoEntry]
    /\ req' = [r \in Req |-> IF req[r].pc \in {"idle", "accepted", "denied", "lost"}
                             THEN req[r] ELSE [req[r] EXCEPT !.pc = "lost"]]
    /\ mu' = "free" /\ txn' = NoTxn /\ reaper' = IdleReaper
    /\ \E found \in SUBSET maybe : log' = log \cup found
    /\ maybe' = {}
    /\ poisoned' = FALSE
    /\ UNCHANGED <<now, faults, told>>

Evaluate(r) ==
    \/ \E i \in Ids, t \in Timeouts : Arrive(r, i, t)
    \/ ReserveOk(r) \/ ReserveNil(r)
    \/ \E out \in Outcomes : AppendEscalated(r, out) \/ DenyRecord(r, out)
    \/ Publish(r) \/ Discard(r)

Approver == \E i \in Ids, s \in {"approved", "denied"} : ResolveBegin(i, s)

Reap == ReapLock \/ ReapEnd \/ \E i \in Ids : ReapBegin(i)

Next ==
    \/ \E r \in Req : Evaluate(r)
    \/ Approver
    \/ ReaperTick \/ Reap
    \/ (\E out \in Outcomes : TxnAppend(out)) \/ TxnReturn
    \/ OtherAppendPoisons
    \/ Tick \/ Restart

Spec == Init /\ [][Next]_vars

\* The clock advances, the ticker goroutine runs, the holder of the mutex
\* finishes, and Go's mutex does not starve the waiting reaper.
Fairness ==
    /\ WF_vars(Tick)
    /\ WF_vars(ReaperTick)
    /\ SF_vars(ReapLock)
    /\ WF_vars(ReapEnd \/ \E i \in Ids : ReapBegin(i))
    /\ WF_vars(\E out \in Outcomes : TxnAppend(out))
    /\ WF_vars(TxnReturn)

FairSpec == Spec /\ Fairness

-----------------------------------------------------------------------------
(* Properties *)

\* The shape of the state.
TypeOK ==
    /\ now \in Nat
    /\ entries \in [Ids -> Entry]
    /\ req \in [Req -> Call]
    /\ mu \in {"free", "approver", "reaper"}
    /\ txn \in Txn
    /\ reaper \in Reaper
    /\ log \in SUBSET Record /\ maybe \in SUBSET Record
    /\ poisoned \in BOOLEAN
    /\ faults \in Nat
    /\ told \in SUBSET Record
    /\ restarts \in Nat

\* "Hidden reservations cannot be evicted or resolved": when the durable append
\* of the escalated trace has succeeded, publishReserved still finds the call's
\* own reservation, so no audited escalation is ever answered with a deny.
PublishNeverFails ==
    \A r \in Req : req[r].pc = "publish" => OwnReservation(r)

OutcomesOf(r) == {k \in Decided : Rec(r, k) \in log \cup maybe}

\* The chain never tells two stories about one escalation: of approved, denied
\* and expired at most one is recorded or may turn up after a crash, whatever
\* retries, deadlines, audit faults and restarts the resolution went through.
OneOutcome == \A r \in Req : Cardinality(OutcomesOf(r)) <= 1

\* An entry that can still be approved has no outcome in the log, not even one
\* that might surface after a restart; and nothing a reader of the store sees
\* is ahead of the log.
VisibleIsAudited ==
    \A i \in Ids :
        LET e == entries[i]
        IN  /\ e.state \in Visible => Rec(e.req, "escalated") \in log
            /\ e.state \in Decided => Rec(e.req, e.state) \in log
            /\ (e.state = "pending" /\ ~(txn.on /\ txn.id = i)) => OutcomesOf(e.req) = {}

\* "A 200 approval never authorizes execution without a durably linked audit
\* entry": what a caller or an approver was told stays in the log through
\* restarts, and a call answered deny is never approved.
AnswersStand ==
    /\ told \subseteq log
    /\ \A r \in Req :
          /\ req[r].pc = "accepted" => Rec(r, "escalated") \in log
          /\ req[r].pc = "denied" =>
                /\ Rec(r, "approved") \notin log \cup maybe
                /\ \A i \in Ids : entries[i].req # r

\* A decision is a human's strictly before the deadline and the reaper's from
\* the deadline on, however long the mutex or the audit append took.
DeadlineDecides ==
    \A i \in Ids :
        LET e == entries[i]
        IN  /\ e.state \in {"approved", "denied"} => e.resolved < e.expires
            /\ e.state = "expired" => e.expires <= e.resolved

\* What agents and approvers see of each call, for the abstract lifecycle.
View == [r \in Req |->
            IF \E i \in Ids : entries[i].req = r /\ entries[i].state \in Visible
            THEN entries[CHOOSE i \in Ids : entries[i].req = r
                                            /\ entries[i].state \in Visible].state
            ELSE IF req[r].pc = "accepted" THEN "gone" ELSE "unknown"]

Lifecycle == INSTANCE EscalationLifecycle WITH
                view <- View, recorded <- log, epoch <- restarts

\* The registry implements the lifecycle of docs/escalation.md: audit first,
\* then publication; no resolved state is ever left, and only a restart makes
\* a pending escalation disappear.
ImplementsLifecycle == Lifecycle!Spec

\* The reaper settles every pending escalation, unless the audit writer is
\* poisoned and only a restart can help.
PendingSettles ==
    \A i \in Ids, r \in Req :
        (entries[i].req = r /\ entries[i].state = "pending")
           ~> (poisoned \/ entries[i].req # r \/ entries[i].state # "pending")
=============================================================================
