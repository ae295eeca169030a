------------------------ MODULE EscalationStoreProofs ------------------------
(***************************************************************************)
(* Proofs about the escalation registry, for any number of calls, ids and  *)
(* restarts: its safety invariants, and that it implements the lifecycle   *)
(* of EscalationLifecycle.                                                 *)
(*                                                                         *)
(* None of the invariants is inductive alone.  EscInv adds what the code   *)
(* relies on without saying so: which call owns which map slot (Owned),    *)
(* what the holder of the store mutex may assume of the candidate it is    *)
(* about to commit (Locked), and which outcomes the log can hold for a     *)
(* call at each point of its life (Logged).                                *)
(***************************************************************************)
EXTENDS EscalationStore, FiniteSetTheorems, TLAPS

\* The program points of a call whose hidden reservation sits in the map.
Hidden == {"append", "publish", "discard", "discardPoisoned"}

\* The slot under an id belongs to the one call that asked for this id: hidden
\* while that call is in flight, visible once it has been accepted.
Owned ==
    /\ \A i \in Ids :
         LET e == entries[i]
         IN  /\ e.state = "none" => e.req = NoReq
             /\ e.state = "registering" =>
                  e.req \in Req /\ req[e.req].id = i /\ req[e.req].pc \in Hidden
             /\ e.state \in Visible =>
                  e.req \in Req /\ req[e.req].id = i /\ req[e.req].pc = "accepted"
    /\ \A r \in Req : req[r].pc \in Hidden => OwnReservation(r)

\* Who holds the mutex, and what stays true of the entries under it.
Locked ==
    /\ mu = "reaper" <=> reaper.phase = "reaping"
    /\ mu = "approver" => txn.on
    /\ txn.on => mu # "free"
    /\ txn.on => entries[txn.id].state = "pending"
    /\ (txn.on /\ mu = "approver") =>
          txn.state \in {"approved", "denied"} /\ txn.resolved < entries[txn.id].expires
    /\ (txn.on /\ mu = "reaper") =>
          txn.state = "expired" /\ entries[txn.id].expires <= txn.resolved
    /\ mu = "reaper" =>
          \A i \in reaper.todo : /\ entries[i].state = "pending"
                                 /\ entries[i].expires <= reaper.at
                                 /\ txn.on => txn.id # i

\* The append of the candidate for i has happened, or may have.
OutcomeWritten(i) == txn.on /\ txn.id = i /\ txn.out \in {"ok", "indeterminate"}

\* What the log holds, or may turn out to hold, of each call.
Logged ==
    /\ told \subseteq log
    /\ \A r \in Req :
          /\ req[r].pc \in {"publish", "accepted"} => Rec(r, "escalated") \in log
          /\ OutcomesOf(r) # {} => req[r].pc = "accepted"
          /\ \A k, m \in OutcomesOf(r) : k = m
    /\ \A i \in Ids :
          /\ entries[i].state \in Decided => Rec(entries[i].req, entries[i].state) \in log
          /\ entries[i].state = "pending" /\ ~OutcomeWritten(i)
                => OutcomesOf(entries[i].req) = {}
          /\ entries[i].state = "pending" /\ OutcomeWritten(i)
                => /\ OutcomesOf(entries[i].req) = {txn.state}
                   /\ Rec(entries[i].req, txn.state) \in log <=> txn.out = "ok"

EscInv == TypeOK /\ Owned /\ Locked /\ Logged /\ DeadlineDecides

-----------------------------------------------------------------------------
(* Lemmas about records, candidates and the initial state *)

\* A record tells its call and its kind.
LEMMA RecInjective ==
    \A r, s, k, m : Rec(r, k) = Rec(s, m) <=> r = s /\ k = m
BY DEF Rec

\* The default id is one of the ids.
LEMMA AnyIdType == AnyId \in Ids
BY EscalationAssumption DEF AnyId

\* The empty slot, the empty candidate and the resting reaper are well typed.
LEMMA Constants ==
    /\ NoEntry \in Entry /\ NoTxn \in Txn /\ IdleReaper \in Reaper
    /\ ~NoTxn.on
BY AnyIdType DEF NoEntry, Entry, State, Visible, Resolved, Decided, NoTxn, Txn, Outcome,
                 IdleReaper, Reaper

\* The empty registry satisfies the inductive invariant.
LEMMA EscInvInit == Init => EscInv
<1> SUFFICES ASSUME Init PROVE EscInv
  OBVIOUS
<1>1. TypeOK
  BY Constants, AnyIdType DEF Init, TypeOK, Call, Pc
<1>2. Owned
  BY DEF Init, Owned, NoEntry, Visible, Resolved, Decided, Hidden
<1>3. Locked
  BY Constants DEF Init, Locked, IdleReaper
<1>4. Logged
  BY DEF Init, Logged, OutcomesOf, NoEntry, Decided
<1>5. DeadlineDecides
  BY DEF Init, DeadlineDecides, NoEntry
<1> QED BY <1>1, <1>2, <1>3, <1>4, <1>5 DEF EscInv

\* What moving a call to another program point leaves alone.
LEMMA GotoEffect ==
    ASSUME TypeOK, NEW r \in Req, NEW p \in Pc, Goto(r, p)
    PROVE  /\ req' \in [Req -> Call]
           /\ \A s \in Req : /\ req'[s].id = req[s].id
                             /\ req'[s].pc = IF s = r THEN p ELSE req[s].pc
<1>1. req \in [Req -> Call]
  BY DEF TypeOK
<1>2. req[r] \in Call
  BY <1>1
<1> DEFINE c == [req[r] EXCEPT !.pc = p]
<1>3. c \in Call /\ c.id = req[r].id /\ c.pc = p
  BY <1>2 DEF Call
<1>4. req' = [req EXCEPT ![r] = c]
  BY <1>1 DEF Goto
<1> HIDE DEF c
<1> QED BY <1>1, <1>3, <1>4

\* A step that writes no record keeps Logged when no accepted call is forgotten
\* and every entry that shows an outcome, or waits for one, did so before or
\* belongs to a call without outcomes.
LEMMA LoggedFrame ==
    ASSUME Logged, UNCHANGED <<log, maybe, txn, told>>,
           \A s \in Req :
              /\ req[s].pc = "accepted" => req'[s].pc = "accepted"
              /\ req'[s].pc \in {"publish", "accepted"} => req[s].pc \in {"publish", "accepted"},
           \A i \in Ids :
              /\ entries'[i].state \in Decided =>
                   entries[i].state = entries'[i].state /\ entries[i].req = entries'[i].req
              /\ entries'[i].state = "pending" =>
                   \/ entries[i].state = "pending" /\ entries[i].req = entries'[i].req
                   \/ OutcomesOf(entries'[i].req) = {} /\ ~OutcomeWritten(i)
    PROVE  Logged'
BY DEF Logged, OutcomesOf, OutcomeWritten

-----------------------------------------------------------------------------
(* The steps of an evaluate call *)

\* Arrive: a call that owns no slot yet may ask for any id.
LEMMA StepArrive ==
    ASSUME EscInv, NEW r \in Req, NEW i \in Ids, NEW t \in Timeouts, Arrive(r, i, t)
    PROVE  EscInv'
<1> USE DEF EscInv, Arrive
<1>1. TypeOK'
  BY EscalationAssumption DEF TypeOK, Call, Pc, auditVars
<1>2. Owned'
  BY DEF TypeOK, Call, Owned, OwnReservation, Hidden
<1>3. Locked'
  BY DEF Locked
<1>4. Logged'
  BY DEF TypeOK, Call, Logged, OutcomesOf, OutcomeWritten, auditVars
<1>5. DeadlineDecides'
  BY DEF DeadlineDecides
<1> QED BY <1>1, <1>2, <1>3, <1>4, <1>5

\* ReserveOk: the slot is free, and the evicted entry belongs to a call that
\* has long been answered.
LEMMA StepReserveOk ==
    ASSUME EscInv, NEW r \in Req, ReserveOk(r)
    PROVE  EscInv'
<1> USE DEF EscInv
<1>1. /\ req' \in [Req -> Call]
      /\ \A s \in Req : /\ req'[s].id = req[s].id
                        /\ req'[s].pc = IF s = r THEN "append" ELSE req[s].pc
  BY GotoEffect DEF ReserveOk, Pc
<1>2. /\ req[r].pc = "reserve" /\ mu = "free" /\ req[r].id \in Ids
      /\ entries[req[r].id].state = "none"
      /\ UNCHANGED <<now, mu, txn, reaper, log, maybe, poisoned, faults, told, restarts>>
  BY DEF ReserveOk, TypeOK, Call, auditVars
<1>3. Registered(r) \in Entry
  BY DEF TypeOK, Call, Registered, Entry, State
<1>4. /\ entries' \in [Ids -> Entry]
      /\ entries'[req[r].id] = Registered(r)
      /\ \A i \in Ids \ {req[r].id} :
           \/ entries'[i] = entries[i]
           \/ entries[i].state \in Resolved /\ entries'[i] = NoEntry
  BY <1>2, <1>3, Constants DEF ReserveOk, TypeOK, OldestResolved, ResolvedIds
<1>5. TypeOK'
  BY <1>1, <1>2, <1>4 DEF TypeOK
<1>6. Owned'
  <2>1. \A s \in Req : req[s].pc \in Hidden => s # r /\ req[s].id # req[r].id
    BY <1>2 DEF Owned, OwnReservation, Hidden
  <2>2. \A s \in Req : req'[s].pc \in Hidden => OwnReservation(s)'
    BY <1>1, <1>2, <1>4, <2>1
       DEF TypeOK, Call, Owned, OwnReservation, Hidden, Registered, Resolved, Decided
  <2>3. ASSUME NEW i \in Ids, i # req[r].id
        PROVE  /\ entries'[i].state = "none" => entries'[i].req = NoReq
               /\ entries'[i].state = "registering" =>
                    /\ entries'[i].req \in Req /\ req'[entries'[i].req].id = i
                    /\ req'[entries'[i].req].pc \in Hidden
               /\ entries'[i].state \in Visible =>
                    /\ entries'[i].req \in Req /\ req'[entries'[i].req].id = i
                    /\ req'[entries'[i].req].pc = "accepted"
    <3>1. CASE entries'[i] = entries[i]
      BY <1>1, <1>2, <2>3, <3>1 DEF Owned
    <3>2. CASE entries'[i] = NoEntry
      BY <3>2 DEF NoEntry, Visible, Resolved, Decided
    <3> QED BY <1>4, <2>3, <3>1, <3>2
  <2>4. /\ entries'[req[r].id].req = r /\ entries'[req[r].id].state = "registering"
        /\ req'[r].id = req[r].id /\ req'[r].pc \in Hidden
    BY <1>1, <1>4 DEF Registered, Hidden
  <2>5. "registering" \notin Visible
    BY DEF Visible, Resolved, Decided
  <2> QED BY <1>1, <2>2, <2>3, <2>4, <2>5 DEF Owned
<1>7. Locked'
  BY <1>2, <1>4 DEF Locked, TypeOK, Resolved, Decided, Txn
<1>8. Logged'
  BY <1>1, <1>2, <1>4, LoggedFrame DEF Registered, NoEntry, Decided
<1>9. DeadlineDecides'
  BY <1>4 DEF DeadlineDecides, Registered, NoEntry
<1> QED BY <1>5, <1>6, <1>7, <1>8, <1>9

\* ReserveNil and DenyRecord: a call that owns no slot moves on to its deny.
LEMMA StepReserveNil ==
    ASSUME EscInv, NEW r \in Req, ReserveNil(r)
    PROVE  EscInv'
<1> USE DEF EscInv
<1>1. /\ req' \in [Req -> Call]
      /\ \A s \in Req : /\ req'[s].id = req[s].id
                        /\ req'[s].pc = IF s = r THEN "denyRecord" ELSE req[s].pc
  BY GotoEffect DEF ReserveNil, Pc
<1>2. /\ req[r].pc = "reserve"
      /\ UNCHANGED <<now, entries, mu, txn, reaper, log, maybe, poisoned, faults, told,
                     restarts>>
  BY DEF ReserveNil, auditVars
<1>3. TypeOK'
  BY <1>1, <1>2 DEF TypeOK
<1>4. Owned'
  BY <1>1, <1>2 DEF Owned, OwnReservation, Hidden
<1>5. Locked' /\ DeadlineDecides'
  BY <1>2 DEF Locked, DeadlineDecides
<1>6. Logged'
  BY <1>1, <1>2, LoggedFrame
<1> QED BY <1>3, <1>4, <1>5, <1>6

\* Any outcome of an append keeps the writer's variables typed, and no record
\* is ever lost.
LEMMA AuditEffectType ==
    ASSUME TypeOK, NEW recs \in SUBSET Record, NEW out \in Outcomes, AuditEffect(recs, out)
    PROVE  /\ log' \in SUBSET Record /\ maybe' \in SUBSET Record
           /\ poisoned' \in BOOLEAN /\ faults' \in Nat
           /\ log \subseteq log' /\ maybe \subseteq maybe'
           /\ log' \cup maybe' \subseteq log \cup maybe \cup recs
           /\ out \in Outcome \ {"none"}
BY DEF TypeOK, AuditEffect, Outcomes, Outcome

\* AppendEscalated: the escalated record is no outcome, so nothing changes for
\* the other calls.
LEMMA StepAppendEscalated ==
    ASSUME EscInv, NEW r \in Req, NEW out \in Outcomes, AppendEscalated(r, out)
    PROVE  EscInv'
<1> USE DEF EscInv
<1> DEFINE p == CASE out = "ok"     -> "publish"
                  [] out = "failed" -> "discard"
                  [] OTHER          -> "discardPoisoned"
<1>1. {Rec(r, "escalated")} \in SUBSET Record
  BY DEF Rec, Record
<1>2. /\ req[r].pc = "append"
      /\ AuditEffect({Rec(r, "escalated")}, out)
      /\ UNCHANGED <<now, entries, mu, txn, reaper, told, restarts>>
  BY DEF AppendEscalated
<1>3. /\ log' \in SUBSET Record /\ maybe' \in SUBSET Record
      /\ poisoned' \in BOOLEAN /\ faults' \in Nat
      /\ log \subseteq log' /\ maybe \subseteq maybe'
      /\ log' \cup maybe' \subseteq log \cup maybe \cup {Rec(r, "escalated")}
      /\ out = "ok" => Rec(r, "escalated") \in log'
  BY <1>1, <1>2, AuditEffectType DEF AuditEffect
<1>4. /\ p \in {"publish", "discard", "discardPoisoned"}
      /\ p = "publish" => out = "ok"
  OBVIOUS
<1>5. /\ req' \in [Req -> Call]
      /\ \A s \in Req : /\ req'[s].id = req[s].id
                        /\ req'[s].pc = IF s = r THEN p ELSE req[s].pc
  BY <1>4, GotoEffect DEF AppendEscalated, Pc
<1> HIDE DEF p
<1>6. \A s \in Req, k \in Decided :
        /\ Rec(s, k) \in log' \cup maybe' <=> Rec(s, k) \in log \cup maybe
        /\ Rec(s, k) \in log' <=> Rec(s, k) \in log
  BY <1>2, <1>3, RecInjective DEF Decided, AuditEffect
<1>7. \A s \in Req : OutcomesOf(s)' = OutcomesOf(s)
  BY <1>6 DEF OutcomesOf
<1>8. TypeOK'
  BY <1>2, <1>3, <1>5 DEF TypeOK
<1>9. Owned'
  BY <1>2, <1>4, <1>5 DEF Owned, OwnReservation, Hidden
<1>10. Locked' /\ DeadlineDecides'
  BY <1>2 DEF Locked, DeadlineDecides
<1>11. Logged'
  <2>1. told' \subseteq log'
    BY <1>2, <1>3 DEF Logged
  <2>2. \A s \in Req :
          /\ req'[s].pc \in {"publish", "accepted"} => Rec(s, "escalated") \in log'
          /\ OutcomesOf(s)' # {} => req'[s].pc = "accepted"
          /\ \A k, m \in OutcomesOf(s)' : k = m
    BY <1>2, <1>3, <1>4, <1>5, <1>7 DEF Logged
  <2>3. \A i \in Ids :
          /\ entries[i].state \in Decided \cup {"pending"} => entries[i].req \in Req
          /\ OutcomeWritten(i)' <=> OutcomeWritten(i)
    BY <1>2 DEF Owned, Visible, Resolved, OutcomeWritten
  <2>4. txn.state \in Decided
    BY DEF TypeOK, Txn
  <2>5. \A i \in Ids :
          /\ entries'[i].state \in Decided =>
                Rec(entries'[i].req, entries'[i].state) \in log'
          /\ entries'[i].state = "pending" /\ ~OutcomeWritten(i)'
                => OutcomesOf(entries[i].req)' = {}
          /\ entries'[i].state = "pending" /\ OutcomeWritten(i)'
                => /\ OutcomesOf(entries[i].req)' = {txn'.state}
                   /\ Rec(entries'[i].req, txn'.state) \in log' <=> txn'.out = "ok"
    BY <1>2, <1>6, <1>7, <2>3, <2>4 DEF Logged
  <2> QED BY <1>2, <2>1, <2>2, <2>5 DEF Logged, OutcomesOf
<1> QED BY <1>8, <1>9, <1>10, <1>11

\* DenyRecord: the deny trace is no escalation record.
LEMMA StepDenyRecord ==
    ASSUME EscInv, NEW r \in Req, NEW out \in Outcomes, DenyRecord(r, out)
    PROVE  EscInv'
<1> USE DEF EscInv
<1>1. /\ req' \in [Req -> Call]
      /\ \A s \in Req : /\ req'[s].id = req[s].id
                        /\ req'[s].pc = IF s = r THEN "denied" ELSE req[s].pc
  BY GotoEffect DEF DenyRecord, Pc
<1>2. /\ req[r].pc = "denyRecord"
      /\ UNCHANGED <<now, entries, mu, txn, reaper, told, restarts>>
      /\ AuditEffect({}, out)
  BY DEF DenyRecord
<1>3. UNCHANGED <<log, maybe>> /\ poisoned' \in BOOLEAN /\ faults' \in Nat
  BY <1>2, AuditEffectType DEF AuditEffect
<1>4. TypeOK'
  BY <1>1, <1>2, <1>3 DEF TypeOK
<1>5. Owned'
  BY <1>1, <1>2 DEF Owned, OwnReservation, Hidden
<1>6. Locked' /\ DeadlineDecides'
  BY <1>2 DEF Locked, DeadlineDecides
<1>7. Logged'
  BY <1>1, <1>2, <1>3, LoggedFrame
<1> QED BY <1>4, <1>5, <1>6, <1>7

\* Publish: the slot still holds the call's own reservation.
LEMMA StepPublish ==
    ASSUME EscInv, NEW r \in Req, Publish(r)
    PROVE  EscInv'
<1> USE DEF EscInv
<1>1. /\ req[r].pc = "publish" /\ mu = "free" /\ req[r].id \in Ids /\ OwnReservation(r)
      /\ UNCHANGED <<now, mu, txn, reaper, log, maybe, poisoned, faults, told, restarts>>
  BY DEF Publish, TypeOK, Call, Owned, Hidden, auditVars
<1>2. /\ req' \in [Req -> Call]
      /\ \A s \in Req : /\ req'[s].id = req[s].id
                        /\ req'[s].pc = IF s = r THEN "accepted" ELSE req[s].pc
  BY <1>1, GotoEffect DEF Publish, Pc
<1> DEFINE e == [entries[req[r].id] EXCEPT !.state = "pending"]
<1>3. e \in Entry /\ e.req = r /\ e.state = "pending"
  BY <1>1 DEF TypeOK, Entry, State, Visible, OwnReservation
<1>4. entries' = [entries EXCEPT ![req[r].id] = e]
  BY <1>1 DEF Publish, TypeOK
<1> HIDE DEF e
<1>5. /\ entries' \in [Ids -> Entry]
      /\ entries'[req[r].id].req = r /\ entries'[req[r].id].state = "pending"
      /\ \A i \in Ids \ {req[r].id} : entries'[i] = entries[i]
  BY <1>1, <1>3, <1>4 DEF TypeOK
<1>6. TypeOK'
  BY <1>1, <1>2, <1>5 DEF TypeOK
<1>7. Owned'
  <2>1. \A s \in Req \ {r} : req[s].pc \in Hidden => req[s].id # req[r].id
    BY <1>1 DEF Owned, OwnReservation, Hidden
  <2>2. \A s \in Req : req'[s].pc \in Hidden => OwnReservation(s)'
    BY <1>2, <1>5, <2>1 DEF TypeOK, Call, Owned, OwnReservation, Hidden
  <2>3. ASSUME NEW i \in Ids, i # req[r].id, entries[i].state \in Visible \cup {"registering"}
        PROVE  entries[i].req # r
    BY <2>3 DEF Owned
  <2>4. \A i \in Ids \ {req[r].id} :
          /\ entries'[i].state = "none" => entries'[i].req = NoReq
          /\ entries'[i].state = "registering" =>
               /\ entries'[i].req \in Req /\ req'[entries'[i].req].id = i
               /\ req'[entries'[i].req].pc \in Hidden
          /\ entries'[i].state \in Visible =>
               /\ entries'[i].req \in Req /\ req'[entries'[i].req].id = i
               /\ req'[entries'[i].req].pc = "accepted"
    BY <1>2, <1>5, <2>3 DEF Owned
  <2>5. req'[r].id = req[r].id /\ req'[r].pc = "accepted"
    BY <1>2
  <2> QED BY <1>1, <1>5, <2>2, <2>4, <2>5 DEF Owned
<1>8. Locked'
  BY <1>1, <1>5 DEF Locked, TypeOK, Txn, OwnReservation
<1>9. Logged'
  <2>1. OutcomesOf(r) = {} /\ \A i \in Ids : ~OutcomeWritten(i)
    BY <1>1 DEF Logged, Locked, OutcomeWritten
  <2> QED BY <1>1, <1>2, <1>5, <2>1, LoggedFrame DEF Decided
<1>10. DeadlineDecides'
  BY <1>5 DEF DeadlineDecides
<1> QED BY <1>6, <1>7, <1>8, <1>9, <1>10

\* Discard: only the call's own hidden reservation is dropped.
LEMMA StepDiscard ==
    ASSUME EscInv, NEW r \in Req, Discard(r)
    PROVE  EscInv'
<1> USE DEF EscInv
<1>1. /\ req[r].pc \in {"discard", "discardPoisoned"} /\ mu = "free"
      /\ req[r].id \in Ids /\ OwnReservation(r)
      /\ UNCHANGED <<now, mu, txn, reaper, log, maybe, poisoned, faults, told, restarts>>
  BY DEF Discard, TypeOK, Call, Owned, Hidden, auditVars
<1>2. PICK p \in {"denyRecord", "denied"} : Goto(r, p)
  BY DEF Discard
<1>3. /\ req' \in [Req -> Call]
      /\ \A s \in Req : /\ req'[s].id = req[s].id
                        /\ req'[s].pc = IF s = r THEN p ELSE req[s].pc
  BY <1>2, GotoEffect DEF Pc
<1>4. /\ entries' \in [Ids -> Entry]
      /\ entries'[req[r].id] = NoEntry
      /\ \A i \in Ids \ {req[r].id} : entries'[i] = entries[i]
  BY <1>1, Constants DEF Discard, TypeOK
<1>5. TypeOK'
  BY <1>1, <1>3, <1>4 DEF TypeOK
<1>6. Owned'
  <2>1. \A s \in Req \ {r} : req[s].pc \in Hidden => req[s].id # req[r].id
    BY <1>1 DEF Owned, OwnReservation, Hidden
  <2>2. \A s \in Req : req'[s].pc \in Hidden => OwnReservation(s)'
    BY <1>3, <1>4, <2>1 DEF TypeOK, Call, Owned, OwnReservation, Hidden
  <2>3. ASSUME NEW i \in Ids, i # req[r].id, entries[i].state \in Visible \cup {"registering"}
        PROVE  entries[i].req # r
    BY <2>3 DEF Owned
  <2>4. \A i \in Ids \ {req[r].id} :
          /\ entries'[i].state = "none" => entries'[i].req = NoReq
          /\ entries'[i].state = "registering" =>
               /\ entries'[i].req \in Req /\ req'[entries'[i].req].id = i
               /\ req'[entries'[i].req].pc \in Hidden
          /\ entries'[i].state \in Visible =>
               /\ entries'[i].req \in Req /\ req'[entries'[i].req].id = i
               /\ req'[entries'[i].req].pc = "accepted"
    BY <1>3, <1>4, <2>3 DEF Owned
  <2>5. NoEntry.state = "none" /\ NoEntry.req = NoReq /\ "none" \notin Visible
    BY DEF NoEntry, Visible, Resolved, Decided
  <2> QED BY <1>4, <2>2, <2>4, <2>5 DEF Owned
<1>7. Locked'
  BY <1>1, <1>4 DEF Locked, TypeOK, Txn
<1>8. Logged'
  BY <1>1, <1>3, <1>4, LoggedFrame DEF NoEntry, Decided
<1>9. DeadlineDecides'
  BY <1>4 DEF DeadlineDecides, NoEntry
<1> QED BY <1>5, <1>6, <1>7, <1>8, <1>9

-----------------------------------------------------------------------------
(* The steps of approvers and of the reaper, under the store mutex *)

\* ResolveBegin: the mutex is free, so no candidate is open.
LEMMA StepResolveBegin ==
    ASSUME EscInv, NEW i \in Ids, NEW s \in {"approved", "denied"}, ResolveBegin(i, s)
    PROVE  EscInv'
<1> USE DEF EscInv
<1>1. /\ mu = "free" /\ entries[i].state = "pending" /\ now < entries[i].expires
      /\ mu' = "approver"
      /\ txn' \in Txn /\ txn'.on /\ txn'.id = i /\ txn'.state = s /\ txn'.resolved = now
      /\ txn'.out = "none"
      /\ UNCHANGED <<now, entries, req, reaper, log, maybe, poisoned, faults, told, restarts>>
  BY DEF ResolveBegin, Candidate, Txn, Decided, Outcome, TypeOK, auditVars
<1>2. TypeOK'
  BY <1>1 DEF TypeOK
<1>3. Owned' /\ DeadlineDecides'
  BY <1>1 DEF Owned, OwnReservation, DeadlineDecides
<1>4. Locked'
  BY <1>1 DEF Locked
<1>5. Logged'
  <2>1. \A j \in Ids : ~OutcomeWritten(j) /\ ~OutcomeWritten(j)'
    BY <1>1 DEF Locked, OutcomeWritten
  <2> QED BY <1>1, <2>1 DEF Logged, OutcomesOf
<1> QED BY <1>2, <1>3, <1>4, <1>5

\* ReaperTick: the reaper waits for the mutex with the time it has read.
LEMMA StepReaperTick == ASSUME EscInv, ReaperTick PROVE EscInv'
<1> USE DEF EscInv
<1>1. /\ reaper.phase = "idle" /\ reaper' \in Reaper /\ reaper'.phase = "waiting"
      /\ UNCHANGED <<now, entries, req, mu, txn, log, maybe, poisoned, faults, told, restarts>>
  BY DEF ReaperTick, TypeOK, Reaper, auditVars
<1>2. TypeOK'
  BY <1>1 DEF TypeOK
<1>3. Owned' /\ DeadlineDecides'
  BY <1>1 DEF Owned, OwnReservation, DeadlineDecides
<1>4. Locked'
  BY <1>1 DEF Locked
<1>5. Logged'
  BY <1>1 DEF Logged, OutcomesOf, OutcomeWritten
<1> QED BY <1>2, <1>3, <1>4, <1>5

\* ReapLock: the entries picked are pending and due.
LEMMA StepReapLock == ASSUME EscInv, ReapLock PROVE EscInv'
<1> USE DEF EscInv
<1>1. /\ reaper.phase = "waiting" /\ mu = "free" /\ mu' = "reaper"
      /\ reaper' \in Reaper /\ reaper'.phase = "reaping" /\ reaper'.at = reaper.at
      /\ \A i \in reaper'.todo : entries[i].state = "pending" /\ entries[i].expires <= reaper.at
      /\ UNCHANGED <<now, entries, req, txn, log, maybe, poisoned, faults, told, restarts>>
  BY DEF ReapLock, TypeOK, Reaper, auditVars
<1>2. TypeOK'
  BY <1>1 DEF TypeOK
<1>3. Owned' /\ DeadlineDecides'
  BY <1>1 DEF Owned, OwnReservation, DeadlineDecides
<1>4. Locked'
  BY <1>1 DEF Locked
<1>5. Logged'
  BY <1>1 DEF Logged, OutcomesOf, OutcomeWritten
<1> QED BY <1>2, <1>3, <1>4, <1>5

\* ReapBegin: the next due entry becomes the candidate.
LEMMA StepReapBegin == ASSUME EscInv, NEW i \in Ids, ReapBegin(i) PROVE EscInv'
<1> USE DEF EscInv
<1>1. /\ reaper.phase = "reaping" /\ ~txn.on /\ i \in reaper.todo
      /\ reaper' \in Reaper /\ reaper'.phase = "reaping" /\ reaper'.at = reaper.at
      /\ reaper'.todo = reaper.todo \ {i}
      /\ txn' \in Txn /\ txn'.on /\ txn'.id = i /\ txn'.state = "expired"
      /\ txn'.resolved = reaper.at /\ txn'.out = "none"
      /\ UNCHANGED <<now, entries, req, mu, log, maybe, poisoned, faults, told, restarts>>
  BY DEF ReapBegin, Candidate, TypeOK, Reaper, Txn, Decided, Outcome, auditVars
<1>2. TypeOK'
  BY <1>1 DEF TypeOK
<1>3. Owned' /\ DeadlineDecides'
  BY <1>1 DEF Owned, OwnReservation, DeadlineDecides
<1>4. Locked'
  BY <1>1 DEF Locked
<1>5. Logged'
  <2>1. \A j \in Ids : ~OutcomeWritten(j) /\ ~OutcomeWritten(j)'
    BY <1>1 DEF OutcomeWritten
  <2> QED BY <1>1, <2>1 DEF Logged, OutcomesOf
<1> QED BY <1>2, <1>3, <1>4, <1>5

\* ReapEnd: the mutex is released with no candidate open.
LEMMA StepReapEnd == ASSUME EscInv, ReapEnd PROVE EscInv'
<1> USE DEF EscInv
<1>1. /\ ~txn.on /\ mu' = "free" /\ reaper' \in Reaper /\ reaper'.phase = "idle"
      /\ UNCHANGED <<now, entries, req, txn, log, maybe, poisoned, faults, told, restarts>>
  BY Constants DEF ReapEnd, IdleReaper, auditVars
<1>2. TypeOK'
  BY <1>1 DEF TypeOK
<1>3. Owned' /\ DeadlineDecides'
  BY <1>1 DEF Owned, OwnReservation, DeadlineDecides
<1>4. Locked'
  BY <1>1 DEF Locked
<1>5. Logged'
  BY <1>1 DEF Logged, OutcomesOf, OutcomeWritten
<1> QED BY <1>2, <1>3, <1>4, <1>5

\* TxnAppend: the first outcome ever written, or possibly written, for the call
\* that owns the candidate's entry.
LEMMA StepTxnAppend ==
    ASSUME EscInv, NEW out \in Outcomes, TxnAppend(out)
    PROVE  EscInv'
<1> USE DEF EscInv
<1>1. /\ txn.on /\ txn.out = "none" /\ txn.id \in Ids /\ txn.state \in Decided
      /\ entries[txn.id].state = "pending"
  BY DEF TxnAppend, TypeOK, Txn, Locked
<1>2. PICK r \in Req, d \in Decided :
        /\ r = entries[txn.id].req /\ d = txn.state
        /\ req[r].id = txn.id /\ req[r].pc = "accepted" /\ OutcomesOf(r) = {}
  <2>1. entries[txn.id].req \in Req /\ ~OutcomeWritten(txn.id)
    BY <1>1 DEF Owned, Visible, OutcomeWritten
  <2> QED BY <1>1, <2>1 DEF Owned, Visible, Logged
<1> DEFINE rec == Rec(r, d)
<1>3. /\ AuditEffect({rec}, out)
      /\ txn' = [txn EXCEPT !.out = out]
      /\ UNCHANGED <<now, entries, req, mu, reaper, told, restarts>>
  BY <1>2 DEF TxnAppend
<1>4. {rec} \in SUBSET Record
  BY <1>1, <1>2 DEF Rec, Record
<1>5. /\ log' \in SUBSET Record /\ maybe' \in SUBSET Record
      /\ poisoned' \in BOOLEAN /\ faults' \in Nat
      /\ log \subseteq log' /\ maybe \subseteq maybe'
      /\ log' \cup maybe' \subseteq log \cup maybe \cup {rec}
      /\ out \in Outcome \ {"none"}
  BY <1>3, <1>4, AuditEffectType
<1>6. /\ txn' \in Txn /\ txn'.on /\ txn'.id = txn.id /\ txn'.state = txn.state
      /\ txn'.resolved = txn.resolved /\ txn'.out = out
  BY <1>1, <1>3, <1>5 DEF TypeOK, Txn
<1>7. /\ rec \in log' <=> out = "ok"
      /\ rec \in log' \cup maybe' <=> out \in {"ok", "indeterminate"}
  <2>1. rec \notin log \cup maybe
    BY <1>1, <1>2 DEF OutcomesOf
  <2> QED BY <1>3, <2>1 DEF AuditEffect
<1>8. \A s \in Req, k \in Decided :
         s # r => /\ Rec(s, k) \in log' \cup maybe' <=> Rec(s, k) \in log \cup maybe
                  /\ Rec(s, k) \in log' <=> Rec(s, k) \in log
  <2>1. \A s \in Req, k \in Decided : s # r => Rec(s, k) # rec
    BY RecInjective
  <2>2. log' \subseteq log \cup {rec}
    BY <1>3 DEF AuditEffect
  <2> HIDE DEF rec
  <2> QED BY <1>5, <2>1, <2>2
<1>9. OutcomesOf(r)' = IF out \in {"ok", "indeterminate"} THEN {d} ELSE {}
  <2>1. \A k \in Decided : Rec(r, k) \in log' \cup maybe' => k = d
    <3>1. \A k \in Decided : Rec(r, k) \notin log \cup maybe
      BY <1>2 DEF OutcomesOf
    <3>2. \A k \in Decided : Rec(r, k) = rec => k = d
      BY RecInjective
    <3> HIDE DEF rec
    <3> QED BY <1>5, <3>1, <3>2
  <2>2. OutcomesOf(r)' = {k \in Decided : Rec(r, k) \in log' \cup maybe'}
    BY <1>3 DEF OutcomesOf
  <2> QED BY <1>1, <1>7, <2>1, <2>2
<1>10. \A s \in Req : s # r => OutcomesOf(s)' = OutcomesOf(s)
  BY <1>8 DEF OutcomesOf
<1>11. TypeOK'
  BY <1>3, <1>5, <1>6 DEF TypeOK
<1>12. Owned' /\ DeadlineDecides'
  BY <1>3 DEF Owned, OwnReservation, DeadlineDecides
<1>13. Locked'
  BY <1>3, <1>6 DEF Locked
<1>14. Logged'
  <2>1. told' \subseteq log'
    BY <1>3, <1>5 DEF Logged
  <2>2. \A s \in Req :
          /\ req'[s].pc \in {"publish", "accepted"} => Rec(s, "escalated") \in log'
          /\ OutcomesOf(s)' # {} => req'[s].pc = "accepted"
          /\ \A k, m \in OutcomesOf(s)' : k = m
    <3> QED BY <1>3, <1>2, <1>5, <1>9, <1>10 DEF Logged
  <2>3. \A i \in Ids : entries[i].state \in Decided \cup {"pending"} =>
          entries[i].req \in Req /\ (i # txn.id => entries[i].req # r)
    BY <1>2 DEF Owned, Visible, Resolved
  <2>4. \A i \in Ids :
          /\ i # txn.id => ~OutcomeWritten(i)' /\ ~OutcomeWritten(i)
          /\ i = txn.id => (OutcomeWritten(i)' <=> out \in {"ok", "indeterminate"})
    BY <1>6 DEF OutcomeWritten
  <2>5. ASSUME NEW i \in Ids
        PROVE  /\ entries[i].state \in Decided =>
                     Rec(entries[i].req, entries[i].state) \in log'
               /\ entries[i].state = "pending" /\ ~OutcomeWritten(i)'
                     => OutcomesOf(entries[i].req)' = {}
               /\ entries[i].state = "pending" /\ OutcomeWritten(i)'
                     => /\ OutcomesOf(entries[i].req)' = {d}
                        /\ Rec(entries[i].req, d) \in log' <=> out = "ok"
    <3>1. CASE i = txn.id
      BY <1>3, <1>1, <1>2, <1>5, <1>7, <1>9, <2>4, <3>1 DEF Decided, Logged
    <3>2. CASE i # txn.id
      BY <1>3, <1>5, <1>10, <2>3, <2>4, <3>2 DEF Logged
    <3> QED BY <3>1, <3>2
  <2> QED BY <1>3, <1>2, <1>6, <2>1, <2>2, <2>5 DEF Logged, OutcomesOf
<1> QED BY <1>11, <1>12, <1>13, <1>14

\* What TxnReturn does to the candidate's entry, owned by r, with outcome d.
CommitEffect(r, d, id) ==
    /\ txn.on /\ txn.out # "none" /\ txn.id = id /\ txn.state = d
    /\ entries[id].state = "pending" /\ entries[id].req = r
    /\ req[r].id = id /\ req[r].pc = "accepted"
    /\ entries' \in [Ids -> Entry]
    /\ \A i \in Ids \ {id} : entries'[i] = entries[i]
    /\ entries'[id].req = r /\ entries'[id].expires = entries[id].expires
    /\ txn.out = "ok" => entries'[id].state = d /\ entries'[id].resolved = txn.resolved
    /\ txn.out = "indeterminate" => entries'[id].state = "indeterminate"
    /\ txn.out \notin {"ok", "indeterminate"} => entries' = entries

\* The candidate's entry is pending and belongs to an accepted call, and only
\* this entry changes.
LEMMA TxnReturnEffect ==
    ASSUME EscInv, TxnReturn
    PROVE  \E r \in Req, d \in Decided, id \in Ids : CommitEffect(r, d, id)
<1> USE DEF EscInv
<1>1. /\ txn.on /\ txn.out # "none" /\ txn.id \in Ids /\ txn.state \in Decided
      /\ txn.resolved \in Nat
      /\ entries[txn.id] \in Entry /\ entries[txn.id].state = "pending"
  BY DEF TxnReturn, TypeOK, Txn, Locked
<1>2. PICK r \in Req, d \in Decided, id \in Ids :
        /\ r = entries[txn.id].req /\ d = txn.state /\ id = txn.id
        /\ req[r].id = id /\ req[r].pc = "accepted"
  BY <1>1 DEF Owned, Visible
<1>3. /\ entries' \in [Ids -> Entry]
      /\ \A i \in Ids \ {id} : entries'[i] = entries[i]
      /\ entries'[id].req = r /\ entries'[id].expires = entries[id].expires
      /\ txn.out = "ok" => entries'[id].state = d /\ entries'[id].resolved = txn.resolved
      /\ txn.out = "indeterminate" => entries'[id].state = "indeterminate"
      /\ txn.out \notin {"ok", "indeterminate"} => entries' = entries
  <2> DEFINE new(s) == [entries[id] EXCEPT !.state = s, !.resolved = txn.resolved]
  <2>1. \A s \in Resolved : /\ new(s) \in Entry /\ new(s).state = s /\ new(s).req = r
                            /\ new(s).resolved = txn.resolved
                            /\ new(s).expires = entries[id].expires
    BY <1>1, <1>2 DEF Entry, State, Visible
  <2>2. \A s \in Resolved :
           [entries EXCEPT ![txn.id].state = s, ![txn.id].resolved = txn.resolved]
             = [entries EXCEPT ![id] = new(s)]
    BY <1>1, <1>2 DEF TypeOK, Entry
  <2> HIDE DEF new
  <2>3. CASE txn.out = "ok"
    <3>1. entries' = [entries EXCEPT ![id] = new(d)]
      BY <1>2, <2>2, <2>3 DEF TxnReturn, Resolved
    <3> QED BY <1>2, <2>1, <2>3, <3>1 DEF TypeOK, Resolved
  <2>4. CASE txn.out = "indeterminate"
    <3>1. entries' = [entries EXCEPT ![id] = new("indeterminate")]
      BY <1>2, <2>2, <2>4 DEF TxnReturn, Resolved
    <3> QED BY <1>2, <2>1, <2>4, <3>1 DEF TypeOK, Resolved
  <2>5. CASE txn.out \notin {"ok", "indeterminate"}
    BY <1>1, <1>2, <2>5 DEF TxnReturn, TypeOK
  <2> QED BY <2>3, <2>4, <2>5
<1> QED BY <1>1, <1>2, <1>3 DEF CommitEffect

\* TxnReturn: what is published is what the log holds; an append of uncertain
\* fate closes the entry for good.
LEMMA StepTxnReturn == ASSUME EscInv, TxnReturn PROVE EscInv'
<1> USE DEF EscInv
<1>1. PICK r \in Req, d \in Decided, id \in Ids : CommitEffect(r, d, id)
  BY TxnReturnEffect
<1>2. /\ txn.on /\ txn.out # "none" /\ txn.id = id /\ txn.state = d
      /\ entries[id].state = "pending" /\ entries[id].req = r
      /\ req[r].id = id /\ req[r].pc = "accepted"
  BY <1>1 DEF CommitEffect
<1>3. /\ txn' = NoTxn
      /\ UNCHANGED <<now, req, reaper, log, maybe, poisoned, faults, restarts>>
  BY DEF TxnReturn, auditVars
<1>4. /\ entries' \in [Ids -> Entry]
      /\ \A i \in Ids \ {id} : entries'[i] = entries[i]
      /\ entries'[id].req = r /\ entries'[id].expires = entries[id].expires
      /\ txn.out = "ok" => entries'[id].state = d /\ entries'[id].resolved = txn.resolved
      /\ txn.out = "indeterminate" => entries'[id].state = "indeterminate"
      /\ txn.out \notin {"ok", "indeterminate"} => entries' = entries
  BY <1>1 DEF CommitEffect
<1>5. /\ mu' = IF mu = "approver" THEN "free" ELSE mu
      /\ told' \subseteq told \cup (IF txn.out = "ok" THEN {Rec(r, d)} ELSE {})
  BY <1>2 DEF TxnReturn
<1>6. /\ txn.out = "ok" => Rec(r, d) \in log
      /\ txn.out \notin {"ok", "indeterminate"} => OutcomesOf(r) = {}
  BY <1>1, <1>2 DEF Logged, OutcomeWritten
<1>7. ~NoTxn.on /\ NoTxn \in Txn
  BY Constants
<1>8. TypeOK'
  BY <1>3, <1>4, <1>5, <1>6, <1>7 DEF TypeOK
<1>9. Owned'
  <2>1. \A s \in Req : req[s].pc \in Hidden => OwnReservation(s)'
    <3>1. \A s \in Req : req[s].pc \in Hidden => req[s].id \in Ids \ {id}
      BY <1>1, <1>2 DEF Owned, OwnReservation, TypeOK, Call
    <3> QED BY <1>3, <1>4, <3>1 DEF Owned, OwnReservation
  <2>2. entries'[id].state \in Visible /\ "none" \notin Visible /\ "registering" \notin Visible
    BY <1>1, <1>2, <1>4 DEF Visible, Resolved, Decided
  <2> QED BY <1>2, <1>3, <1>4, <2>1, <2>2 DEF Owned
<1>10. Locked'
  <2>1. mu = "reaper" => \A i \in reaper.todo : i # id /\ i \in Ids
    BY <1>1, <1>2 DEF Locked, TypeOK, Reaper
  <2> QED BY <1>1, <1>3, <1>4, <1>5, <1>7, <2>1 DEF Locked
<1>11. Logged'
  <2>1. \A i \in Ids : ~OutcomeWritten(i)'
    BY <1>3, <1>7 DEF OutcomeWritten
  <2>2. \A i \in Ids \ {id} : ~OutcomeWritten(i)
    BY <1>2 DEF OutcomeWritten
  <2>3. told' \subseteq log'
    BY <1>3, <1>5, <1>6 DEF Logged
  <2>4. \A s \in Req : OutcomesOf(s)' = OutcomesOf(s)
    BY <1>3 DEF OutcomesOf
  <2>5. \A s \in Req :
          /\ req'[s].pc \in {"publish", "accepted"} => Rec(s, "escalated") \in log'
          /\ OutcomesOf(s)' # {} => req'[s].pc = "accepted"
          /\ \A k, m \in OutcomesOf(s)' : k = m
    BY <1>3, <2>4 DEF Logged
  <2>6. ASSUME NEW i \in Ids
        PROVE  /\ entries'[i].state \in Decided =>
                     Rec(entries'[i].req, entries'[i].state) \in log'
               /\ entries'[i].state = "pending" =>
                     {k \in Decided : Rec(entries'[i].req, k) \in log' \cup maybe'} = {}
    <3>1. CASE i = id
      BY <1>1, <1>2, <1>3, <1>4, <1>6, <3>1 DEF Decided, OutcomesOf
    <3>2. CASE i # id
      BY <1>3, <1>4, <2>2, <3>2 DEF Logged, OutcomesOf
    <3> QED BY <3>1, <3>2
  <2> QED BY <2>1, <2>3, <2>5, <2>6 DEF Logged, OutcomesOf
<1>12. DeadlineDecides'
  <2>1. entries'[id].state \in {"approved", "denied"} => entries'[id].resolved < entries'[id].expires
    BY <1>1, <1>2, <1>4 DEF Locked, TypeOK
  <2>2. entries'[id].state = "expired" => entries'[id].expires <= entries'[id].resolved
    BY <1>1, <1>2, <1>4 DEF Locked, TypeOK
  <2> QED BY <1>4, <2>1, <2>2 DEF DeadlineDecides
<1> QED BY <1>8, <1>9, <1>10, <1>11, <1>12

-----------------------------------------------------------------------------
(* The clock, the writer's other users, and restarts *)

\* OtherAppendPoisons and Tick touch neither the registry nor the log.
LEMMA StepEnvironment == ASSUME EscInv, OtherAppendPoisons \/ Tick PROVE EscInv'
<1> USE DEF EscInv
<1>1. /\ now' \in Nat /\ faults' \in Nat /\ poisoned' \in BOOLEAN
      /\ UNCHANGED <<entries, req, mu, txn, reaper, log, maybe, told, restarts>>
  <2>1. CASE OtherAppendPoisons
    BY <2>1 DEF OtherAppendPoisons, TypeOK
  <2>2. CASE Tick
    BY <2>2 DEF Tick, auditVars, TypeOK
  <2> QED BY <2>1, <2>2
<1>2. TypeOK'
  BY <1>1 DEF TypeOK
<1>3. Owned' /\ Locked' /\ DeadlineDecides'
  BY <1>1 DEF Owned, OwnReservation, Locked, DeadlineDecides
<1>4. Logged'
  BY <1>1 DEF Logged, OutcomesOf, OutcomeWritten
<1> QED BY <1>2, <1>3, <1>4

\* Restart: the registry is empty, and every record that may surface is already
\* accounted for.
LEMMA StepRestart == ASSUME EscInv, Restart PROVE EscInv'
<1> USE DEF EscInv
<1>1. /\ entries' = [i \in Ids |-> NoEntry]
      /\ mu' = "free" /\ txn' = NoTxn /\ reaper' = IdleReaper
      /\ restarts' = restarts + 1 /\ poisoned' = FALSE
      /\ log \subseteq log' /\ log' \subseteq log \cup maybe /\ maybe' = {}
      /\ UNCHANGED <<now, faults, told>>
  BY DEF Restart
<1>2. /\ req' \in [Req -> Call]
      /\ \A s \in Req : /\ req[s].pc = "accepted" => req'[s].pc = "accepted"
                        /\ req'[s].pc \notin Hidden
                        /\ req'[s].pc = "accepted" => req[s].pc = "accepted"
  <2>1. \A s \in Req : [req[s] EXCEPT !.pc = "lost"] \in Call
                       /\ [req[s] EXCEPT !.pc = "lost"].pc = "lost"
    BY DEF TypeOK, Call, Pc
  <2>2. \A s \in Req : req'[s] = IF req[s].pc \in {"idle", "accepted", "denied", "lost"}
                                THEN req[s] ELSE [req[s] EXCEPT !.pc = "lost"]
    BY DEF Restart
  <2>3. req' \in [Req -> Call]
    BY <2>1 DEF Restart, TypeOK
  <2>4. ASSUME NEW s \in Req
        PROVE  /\ req[s].pc = "accepted" => req'[s].pc = "accepted"
               /\ req'[s].pc \notin Hidden
               /\ req'[s].pc = "accepted" => req[s].pc = "accepted"
    <3>1. CASE req[s].pc \in {"idle", "accepted", "denied", "lost"}
      BY <2>2, <3>1 DEF Hidden
    <3>2. CASE req[s].pc \notin {"idle", "accepted", "denied", "lost"}
      BY <2>1, <2>2, <3>2 DEF Hidden
    <3> QED BY <3>1, <3>2
  <2> QED BY <2>3, <2>4
<1>3. TypeOK'
  <2>1. entries' \in [Ids -> Entry] /\ txn' \in Txn /\ reaper' \in Reaper
    BY <1>1, Constants
  <2>2. restarts' \in Nat /\ log' \in SUBSET Record /\ maybe' \in SUBSET Record
    BY <1>1 DEF TypeOK
  <2>3. poisoned' \in BOOLEAN
    BY <1>1
  <2> QED BY <1>1, <1>2, <2>1, <2>2, <2>3 DEF TypeOK
<1>4. Owned'
  BY <1>1, <1>2 DEF Owned, NoEntry, Visible, Resolved, Decided
<1>5. Locked'
  BY <1>1, Constants DEF Locked, IdleReaper
<1>6. Logged'
  <2>1. \A s \in Req : OutcomesOf(s)' \subseteq OutcomesOf(s)
    BY <1>1 DEF OutcomesOf
  <2>2. \A s \in Req :
          /\ req'[s].pc \in {"publish", "accepted"} => Rec(s, "escalated") \in log'
          /\ OutcomesOf(s)' # {} => req'[s].pc = "accepted"
          /\ \A k, m \in OutcomesOf(s)' : k = m
    BY <1>1, <1>2, <2>1 DEF Logged, Hidden
  <2> QED BY <1>1, <2>2 DEF Logged, NoEntry, Decided
<1>7. DeadlineDecides'
  BY <1>1 DEF DeadlineDecides, NoEntry
<1> QED BY <1>3, <1>4, <1>5, <1>6, <1>7

-----------------------------------------------------------------------------
(* The theorems *)

\* Every step keeps the inductive invariant.
LEMMA EscInvStep == EscInv /\ [Next]_vars => EscInv'
<1> SUFFICES ASSUME EscInv, [Next]_vars PROVE EscInv'
  OBVIOUS
<1>1. CASE UNCHANGED vars
  BY <1>1 DEF vars, EscInv, TypeOK, Owned, OwnReservation, Locked, Logged, OutcomesOf,
              OutcomeWritten, DeadlineDecides
<1>2. ASSUME NEW r \in Req, Evaluate(r) PROVE EscInv'
  BY <1>2, StepArrive, StepReserveOk, StepReserveNil, StepAppendEscalated, StepDenyRecord,
     StepPublish, StepDiscard DEF Evaluate
<1>3. CASE Approver
  BY <1>3, StepResolveBegin DEF Approver
<1>4. CASE ReaperTick \/ Reap
  BY <1>4, StepReaperTick, StepReapLock, StepReapBegin, StepReapEnd DEF Reap
<1>5. CASE (\E out \in Outcomes : TxnAppend(out)) \/ TxnReturn
  BY <1>5, StepTxnAppend, StepTxnReturn
<1>6. CASE OtherAppendPoisons \/ Tick \/ Restart
  BY <1>6, StepEnvironment, StepRestart
<1> QED BY <1>1, <1>2, <1>3, <1>4, <1>5, <1>6 DEF Next

\* The inductive invariant holds throughout: slots stay with their calls, the
\* mutex covers every candidate, and the log is never behind what is shown.
THEOREM EscInvariant == Spec => []EscInv
BY EscInvInit, EscInvStep, PTL DEF Spec

\* publishReserved always finds the reservation of the call whose escalated
\* trace has just become durable: neither eviction at the cap, nor a resolution,
\* nor the reaper can touch a hidden entry.
THEOREM ReservationsSurvive == Spec => []PublishNeverFails
<1>1. EscInv => PublishNeverFails
  BY DEF EscInv, Owned, Hidden, PublishNeverFails
<1> QED BY <1>1, EscInvariant, PTL

\* The chain never records two outcomes of one escalation, whatever approvers,
\* reaper, audit faults and restarts race for it.
THEOREM ChainTellsOneOutcome == Spec => []OneOutcome
<1>1. EscInv => OneOutcome
  <2> SUFFICES ASSUME EscInv, NEW r \in Req PROVE Cardinality(OutcomesOf(r)) <= 1
    BY DEF OneOutcome
  <2>1. CASE OutcomesOf(r) = {}
    BY <2>1, FS_EmptySet
  <2>2. CASE OutcomesOf(r) # {}
    <3>1. PICK k : k \in OutcomesOf(r)
      BY <2>2
    <3>2. OutcomesOf(r) = {k}
      BY <3>1 DEF EscInv, Logged
    <3>3. Cardinality({k}) = 1
      BY FS_Singleton
    <3> QED BY <3>2, <3>3
  <2> QED BY <2>1, <2>2
<1> QED BY <1>1, EscInvariant, PTL

\* Nothing the store shows is ahead of the log, and what can still be approved
\* has no outcome that a restart could bring to light.
THEOREM StoreNeverAheadOfLog == Spec => []VisibleIsAudited
<1>1. EscInv => VisibleIsAudited
  <2> SUFFICES ASSUME EscInv, NEW i \in Ids
               PROVE  /\ entries[i].state \in Visible =>
                            Rec(entries[i].req, "escalated") \in log
                      /\ entries[i].state \in Decided =>
                            Rec(entries[i].req, entries[i].state) \in log
                      /\ (entries[i].state = "pending" /\ ~(txn.on /\ txn.id = i)) =>
                            OutcomesOf(entries[i].req) = {}
    BY DEF VisibleIsAudited
  <2>1. entries[i].state \in Visible => Rec(entries[i].req, "escalated") \in log
    BY DEF EscInv, Owned, Logged
  <2>2. entries[i].state \in Decided => Rec(entries[i].req, entries[i].state) \in log
    BY DEF EscInv, Logged
  <2>3. (entries[i].state = "pending" /\ ~(txn.on /\ txn.id = i)) =>
           OutcomesOf(entries[i].req) = {}
    BY DEF EscInv, Logged, OutcomeWritten
  <2> QED BY <2>1, <2>2, <2>3
<1> QED BY <1>1, EscInvariant, PTL

\* What a caller or an approver was told stays in the log, and a call that was
\* answered with a deny is approved by nobody.
THEOREM AnswersAreBacked == Spec => []AnswersStand
<1>1. EscInv => AnswersStand
  <2> SUFFICES ASSUME EscInv, NEW r \in Req
               PROVE  /\ told \subseteq log
                      /\ req[r].pc = "accepted" => Rec(r, "escalated") \in log
                      /\ req[r].pc = "denied" =>
                            /\ Rec(r, "approved") \notin log \cup maybe
                            /\ \A i \in Ids : entries[i].req # r
    BY DEF AnswersStand, EscInv, Logged
  <2>1. told \subseteq log /\ (req[r].pc = "accepted" => Rec(r, "escalated") \in log)
    BY DEF EscInv, Logged
  <2>2. req[r].pc = "denied" => Rec(r, "approved") \notin log \cup maybe
    BY DEF EscInv, Logged, OutcomesOf, Decided
  <2>3. ASSUME req[r].pc = "denied", NEW i \in Ids PROVE entries[i].req # r
    <3>1. entries[i].state \in State
      BY DEF EscInv, TypeOK, Entry
    <3> QED BY <2>3, <3>1, EscalationAssumption DEF EscInv, Owned, State, Hidden
  <2> QED BY <2>1, <2>2, <2>3
<1> QED BY <1>1, EscInvariant, PTL

\* A human decides strictly before the deadline and the reaper from it on.
THEOREM DeadlineAlwaysDecides == Spec => []DeadlineDecides
<1>1. EscInv => DeadlineDecides
  BY DEF EscInv
<1> QED BY <1>1, EscInvariant, PTL

-----------------------------------------------------------------------------
(* The registry implements the lifecycle *)

\* What a poller sees of a call, read off the slot of the call's own id.
Seen(r) ==
    IF req[r].pc # "accepted" THEN "unknown"
    ELSE IF entries[req[r].id].req = r /\ entries[req[r].id].state \in Visible
    THEN entries[req[r].id].state ELSE "gone"

\* No other slot can show the call, so the refinement mapping needs no choice.
LEMMA ViewIsSeen == EscInv => View = [r \in Req |-> Seen(r)]
<1> SUFFICES ASSUME EscInv, NEW r \in Req
             PROVE  (IF \E i \in Ids : entries[i].req = r /\ entries[i].state \in Visible
                     THEN entries[CHOOSE i \in Ids : entries[i].req = r
                                            /\ entries[i].state \in Visible].state
                     ELSE IF req[r].pc = "accepted" THEN "gone" ELSE "unknown") = Seen(r)
  BY DEF View
<1> DEFINE P(i) == entries[i].req = r /\ entries[i].state \in Visible
<1>1. req[r].id \in Ids
  BY DEF EscInv, TypeOK, Call
<1>2. \A i \in Ids : P(i) => i = req[r].id /\ req[r].pc = "accepted"
  BY DEF EscInv, Owned
<1>3. CASE \E i \in Ids : P(i)
  <2>1. (CHOOSE i \in Ids : P(i)) = req[r].id
    BY <1>2, <1>3
  <2>2. P(req[r].id) /\ req[r].pc = "accepted"
    BY <1>2, <1>3
  <2> QED BY <1>3, <2>1, <2>2 DEF Seen
<1>4. CASE ~\E i \in Ids : P(i)
  BY <1>1, <1>4 DEF Seen
<1> QED BY <1>3, <1>4

\* The same after a step.
LEMMA ViewIsSeenNext == EscInv' => View' = [r \in Req |-> Seen(r)']
<1>1. (EscInv => View = [r \in Req |-> Seen(r)])'
  BY ViewIsSeen, PTL
<1> QED BY <1>1

\* A step that changes what is seen of no call leaves the view alone.
LEMMA ViewStutters ==
    ASSUME EscInv, EscInv', \A s \in Req : Seen(s)' = Seen(s)
    PROVE  View' = View
<1>1. View = [r \in Req |-> Seen(r)]
  BY ViewIsSeen
<1>2. View' = [r \in Req |-> Seen(r)']
  BY ViewIsSeenNext
<1> QED BY <1>1, <1>2

\* A step that changes what is seen of one call changes the view there only.
LEMMA ViewUpdate ==
    ASSUME EscInv, EscInv', NEW r \in Req, \A s \in Req \ {r} : Seen(s)' = Seen(s)
    PROVE  View' = [View EXCEPT ![r] = Seen(r)'] /\ View[r] = Seen(r)
<1>1. View = [s \in Req |-> Seen(s)]
  BY ViewIsSeen
<1>2. View' = [s \in Req |-> Seen(s)']
  BY ViewIsSeenNext
<1> QED BY <1>1, <1>2

\* The initial registry shows nothing and the log is empty.
LEMMA LifecycleInit == Init => Lifecycle!Init
<1> SUFFICES ASSUME Init PROVE Lifecycle!Init
  OBVIOUS
<1>1. View = [r \in Req |-> "unknown"]
  BY DEF Init, View, NoEntry, Visible, Resolved, Decided
<1> QED BY <1>1 DEF Init, Lifecycle!Init

\* The abstract step, or none.
Abstract == [Lifecycle!Next]_(Lifecycle!lifecycleVars)

\* What the abstract names mean here.
LEMMA AbstractNames ==
    /\ Lifecycle!Final = Decided
    /\ \A r, k : Lifecycle!Note(r, k) = Rec(r, k)
    /\ \A r : Lifecycle!NoOutcome(r) <=> \A k \in Decided : Rec(r, k) \notin log
BY DEF Lifecycle!Final, Decided, Lifecycle!Note, Rec, Lifecycle!NoOutcome

\* Nothing changes for the abstraction: a stutter.
LEMMA AbstractStutter ==
    ASSUME View' = View, log' = log, restarts' = restarts PROVE Abstract
BY DEF Abstract, Lifecycle!lifecycleVars

\* A call that is not yet accepted moves on: nothing is seen of it.
LEMMA RefinesQuiet ==
    ASSUME EscInv, EscInv', NEW r \in Req,
           \/ \E i \in Ids, t \in Timeouts : Arrive(r, i, t)
           \/ ReserveNil(r) \/ Discard(r)
           \/ \E out \in Outcomes : DenyRecord(r, out)
    PROVE  Abstract
<1>1. CASE \E i \in Ids, t \in Timeouts : Arrive(r, i, t)
  <2>1. \A s \in Req : Seen(s)' = Seen(s)
    BY <1>1 DEF Arrive, Seen, EscInv, TypeOK
  <2>2. log' = log /\ restarts' = restarts
    BY <1>1 DEF Arrive, auditVars
  <2> QED BY <2>1, <2>2, ViewStutters, AbstractStutter
<1>2. CASE ReserveNil(r) \/ \E out \in Outcomes : DenyRecord(r, out)
  <2>1. PICK p \in {"denyRecord", "denied"} : Goto(r, p)
    BY <1>2 DEF ReserveNil, DenyRecord
  <2>2. \A s \in Req : /\ req'[s].id = req[s].id
                       /\ req'[s].pc = IF s = r THEN p ELSE req[s].pc
    BY <2>1, GotoEffect DEF EscInv, Pc
  <2>3. req[r].pc # "accepted" /\ entries' = entries /\ log' = log /\ restarts' = restarts
    BY <1>2 DEF ReserveNil, DenyRecord, AuditEffect, auditVars
  <2>4. \A s \in Req : Seen(s)' = Seen(s)
    BY <2>2, <2>3 DEF Seen
  <2> QED BY <2>3, <2>4, ViewStutters, AbstractStutter
<1>3. CASE Discard(r)
  <2>1. PICK p \in {"denyRecord", "denied"} : Goto(r, p)
    BY <1>3 DEF Discard
  <2>2. \A s \in Req : /\ req'[s].id = req[s].id
                       /\ req'[s].pc = IF s = r THEN p ELSE req[s].pc
    BY <2>1, GotoEffect DEF EscInv, Pc
  <2>3. /\ req[r].pc \in Hidden /\ req[r].id \in Ids /\ OwnReservation(r)
        /\ log' = log /\ restarts' = restarts
    BY <1>3 DEF Discard, EscInv, TypeOK, Call, Owned, Hidden, auditVars
  <2>4. /\ \A i \in Ids \ {req[r].id} : entries'[i] = entries[i]
        /\ entries'[req[r].id] = NoEntry
    BY <1>3, <2>3 DEF Discard, EscInv, TypeOK
  <2>5. \A s \in Req : req[s].id \in Ids
    BY DEF EscInv, TypeOK, Call
  <2>6. NoEntry.state \notin Visible /\ "registering" \notin Visible
    BY DEF NoEntry, Visible, Resolved, Decided
  <2>7. \A s \in Req : Seen(s)' = Seen(s)
    BY <2>2, <2>3, <2>4, <2>5, <2>6 DEF Seen, Hidden, OwnReservation
  <2> QED BY <2>3, <2>7, ViewStutters, AbstractStutter
<1> QED BY <1>1, <1>2, <1>3

\* ReserveOk shows nothing; at the cap it evicts one resolved escalation.
LEMMA RefinesReserveOk ==
    ASSUME EscInv, EscInv', NEW r \in Req, ReserveOk(r)
    PROVE  Abstract
<1>1. \A s \in Req : /\ req'[s].id = req[s].id
                     /\ req'[s].pc = IF s = r THEN "append" ELSE req[s].pc
  BY GotoEffect DEF EscInv, ReserveOk, Pc
<1>2. /\ req[r].pc = "reserve" /\ req[r].id \in Ids /\ entries[req[r].id].state = "none"
      /\ log' = log /\ restarts' = restarts
  BY DEF ReserveOk, EscInv, TypeOK, Call, auditVars
<1>3. Registered(r).req = r /\ NoEntry.req = NoReq /\ "none" \notin Visible
  BY DEF Registered, NoEntry, Visible, Resolved, Decided
<1>4. \A s \in Req : req[s].id \in Ids
  BY DEF EscInv, TypeOK, Call
<1>5. CASE entries' = [entries EXCEPT ![req[r].id] = Registered(r)]
  <2>1. \A s \in Req : Seen(s)' = Seen(s)
    BY <1>1, <1>2, <1>3, <1>4, <1>5 DEF Seen, EscInv, TypeOK
  <2> QED BY <1>2, <2>1, ViewStutters, AbstractStutter
<1>6. ASSUME NEW v \in OldestResolved,
             entries' = [entries EXCEPT ![v] = NoEntry, ![req[r].id] = Registered(r)]
      PROVE  Abstract
  <2>1. v \in Ids /\ entries[v].state \in Resolved
    BY DEF OldestResolved, ResolvedIds
  <2>2. PICK o \in Req : o = entries[v].req /\ req[o].id = v /\ req[o].pc = "accepted"
    BY <2>1 DEF EscInv, Owned, Visible
  <2>3. v # req[r].id
    BY <1>2, <2>1 DEF Resolved, Decided
  <2>4. /\ entries'[v] = NoEntry /\ entries'[req[r].id] = Registered(r)
        /\ \A i \in Ids \ {v, req[r].id} : entries'[i] = entries[i]
    BY <1>2, <1>6, <2>1, <2>3 DEF EscInv, TypeOK
  <2>5. Seen(o) = entries[v].state /\ Seen(o)' = "gone"
    BY <1>1, <1>2, <1>3, <2>1, <2>2, <2>4, EscalationAssumption DEF Seen, Visible
  <2>6. \A s \in Req \ {o} : Seen(s)' = Seen(s)
    BY <1>1, <1>2, <1>3, <1>4, <2>2, <2>4, EscalationAssumption DEF Seen
  <2>7. View' = [View EXCEPT ![o] = "gone"] /\ View[o] = entries[v].state
    BY <2>5, <2>6, ViewUpdate
  <2>8. Lifecycle!Evict(o)
    BY <1>2, <2>1, <2>7 DEF Lifecycle!Evict, Lifecycle!Final, Resolved, Decided
  <2> QED BY <2>8 DEF Abstract, Lifecycle!Next
<1> QED BY <1>5, <1>6 DEF ReserveOk

\* AppendEscalated records the escalation while nothing is seen of it.
LEMMA RefinesAppendEscalated ==
    ASSUME EscInv, EscInv', NEW r \in Req, NEW out \in Outcomes, AppendEscalated(r, out)
    PROVE  Abstract
<1>1. PICK p \in {"publish", "discard", "discardPoisoned"} : Goto(r, p)
  BY DEF AppendEscalated
<1>2. \A s \in Req : /\ req'[s].id = req[s].id
                     /\ req'[s].pc = IF s = r THEN p ELSE req[s].pc
  BY <1>1, GotoEffect DEF EscInv, Pc
<1>3. /\ req[r].pc = "append" /\ entries' = entries /\ restarts' = restarts
      /\ log' = IF out = "ok" THEN log \cup {Rec(r, "escalated")} ELSE log
  BY DEF AppendEscalated, AuditEffect
<1>4. \A s \in Req : Seen(s)' = Seen(s)
  BY <1>2, <1>3 DEF Seen
<1>5. View' = View /\ View[r] = "unknown"
  BY <1>3, <1>4, ViewStutters, ViewIsSeen DEF Seen
<1>6. CASE out = "ok"
  <2>1. Lifecycle!RecordEscalated(r)
    BY <1>3, <1>5, <1>6, AbstractNames DEF Lifecycle!RecordEscalated
  <2> QED BY <2>1 DEF Abstract, Lifecycle!Next
<1>7. CASE out # "ok"
  BY <1>3, <1>5, <1>7, AbstractStutter
<1> QED BY <1>6, <1>7

\* Publish shows what the log already holds.
LEMMA RefinesPublish ==
    ASSUME EscInv, EscInv', NEW r \in Req, Publish(r)
    PROVE  Abstract
<1>1. /\ req[r].pc = "publish" /\ req[r].id \in Ids /\ OwnReservation(r)
      /\ Rec(r, "escalated") \in log /\ log' = log /\ restarts' = restarts
  BY DEF Publish, EscInv, TypeOK, Call, Owned, Hidden, Logged, auditVars
<1>2. \A s \in Req : /\ req'[s].id = req[s].id
                     /\ req'[s].pc = IF s = r THEN "accepted" ELSE req[s].pc
  BY <1>1, GotoEffect DEF EscInv, Publish, Pc
<1>3. /\ entries'[req[r].id].state = "pending" /\ entries'[req[r].id].req = r
      /\ \A i \in Ids \ {req[r].id} : entries'[i] = entries[i]
  BY <1>1 DEF Publish, OwnReservation, EscInv, TypeOK, Entry
<1>4. \A s \in Req : req[s].id \in Ids
  BY DEF EscInv, TypeOK, Call
<1>5. Seen(r) = "unknown" /\ Seen(r)' = "pending"
  BY <1>1, <1>2, <1>3 DEF Seen, Visible
<1>6. \A s \in Req \ {r} : Seen(s)' = Seen(s)
  BY <1>1, <1>2, <1>3, <1>4 DEF Seen, OwnReservation
<1>7. View' = [View EXCEPT ![r] = "pending"] /\ View[r] = "unknown"
  BY <1>5, <1>6, ViewUpdate
<1>8. Lifecycle!Show(r)
  BY <1>1, <1>7, AbstractNames DEF Lifecycle!Show
<1> QED BY <1>8 DEF Abstract, Lifecycle!Next

\* TxnAppend records the outcome of an escalation that has none.
LEMMA RefinesTxnAppend ==
    ASSUME EscInv, EscInv', NEW out \in Outcomes, TxnAppend(out)
    PROVE  Abstract
<1>1. /\ txn.on /\ txn.out = "none" /\ txn.id \in Ids /\ txn.state \in Decided
      /\ entries[txn.id].state = "pending"
  BY DEF TxnAppend, EscInv, TypeOK, Txn, Locked
<1>2. entries[txn.id].req \in Req /\ ~OutcomeWritten(txn.id)
  BY <1>1 DEF EscInv, Owned, Visible, OutcomeWritten
<1>3. PICK r \in Req, d \in Decided :
        /\ r = entries[txn.id].req /\ d = txn.state
        /\ req[r].id = txn.id /\ req[r].pc = "accepted" /\ OutcomesOf(r) = {}
  BY <1>1, <1>2 DEF EscInv, Owned, Visible, Logged
<1>4. /\ UNCHANGED <<entries, req, restarts>>
      /\ log' = IF out = "ok" THEN log \cup {Rec(r, d)} ELSE log
  BY <1>3 DEF TxnAppend, AuditEffect
<1>5. \A s \in Req : Seen(s)' = Seen(s)
  BY <1>4 DEF Seen
<1>6. View' = View /\ View[r] = "pending"
  BY <1>1, <1>3, <1>5, ViewStutters, ViewIsSeen DEF Seen, Visible
<1>7. CASE out = "ok"
  <2>1. Lifecycle!NoOutcome(r)
    BY <1>3, AbstractNames DEF OutcomesOf
  <2>2. Lifecycle!RecordOutcome(r, d)
    BY <1>4, <1>6, <1>7, <2>1, AbstractNames DEF Lifecycle!RecordOutcome
  <2> QED BY <2>2, AbstractNames DEF Abstract, Lifecycle!Next
<1>8. CASE out # "ok"
  BY <1>4, <1>6, <1>8, AbstractStutter
<1> QED BY <1>7, <1>8

\* TxnReturn shows the recorded outcome, or that its fate is open.
LEMMA RefinesTxnReturn == ASSUME EscInv, EscInv', TxnReturn PROVE Abstract
<1>1. PICK r \in Req, d \in Decided, id \in Ids : CommitEffect(r, d, id)
  BY TxnReturnEffect
<1>2. /\ entries[id].state = "pending" /\ entries[id].req = r
      /\ req[r].id = id /\ req[r].pc = "accepted" /\ OutcomesOf(r) \subseteq {d}
      /\ txn.out = "ok" => Rec(r, d) \in log
      /\ txn.out = "indeterminate" => Rec(r, d) \notin log
  <2>1. txn.on /\ txn.id = id /\ txn.state = d /\ entries[id].state = "pending"
        /\ entries[id].req = r /\ req[r].id = id /\ req[r].pc = "accepted"
    BY <1>1 DEF CommitEffect
  <2> QED BY <2>1 DEF EscInv, Logged, OutcomeWritten
<1>3. UNCHANGED <<req, log, restarts>>
  BY DEF TxnReturn, auditVars
<1>4. \A s \in Req : req[s].id \in Ids
  BY DEF EscInv, TypeOK, Call
<1>5. \A s \in Req \ {r} : Seen(s)' = Seen(s)
  BY <1>1, <1>2, <1>3, <1>4 DEF Seen, CommitEffect
<1>6. Seen(r) = "pending" /\ Seen(r)' = entries'[id].state
  BY <1>1, <1>2, <1>3 DEF Seen, CommitEffect, Visible, Resolved
<1>7. View' = [View EXCEPT ![r] = entries'[id].state] /\ View[r] = "pending"
  BY <1>5, <1>6, ViewUpdate
<1>8. CASE txn.out = "ok"
  <2>1. Lifecycle!ShowOutcome(r, d)
    BY <1>1, <1>2, <1>3, <1>7, <1>8, AbstractNames DEF Lifecycle!ShowOutcome, CommitEffect
  <2> QED BY <2>1, AbstractNames DEF Abstract, Lifecycle!Next
<1>9. CASE txn.out = "indeterminate"
  <2>1. \A k \in Decided : Rec(r, k) \notin log
    BY <1>2, <1>9 DEF OutcomesOf
  <2>2. Lifecycle!ShowIndeterminate(r)
    BY <1>1, <1>3, <1>7, <1>9, <2>1, AbstractNames
       DEF Lifecycle!ShowIndeterminate, CommitEffect
  <2> QED BY <2>2 DEF Abstract, Lifecycle!Next
<1>10. CASE txn.out \notin {"ok", "indeterminate"}
  <2>1. \A s \in Req : Seen(s)' = Seen(s)
    BY <1>1, <1>3, <1>10 DEF Seen, CommitEffect
  <2> QED BY <1>3, <2>1, ViewStutters, AbstractStutter
<1> QED BY <1>8, <1>9, <1>10

\* A restart forgets what was shown; what surfaces contradicts nothing.
LEMMA RefinesRestart == ASSUME EscInv, EscInv', Restart PROVE Abstract
<1>1. /\ entries' = [i \in Ids |-> NoEntry] /\ restarts' = restarts + 1
      /\ log \subseteq log' /\ log' \subseteq log \cup maybe
  BY DEF Restart
<1>2. \A s \in Req : req'[s].pc = "accepted" <=> req[s].pc = "accepted"
  <2>1. ASSUME NEW s \in Req PROVE req'[s].pc = "accepted" <=> req[s].pc = "accepted"
    <3>1. req'[s] = IF req[s].pc \in {"idle", "accepted", "denied", "lost"}
                    THEN req[s] ELSE [req[s] EXCEPT !.pc = "lost"]
      BY DEF Restart
    <3>2. [req[s] EXCEPT !.pc = "lost"].pc = "lost"
      BY DEF EscInv, TypeOK, Call
    <3> QED BY <3>1, <3>2
  <2> QED BY <2>1
<1>3. \A s \in Req : /\ Seen(s)' = IF Seen(s) = "unknown" THEN "unknown" ELSE "gone"
  <2>1. NoEntry.state \notin Visible /\ "unknown" \notin Visible
    BY DEF NoEntry, Visible, Resolved, Decided
  <2>2. \A s \in Req : req'[s].id \in Ids
    BY DEF EscInv, TypeOK, Call
  <2> QED BY <1>1, <1>2, <2>1, <2>2 DEF Seen
<1>4. View' = [r \in Req |-> IF View[r] = "unknown" THEN "unknown" ELSE "gone"]
  <2>1. View = [r \in Req |-> Seen(r)]
    BY ViewIsSeen
  <2>2. View' = [r \in Req |-> Seen(r)']
    BY ViewIsSeenNext
  <2> QED BY <1>3, <2>1, <2>2
<1>5. ASSUME NEW n \in log' \ log, n.kind \in Decided
      PROVE  \A k \in Decided : Rec(n.req, k) \notin log
  <2>1. n \in Record /\ n = Rec(n.req, n.kind)
    BY <1>1 DEF EscInv, TypeOK, Record, Rec
  <2>2. n.req \in Req /\ n.kind \in OutcomesOf(n.req)
    BY <1>1, <1>5, <2>1 DEF Record, OutcomesOf
  <2>3. \A k \in OutcomesOf(n.req) : k = n.kind
    BY <2>2 DEF EscInv, Logged
  <2> QED BY <1>5, <2>1, <2>3 DEF OutcomesOf
<1>6. Lifecycle!Restart
  BY <1>1, <1>4, <1>5, AbstractNames DEF Lifecycle!Restart
<1> QED BY <1>6 DEF Abstract, Lifecycle!Next

\* Every step of the registry is a step of the lifecycle or a stutter.
LEMMA LifecycleStep == EscInv /\ EscInv' /\ [Next]_vars => Abstract
<1> SUFFICES ASSUME EscInv, EscInv', [Next]_vars PROVE Abstract
  OBVIOUS
<1>1. ASSUME UNCHANGED <<entries, req, log, restarts>> PROVE Abstract
  <2>1. \A s \in Req : Seen(s)' = Seen(s)
    BY <1>1 DEF Seen
  <2> QED BY <1>1, <2>1, ViewStutters, AbstractStutter
<1>2. CASE UNCHANGED vars
  BY <1>1, <1>2 DEF vars
<1>3. ASSUME NEW r \in Req, Evaluate(r) PROVE Abstract
  BY <1>3, RefinesQuiet, RefinesReserveOk, RefinesAppendEscalated, RefinesPublish DEF Evaluate
<1>4. CASE Approver
  BY <1>1, <1>4 DEF Approver, ResolveBegin, auditVars
<1>5. CASE ReaperTick \/ Reap
  BY <1>1, <1>5 DEF ReaperTick, Reap, ReapLock, ReapBegin, ReapEnd, auditVars
<1>6. CASE (\E out \in Outcomes : TxnAppend(out)) \/ TxnReturn
  BY <1>6, RefinesTxnAppend, RefinesTxnReturn
<1>7. CASE OtherAppendPoisons \/ Tick
  BY <1>1, <1>7 DEF OtherAppendPoisons, Tick, auditVars
<1>8. CASE Restart
  BY <1>8, RefinesRestart
<1> QED BY <1>2, <1>3, <1>4, <1>5, <1>6, <1>7, <1>8 DEF Next

\* The registry, with its hidden reservations, mutex, reaper, eviction, audit
\* faults and restarts, implements the documented lifecycle: recorded before
\* shown, final once shown, and lost only by a restart.
THEOREM RegistryImplementsLifecycle == Spec => ImplementsLifecycle
<1>1. Init => Lifecycle!Init
  BY LifecycleInit
<1>2. EscInv /\ EscInv' /\ [Next]_vars => [Lifecycle!Next]_(Lifecycle!lifecycleVars)
  BY LifecycleStep DEF Abstract
<1> QED BY <1>1, <1>2, EscInvariant, PTL DEF Spec, ImplementsLifecycle, Lifecycle!Spec
=============================================================================
