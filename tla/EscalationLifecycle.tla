------------------------- MODULE EscalationLifecycle -------------------------
(***************************************************************************)
(* What the escalation registry of tg-proxy promises to agents, approvers  *)
(* and auditors (the lifecycle diagram of docs/escalation.md): an          *)
(* escalation is recorded before it can be seen, its outcome is recorded   *)
(* before it is shown, an outcome is final, and only a restart loses an    *)
(* escalation that is still pending.                                       *)
(***************************************************************************)
EXTENDS Naturals

CONSTANT Req

VARIABLES view,      \* what a poller sees of each escalation
          recorded,  \* records durably in the audit chain
          epoch      \* process restarts

lifecycleVars == <<view, recorded, epoch>>

Final == {"approved", "denied", "expired"}

Note(r, k) == [req |-> r, kind |-> k]

NoOutcome(r) == \A k \in Final : Note(r, k) \notin recorded

Init ==
    /\ view = [r \in Req |-> "unknown"]
    /\ recorded = {}
    /\ epoch = 0

RecordEscalated(r) ==
    /\ view[r] = "unknown"
    /\ recorded' = recorded \cup {Note(r, "escalated")}
    /\ UNCHANGED <<view, epoch>>

Show(r) ==
    /\ view[r] = "unknown" /\ Note(r, "escalated") \in recorded
    /\ view' = [view EXCEPT ![r] = "pending"]
    /\ UNCHANGED <<recorded, epoch>>

RecordOutcome(r, k) ==
    /\ view[r] = "pending" /\ NoOutcome(r)
    /\ recorded' = recorded \cup {Note(r, k)}
    /\ UNCHANGED <<view, epoch>>

ShowOutcome(r, k) ==
    /\ view[r] = "pending" /\ Note(r, k) \in recorded
    /\ view' = [view EXCEPT ![r] = k]
    /\ UNCHANGED <<recorded, epoch>>

\* The outcome's record may or may not exist: nobody is authorized.
ShowIndeterminate(r) ==
    /\ view[r] = "pending" /\ NoOutcome(r)
    /\ view' = [view EXCEPT ![r] = "indeterminate"]
    /\ UNCHANGED <<recorded, epoch>>

\* Making room for another escalation.
Evict(r) ==
    /\ view[r] \in Final \cup {"indeterminate"}
    /\ view' = [view EXCEPT ![r] = "gone"]
    /\ UNCHANGED <<recorded, epoch>>

\* A restart forgets every escalation; records of uncertain fate may surface.
Restart ==
    /\ epoch' = epoch + 1
    /\ view' = [r \in Req |-> IF view[r] = "unknown" THEN "unknown" ELSE "gone"]
    /\ recorded \subseteq recorded'
    /\ \A n \in recorded' \ recorded : n.kind \in Final => NoOutcome(n.req)

Next ==
    \/ \E r \in Req :
          \/ RecordEscalated(r) \/ Show(r) \/ ShowIndeterminate(r) \/ Evict(r)
          \/ \E k \in Final : RecordOutcome(r, k) \/ ShowOutcome(r, k)
    \/ Restart

Spec == Init /\ [][Next]_lifecycleVars
=============================================================================
