------------------------------ MODULE AuditLog ------------------------------
(***************************************************************************)
(* What the audit writer promises its readers: an append-only log of trace *)
(* ids with a firm prefix that nothing, not even a power loss, takes away. *)
(* Outside the firm prefix the newest record may be withdrawn (a write     *)
(* that was rolled back), and a power loss may replace the whole suffix by *)
(* other records that had been offered before.                             *)
(***************************************************************************)
EXTENDS Naturals, Sequences

VARIABLES log,      \* trace ids in chain order
          firm,     \* length of the durable prefix
          offered   \* trace ids ever handed to the writer

logVars == <<log, firm, offered>>

Prefix(s, n) == SubSeq(s, 1, n)

Init == log = <<>> /\ firm = 0 /\ offered = {}

Offer == /\ offered' \in SUBSET Nat
         /\ offered \subseteq offered'
         /\ UNCHANGED <<log, firm>>

Extend == /\ \E id \in offered : log' = Append(log, id)
          /\ UNCHANGED <<firm, offered>>

Withdraw == /\ Len(log) > firm
            /\ log' = Prefix(log, Len(log) - 1)
            /\ UNCHANGED <<firm, offered>>

Harden == /\ firm' \in firm..Len(log)
          /\ UNCHANGED <<log, offered>>

Lose == /\ firm' \in Nat /\ firm' >= firm
        /\ log' \in Seq(offered) /\ Len(log') = firm'
        /\ Prefix(log', firm) = Prefix(log, firm)
        /\ UNCHANGED offered

Next == Offer \/ Extend \/ Withdraw \/ Harden \/ Lose

Spec == Init /\ [][Next]_logVars
=============================================================================
