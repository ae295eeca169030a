----------------------------- MODULE MCEvaluate -----------------------------
(* An instance of Evaluate for TLC. *)
EXTENDS Evaluate, TLC

CONSTANTS c1, c2, c3

MCDeclared == [p \in Policies |-> IF p = "p" THEN {"known"} ELSE {}]

MCSymmetry == Permutations(Calls)

Started == {c \in Calls : call[c].pc # "new"}

\* One source of trouble at a time: three limited calls, followed as far as the
\* gates, over a fixed policy set; two unlimited calls with audit faults; or one
\* call among reloads.
MCFocus ==
    IF flags.limited
    THEN /\ flags.failClosed /\ ~flags.unknownToolsDeny
         /\ edits = 0 /\ reloads = 0 /\ faults = 0
         /\ dir = [f \in Files |-> IF f = 1 THEN "p" ELSE "absent"]
         /\ \A c \in Calls : call[c].pc \notin {"append", "reserve"}
    ELSE /\ now = 0
         /\ Cardinality(Started) <= IF reloads + edits > 0 THEN 1 ELSE 2
         /\ faults > 0 => edits = 0 /\ reloads = 0

=============================================================================
