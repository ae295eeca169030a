------------------------------- MODULE MCPrune -------------------------------
(* An instance of Prune, with the hooks it runs beside, for TLC. *)
EXTENDS Prune, TLC

CONSTANTS h1, h2, h3

MCSymmetry == Permutations(Hooks)

Started == {h \in Hooks : hook[h].pc # "start"}

\* Every flag and decision with two hooks and no trouble; under one setting of
\* the flags, three hooks with a fault, or a hook beside prunes.
MCFocus ==
    /\ Cardinality(Started)
         <= IF damage > 0 THEN 3 ELSE IF prunes > 0 THEN 1 ELSE 2
    /\ damage > 0 \/ prunes > 0 => ~flags.failClosed /\ flags.tools = {}
    /\ damage > 0 => prunes = 0
    /\ Cardinality(Started) > 1 => \A h \in Started : hook[h].ts # 1
    /\ Cardinality(Started) > 2 => \A h \in Started : hook[h].act \in {"none", "denied"}

=============================================================================
