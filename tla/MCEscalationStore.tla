-------------------------- MODULE MCEscalationStore --------------------------
(* TLC instances of EscalationStore *)
EXTENDS EscalationStore, TLC

\* Calls are interchangeable.  (Envelope ids are not: AnyId picks one.)
Symmetry == Permutations(Req)
=============================================================================
