----------------------------- MODULE MCVelocity -----------------------------
(* TLC instances of Velocity *)
EXTENDS Velocity, TLC

\* Calls are interchangeable, and so are keys.
Symmetry == Permutations(Req) \cup Permutations(Key)
=============================================================================
