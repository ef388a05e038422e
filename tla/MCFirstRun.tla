----------------------------- MODULE MCFirstRun -----------------------------
(* Small instances of FirstRun for TLC. *)
EXTENDS FirstRunProps, TLC

Symmetry == Permutations(Daemons) \cup Permutations(Requests) \cup Permutations(Inits)
=============================================================================
