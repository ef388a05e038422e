---------------------------- MODULE MCBearerAuth ----------------------------
(* Small instances of BearerAuth for TLC. *)
EXTENDS BearerAuthProps, TLC

Collision == [t \in TokenIds |-> "mwt_AAAAA"]
Symmetry  == Permutations(Requests) \cup Permutations(TokenIds)
=============================================================================
