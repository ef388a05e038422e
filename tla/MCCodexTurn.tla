---------------------------- MODULE MCCodexTurn ----------------------------
(* Small instances of CodexTurn for TLC. *)
EXTENDS CodexTurnProps

BothWays == {{"resume", "name"}}

\* Both dialects, a guarded and an aborted end, an error.
TurnKinds == {"turn/started", "final_answer", "error", "turn_aborted"}
EndOnly   == {"turn/completed"}
=============================================================================
