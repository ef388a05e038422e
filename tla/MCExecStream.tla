---------------------------- MODULE MCExecStream ----------------------------
(* Instances of ExecStream for TLC.                                        *)
EXTENDS ExecStreamProps, TLC

CONSTANTS s1, c1, c2

OneSession  == {s1}
OneCancel   == {c1}
TwoCancels  == {c1, c2}
NoCancel    == {}

\* What a run ends with, and what claude, codex, copilot, hermes and pi, and
\* the fake backend of the tests, report for a cancelled one.
OddNatural   == {"completed", ""}
OnlyComplete == {"completed"}
Production   == {"aborted"}
CancelMix    == {"aborted", "cancelled"}
TestBackend  == {"cancelled"}

PumpDeadlines == DrainStates \cup WaitStates
AllDeadlines  == PumpDeadlines \cup {"shutdown"}
NoDeadlines   == {}
AnyId         == BOOLEAN
NoId          == {FALSE}

AllKinds == MessageKinds
Text     == {"text"}

Symmetry == Permutations(TwoCancels)
=============================================================================
