--------------------------- MODULE MCErrorDialog ---------------------------
(* Small instances of ErrorDialog: two problems and one to be ignored, a suppression window of     *)
(* two ticks, a map that is pruned from its first entry on.                  *)
EXTENDS ErrorDialog, TLC

CONSTANTS p1, p2, p3

AllProblems == {p1, p2, p3}
IgnoredProblems == {p3}
=============================================================================
