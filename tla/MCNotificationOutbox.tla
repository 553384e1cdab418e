------------------------- MODULE MCNotificationOutbox -------------------------
(* Instances of NotificationOutbox for TLC.                                 *)
EXTENDS NotificationOutbox, TLC

CONSTANTS r1, r2, d1, d2, j1

RowsAndMailers == Permutations({r1, r2}) \cup Permutations({d1, d2})
=============================================================================
