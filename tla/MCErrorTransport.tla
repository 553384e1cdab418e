--------------------------- MODULE MCErrorTransport ---------------------------
(* Instances of ErrorTransport for TLC.                                     *)
EXTENDS ErrorTransport

CONSTANTS t1, t2
=============================================================================
