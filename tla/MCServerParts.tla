---------------------------- MODULE MCServerParts ----------------------------
(* Three parts of the server that share nothing, side by side: replies to a    *)
(* manual ticket, reference numbers, and the anonymous capture throttle.       *)
EXTENDS MCTicketLifecycle, ReferenceCounter, CaptureThrottle

\* Connections, threads and clients are only ever compared; the parts never
\* meet, so that one set of values serves as sessions, callers and threads.
Symmetry == Permutations(Threads) \cup Permutations(Clients)

\* A behaviour is of one part.
NoTickets == Init /\ UNCHANGED vars
NoReferences == RefInit /\ UNCHANGED refVars
NoThrottle == ThrottleInit /\ UNCHANGED throttleVars
PartsInit == Init /\ RefInit /\ ThrottleInit
PartsNext ==
    \/ NoReferences /\ NoThrottle /\ Next
    \/ NoTickets /\ NoThrottle /\ RefNext
    \/ NoTickets /\ NoReferences /\ ThrottleNext
PartsSpec == PartsInit /\ [][PartsNext]_<<vars, refVars, throttleVars>>
=============================================================================
