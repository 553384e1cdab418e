-------------------------- MODULE MCTicketLifecycle --------------------------
(* Instances of TicketLifecycle for TLC.                                   *)
EXTENDS TicketLifecycle, TLC

CONSTANTS s1, s2, h1, h2, o1, o2, t1, t2

\* The rows db/003_seed_reference_data.sql installs.
SeededStatus == {"new", "assigned", "in_progress", "waiting_info", "resolved",
                 "closed", "cancelled", "reopened"}
SeededTerminal == {"closed", "cancelled"}
SeededPaused == {"waiting_info"}
SeededTransitions ==
    ({"new"} \X {"assigned", "in_progress", "cancelled"})
    \cup ({"assigned"} \X {"in_progress", "waiting_info", "new", "cancelled"})
    \cup ({"in_progress"} \X {"waiting_info", "resolved", "assigned", "cancelled"})
    \cup ({"waiting_info"} \X {"in_progress", "resolved", "cancelled"})
    \cup ({"resolved"} \X {"closed", "reopened"})
    \cup ({"closed"} \X {"reopened"})
    \cup ({"reopened"} \X {"assigned", "in_progress", "resolved"})
SeededNeedsAssignee ==
    ({"new"} \X {"assigned", "in_progress"})
    \cup ({"reopened"} \X {"assigned", "in_progress"})

\* A workflow with the other transitions deactivated: the shortest way to every
\* kind of status (open, paused, terminal, reopened).
ShortStatus == {"new", "assigned", "in_progress", "resolved", "cancelled", "reopened"}
ShortTerminal == {"cancelled"}
ShortTransitions ==
    {<<"new", "assigned">>, <<"new", "cancelled">>, <<"cancelled", "reopened">>}
ShortNeedsAssignee == {<<"new", "assigned">>}

\* No action reads the outbox: runs whose properties do not either may merge the
\* states that differ in it alone.
WithoutOutbox == <<tables, session>>

SymmetricProblem == Permutations({s1, s2}) \cup Permutations({o1, o2})
                        \cup Permutations({t1, t2})
SymmetricSessions == Permutations({s1, s2})
SymmetricErrors == Permutations({h1, h2}) \cup Permutations({o1, o2})
=============================================================================
