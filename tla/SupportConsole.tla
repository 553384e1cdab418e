---------------------------- MODULE SupportConsole ----------------------------
(* The ticket queue of the support console, admin.page.ts: who am I, the list, *)
(* the ticket that is open, its assignment and its moves.  Every request       *)
(* reaches the server and returns in its own time; other agents work on the    *)
(* same tickets.                                                               *)
EXTENDS Integers, FiniteSets

CONSTANTS
    Tickets, Agents, Nil,
    MaxClicks,      \* bound: clicks on this page and changes by other agents
    MaxLost         \* bound: requests that fail

\* A ticket as it was read, by request n.
Read == [ticket : Tickets, owner : Agents \cup {Nil}, version : Nat, n : Nat]

ASSUME ConsoleAssumption ==
    /\ Nil \notin Tickets \cup Agents \cup Read
    /\ {MaxClicks, MaxLost} \subseteq Nat

Rights == {"none", "reader", "manager"}

VARIABLES
    owner, version,     \* the server: each ticket's owner and changes so far
    others, lost,       \* changes by others, and failures, so far
    rights,             \* the roster's word on the agent
    me,                 \* what whoami said
    listed,             \* tickets drawn in the queue
    assignable,         \* the picker's options
    selected,           \* the ticket that is open, as it was read
    assignTarget,       \* the picker
    source,             \* history: the ticket the picker's value is of
    clicks, asked,      \* clicks and requests so far
    consoleCalls,       \* requests in flight
    inOrder,            \* history: no answer overtaken, no read failed
    own                 \* history: what this page was told it changed

server == <<owner, version, others, lost, rights>>
page == <<me, listed, assignable, selected, assignTarget, source>>
consoleVars == <<server, page, clicks, asked, consoleCalls, inOrder, own>>

\* A request, and once served the answer: a ticket as read, or what was done.
\* The other reads answer the same whenever they are served.
Kinds == {"whoami", "roster", "queue", "detail", "assign", "status"}
Ask(n, kind, t, to) ==
    [n |-> n, kind |-> kind, ticket |-> t, to |-> to,
     served |-> kind \in {"whoami", "roster", "queue"},
     source |-> IF kind = "assign" THEN source ELSE Nil, owner |-> Nil, version |-> 0]

ConsoleInit ==
    /\ owner = [t \in Tickets |-> Nil] /\ version = [t \in Tickets |-> 0] /\ others = 0 /\ lost = 0
    /\ rights \in Rights
    /\ me = Nil /\ listed = {} /\ assignable = {}
    /\ selected = Nil /\ assignTarget = Nil /\ source = Nil
    /\ clicks = 0 /\ asked = 1 /\ consoleCalls = {Ask(1, "whoami", Nil, Nil)}
    /\ inOrder = TRUE /\ own = [t \in Tickets |-> 0]

-----------------------------------------------------------------------------
(* The server.                                                                 *)

Change(t, to) ==
    /\ owner' = [owner EXCEPT ![t] = to]
    /\ version' = [version EXCEPT ![t] = @ + 1]

ServeDetail(c) ==
    /\ c \in consoleCalls /\ ~c.served /\ c.kind = "detail"
    /\ consoleCalls' = (consoleCalls \ {c}) \cup
          {[c EXCEPT !.served = TRUE, !.owner = owner[c.ticket], !.version = version[c.ticket]]}
    /\ UNCHANGED <<server, page, clicks, asked, inOrder, own>>

\* assign and status; a move keeps the owner, except that the page names one
\* when it moves a ticket to `assigned`.
ServeChange(c) ==
    /\ c \in consoleCalls /\ ~c.served /\ c.kind \in {"assign", "status"}
    /\ Change(c.ticket, IF c.kind = "status" /\ c.to = Nil THEN owner[c.ticket] ELSE c.to)
    /\ consoleCalls' = (consoleCalls \ {c}) \cup
          {[c EXCEPT !.served = TRUE, !.version = version[c.ticket] + 1]}
    /\ UNCHANGED <<others, lost, rights, page, clicks, asked, inOrder, own>>

OtherAgent(t, to) ==
    /\ clicks + others < MaxClicks /\ others' = others + 1
    /\ Change(t, to)
    /\ UNCHANGED <<lost, rights, page, clicks, asked, consoleCalls, inOrder, own>>

-----------------------------------------------------------------------------
(* The page.                                                                   *)

\* The requests of `kinds`, for ticket t, in place of the answered one.
Issue(done, kinds, t) ==
    LET new == {k \in Kinds : k \in kinds}
        Place(k) == asked + Cardinality({j \in new : j = k \/ <<j, k>> \in
                        {<<"whoami", "detail">>, <<"queue", "roster">>}})
    IN  /\ consoleCalls' = (consoleCalls \ done) \cup
              {Ask(Place(k), k, IF k = "detail" THEN t ELSE Nil, Nil) : k \in new}
        /\ asked' = asked + Cardinality(new)

Click == clicks + others < MaxClicks /\ clicks' = clicks + 1

\* refresh: the Refresh button and every tab.
Refresh ==
    /\ Click /\ Issue({}, {"whoami"}, Nil)
    /\ UNCHANGED <<server, page, inOrder, own>>

\* The console is read only for the support roster (loadConsole; the dashboard
\* and the lists are PagedList's), the picker's options only for a manager.
WhoAmIAnswered(c) ==
    /\ c \in consoleCalls /\ c.served /\ c.kind = "whoami"
    /\ me' = rights
    /\ Issue({c}, CASE rights = "none" -> {} [] rights = "reader" -> {"queue"}
                    [] rights = "manager" -> {"queue", "roster"}, Nil)
    /\ UNCHANGED <<server, listed, assignable, selected, assignTarget, source, clicks, inOrder, own>>

RosterAnswered(c) ==
    /\ c \in consoleCalls /\ c.served /\ c.kind = "roster"
    /\ assignable' = Agents /\ Issue({c}, {}, Nil)
    /\ UNCHANGED <<server, me, listed, selected, assignTarget, source, clicks, inOrder, own>>

\* The ticket that is open now is read again.
QueueAnswered(c) ==
    /\ c \in consoleCalls /\ c.served /\ c.kind = "queue"
    /\ listed' = Tickets
    /\ IF selected = Nil THEN Issue({c}, {}, Nil) ELSE Issue({c}, {"detail"}, selected.ticket)
    /\ UNCHANGED <<server, me, assignable, selected, assignTarget, source, clicks, inOrder, own>>

\* selectTicket, from a row of the queue; drawn unless whoami said no.
Select(t) ==
    /\ Click /\ me # "none" /\ t \in listed /\ Issue({}, {"detail"}, t)
    /\ UNCHANGED <<server, page, inOrder, own>>

Shown(c) ==
    /\ selected' = [ticket |-> c.ticket, owner |-> c.owner, version |-> c.version, n |-> c.n]
    /\ inOrder' = (inOrder /\ (selected # Nil => selected.n < c.n))

\* Mutation: what was picked survives the next ticket.
DetailAnsweredKeepingPick(c) ==
    /\ c \in consoleCalls /\ c.served /\ c.kind = "detail"
    /\ Shown(c) /\ Issue({c}, {}, Nil)
    /\ IF assignTarget # Nil THEN UNCHANGED <<assignTarget, source>>
       ELSE assignTarget' = c.owner /\ source' = c.ticket
    /\ UNCHANGED <<server, me, listed, assignable, clicks, own>>

DetailAnswered(c) ==
    /\ c \in consoleCalls /\ c.served /\ c.kind = "detail"
    /\ Shown(c) /\ Issue({c}, {}, Nil)
    /\ assignTarget' = c.owner /\ source' = c.ticket
    /\ UNCHANGED <<server, me, listed, assignable, clicks, own>>

\* The picker and its button are enabled for a manager.
Pick(a) ==
    /\ selected # Nil /\ me = "manager" /\ a \in assignable \cup {Nil}
    /\ assignTarget' = a /\ source' = selected.ticket
    /\ UNCHANGED <<server, me, listed, assignable, selected, clicks, asked, consoleCalls, inOrder, own>>

Post(kind, to) ==
    /\ Click /\ selected # Nil /\ me # "none"
    /\ consoleCalls' = consoleCalls \cup {Ask(asked + 1, kind, selected.ticket, to)}
    /\ asked' = asked + 1
    /\ UNCHANGED <<server, page, inOrder, own>>

Assign == me = "manager" /\ Post("assign", assignTarget)

\* A transition's button is drawn for anyone who sees the ticket; a prompt that
\* is cancelled posts nothing.
Move(to) == Post("status", to)

Acknowledged(c) == own' = [own EXCEPT ![c.ticket] = IF @ < c.version THEN c.version ELSE @]

AssignAnswered(c) ==
    /\ c \in consoleCalls /\ c.served /\ c.kind = "assign"
    /\ Acknowledged(c) /\ Issue({c}, {"whoami", "detail"}, c.ticket)
    /\ UNCHANGED <<server, page, clicks, inOrder>>

\* Mutation: the move is taken to be the new state of the page.
MoveAnsweredQuietly(c) ==
    /\ c \in consoleCalls /\ c.served /\ c.kind = "status"
    /\ Acknowledged(c) /\ Issue({c}, {}, Nil)
    /\ UNCHANGED <<server, page, clicks, inOrder>>

MoveAnswered(c) ==
    /\ c \in consoleCalls /\ c.served /\ c.kind = "status"
    /\ Acknowledged(c) /\ Issue({c}, {"whoami"}, Nil)
    /\ UNCHANGED <<server, page, clicks, inOrder>>

\* A read fails with nothing said; a change is refused, or its answer is lost
\* after it was made, and assignError or transitionError says it was rejected.
Failed(c) ==
    /\ c \in consoleCalls /\ Issue({c}, {}, Nil)
    /\ lost < MaxLost /\ lost' = lost + 1
    /\ inOrder' = (inOrder /\ c.kind \in {"assign", "status"})
    /\ UNCHANGED <<owner, version, others, rights, page, clicks, own>>

ConsoleNext ==
    \/ Refresh \/ Assign
    \/ \E t \in Tickets : Select(t)
    \/ \E t \in Tickets, a \in Agents \cup {Nil} : OtherAgent(t, a)
    \/ \E a \in Agents \cup {Nil} : Pick(a) \/ Move(a)
    \/ \E c \in consoleCalls :
          \/ ServeDetail(c) \/ ServeChange(c) \/ Failed(c)
          \/ WhoAmIAnswered(c) \/ RosterAnswered(c) \/ QueueAnswered(c) \/ DetailAnswered(c)
          \/ AssignAnswered(c) \/ MoveAnswered(c)

ConsoleSpec == ConsoleInit /\ [][ConsoleNext]_consoleVars

-----------------------------------------------------------------------------
(* Properties.                                                                 *)

(* PickBelongsToTicket: the assignee that is posted for a ticket was picked     *)
(* while that ticket was open, or is the owner it was read with, whatever       *)
(* answers replaced the open ticket in between.                                 *)
PickBelongsToTicket ==
    \A c \in consoleCalls : c.kind = "assign" => c.source = c.ticket

(* OwnChangeShown: when the page has been told that its assignment or move      *)
(* was made and every request has been answered, in order, the ticket it shows  *)
(* is at least as new as that change, though others change it too.              *)
OwnChangeShown ==
    inOrder /\ consoleCalls = {} /\ selected # Nil
        => selected.version >= own[selected.ticket]

=============================================================================
