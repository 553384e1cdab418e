----------------------------- MODULE TicketPromise -----------------------------
(* What ERM_TicketStatusHistory promises of a ticket, whichever procedures write  *)
(* it and however they interleave: the status changes with the entry that tells   *)
(* of it, no entry is ever changed or lost, and each is a row of the workflow out *)
(* of a status the ticket really had - of the one it has, if there is only one    *)
(* client.                                                                        *)
EXTENDS Sequences

CONSTANTS TicketId, None, Transitions,
          Alone         \* whether there is only one client

VARIABLES status,       \* [TicketId -> its status, or None before it exists]
          trail         \* [TicketId -> sequence of entries]

pvars == <<status, trail>>

Entry(kind, from, to) == [kind |-> kind, from |-> from, to |-> to]

PInit == /\ status = [t \in TicketId |-> None]
         /\ trail = [t \in TicketId |-> << >>]

\* A status the ticket had at some time.
Had(t, from) == \E i \in DOMAIN trail[t] : trail[t][i].to = from

Told(t, entry) == trail' = [trail EXCEPT ![t] = Append(@, entry)]

Open(t) ==
    /\ status[t] = None
    /\ status' = [status EXCEPT ![t] = "new"]
    /\ Told(t, Entry("status", None, "new"))

Move(t, from, to) ==
    /\ status' = [status EXCEPT ![t] = to]
    /\ <<from, to>> \in Transitions
    /\ Alone => from = status[t]
    /\ Had(t, from)
    /\ Told(t, Entry("status", from, to))

\* The entry shows the status, which stays as it is.
Assign(t, from) ==
    /\ UNCHANGED status
    /\ Alone => from = status[t]
    /\ Had(t, from)
    /\ Told(t, Entry("assignment", from, from))

Exists(t) == status[t] # None

PNext ==
    \E t \in TicketId :
        \/ Open(t)
        \/ Exists(t) /\ \E move \in Transitions : Move(t, move[1], move[2])
        \/ \E i \in DOMAIN trail[t] : Assign(t, trail[t][i].to)

Promise == PInit /\ [][PNext]_pvars

================================================================================
