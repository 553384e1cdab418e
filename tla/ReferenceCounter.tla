-------------------------- MODULE ReferenceCounter ---------------------------
(* usp_NextReference: the number in LS-ERM-ERR-yyMMdd-n and LS-ERM-TKT-...-n.  *)
(* A capture asks for its ERR reference inside its transaction, under          *)
(* XACT_ABORT; usp_Ticket_Create and usp_Ticket_CreateManual ask for a TKT     *)
(* reference before theirs begins, so each statement commits by itself.        *)
EXTENDS Integers, Sequences, FiniteSets

CONSTANTS
    Callers,        \* database connections
    Nobody,
    LastDay,        \* bound: midnights
    MaxReferences   \* bound: the counter of a day and kind

ASSUME ReferenceAssumption ==
    /\ Nobody \notin Callers /\ Callers # {} /\ IsFiniteSet(Callers)
    /\ LastDay \in Nat /\ MaxReferences \in Nat

RefType == {"ERR", "TKT"}
CounterRow == RefType \X (0 .. LastDay)     \* the key of ERM_ReferenceCounter

VARIABLES
    today,
    counter,        \* LastValue of each row, 0 where there is none
    lock,           \* the open transaction that wrote the row
    caller,         \* each connection's procedure
    issued,         \* history: the references in committed rows, as committed
    wasted,         \* history: tickets whose own transaction failed
    doomed          \* history: captures lost to a duplicate key

refVars == <<today, counter, lock, caller, issued, wasted, doomed>>

NotAsking == [at |-> "idle", row |-> <<"ERR", 0>>, attempt |-> 0, next |-> 0]
CallerState == [at : {"idle", "update", "insert", "got"}, row : CounterRow,
                attempt : 0 .. 3, next : Nat]

RefInit ==
    /\ today = 0
    /\ counter = [r \in CounterRow |-> 0]
    /\ lock = [r \in CounterRow |-> Nobody]
    /\ caller = [s \in Callers |-> NotAsking]
    /\ issued = [r \in CounterRow |-> << >>]
    /\ wasted = [r \in CounterRow |-> 0]
    /\ doomed = [r \in CounterRow |-> 0]

-----------------------------------------------------------------------------

\* @Today is read once: the day may end while the procedure runs.
Request(s, type) ==
    /\ caller[s].at = "idle"
    /\ caller' = [caller EXCEPT ![s] =
                     [at |-> "update", row |-> <<type, today>>, attempt |-> 1, next |-> 0]]
    /\ UNCHANGED <<today, counter, lock, issued, wasted, doomed>>

\* s may touch the row: no other transaction holds it.
Touches(s, at) == caller[s].at = at /\ lock[caller[s].row] = Nobody

\* The row is s's until its transaction ends, which is at once for a ticket.
Obtain(s, n) ==
    LET r == caller[s].row
    IN  /\ counter' = [counter EXCEPT ![r] = n]
        /\ lock' = [lock EXCEPT ![r] = IF r[1] = "ERR" THEN s ELSE Nobody]
        /\ caller' = [caller EXCEPT ![s].at = "got", ![s].next = n]
        /\ UNCHANGED <<today, issued, wasted, doomed>>

\* The UPDATE increments and returns; it waits for a writer of the row.
ClaimNext(s) ==
    /\ Touches(s, "update") /\ counter[caller[s].row] \in 1 .. MaxReferences - 1
    /\ Obtain(s, counter[caller[s].row] + 1)

FindNoRow(s) ==
    /\ Touches(s, "update") /\ counter[caller[s].row] = 0
    /\ caller' = [caller EXCEPT ![s].at = "insert"]
    /\ UNCHANGED <<today, counter, lock, issued, wasted, doomed>>

InsertRow(s) ==
    /\ Touches(s, "insert") /\ counter[caller[s].row] = 0
    /\ Obtain(s, 1)

\* 2627, caught; but under XACT_ABORT the capture's transaction cannot go on,
\* and the second UPDATE raises 3930: usp_Error_Capture rolls back.
InsertDooms(s) ==
    LET r == caller[s].row
    IN  /\ Touches(s, "insert") /\ counter[r] > 0 /\ r[1] = "ERR"
        /\ caller' = [caller EXCEPT ![s] = NotAsking]
        /\ doomed' = [doomed EXCEPT ![r] = @ + 1]
        /\ UNCHANGED <<today, counter, lock, issued, wasted>>

\* A ticket's procedure loops to the UPDATE, three times in all.
InsertLoops(s) ==
    LET c == caller[s]
    IN  /\ Touches(s, "insert") /\ counter[c.row] > 0 /\ c.row[1] = "TKT"
        /\ caller' = [caller EXCEPT ![s] =
                         IF c.attempt = 3 THEN NotAsking
                         ELSE [c EXCEPT !.at = "update", !.attempt = c.attempt + 1]]
        /\ UNCHANGED <<today, counter, lock, issued, wasted, doomed>>

Release(s) == [r \in CounterRow |-> IF lock[r] = s THEN Nobody ELSE lock[r]]

\* The occurrence or the ticket is there.
Commit(s) ==
    LET c == caller[s]
    IN  /\ c.at = "got"
        /\ issued' = [issued EXCEPT ![c.row] = Append(@, c.next)]
        /\ lock' = Release(s)
        /\ caller' = [caller EXCEPT ![s] = NotAsking]
        /\ UNCHANGED <<today, counter, wasted, doomed>>

\* Mutation: the procedure has a transaction of its own.
RollbackKeepsCounter(s) ==
    LET r == caller[s].row
    IN  /\ caller[s].at = "got"
        /\ counter' = counter
        /\ wasted' = [wasted EXCEPT ![r] = @ + IF lock[r] = s THEN 0 ELSE 1]
        /\ lock' = Release(s)
        /\ caller' = [caller EXCEPT ![s] = NotAsking]
        /\ UNCHANGED <<today, issued, doomed>>

\* What follows the reference fails, or the connection dies: a capture takes
\* its increment back, a ticket does not.
Rollback(s) ==
    LET r == caller[s].row
    IN  /\ caller[s].at = "got"
        /\ counter' = [counter EXCEPT ![r] = @ - IF lock[r] = s THEN 1 ELSE 0]
        /\ wasted' = [wasted EXCEPT ![r] = @ + IF lock[r] = s THEN 0 ELSE 1]
        /\ lock' = Release(s)
        /\ caller' = [caller EXCEPT ![s] = NotAsking]
        /\ UNCHANGED <<today, issued, doomed>>

\* The connection dies before it has a number.
Disconnect(s) ==
    /\ caller[s].at \in {"update", "insert"}
    /\ caller' = [caller EXCEPT ![s] = NotAsking]
    /\ UNCHANGED <<today, counter, lock, issued, wasted, doomed>>

Midnight ==
    /\ today < LastDay /\ today' = today + 1
    /\ UNCHANGED <<counter, lock, caller, issued, wasted, doomed>>

RefNext ==
    \/ \E s \in Callers, type \in RefType : Request(s, type)
    \/ \E s \in Callers :
          \/ ClaimNext(s) \/ FindNoRow(s) \/ InsertRow(s) \/ InsertDooms(s) \/ InsertLoops(s)
          \/ Commit(s) \/ Rollback(s) \/ Disconnect(s)
    \/ Midnight

RefSpec == RefInit /\ [][RefNext]_refVars

-----------------------------------------------------------------------------
(* Properties.                                                                 *)

RefTypeOK ==
    /\ today \in 0 .. LastDay
    /\ counter \in [CounterRow -> Nat]
    /\ lock \in [CounterRow -> Callers \cup {Nobody}]
    /\ caller \in [Callers -> CallerState]
    /\ issued \in [CounterRow -> Seq(Nat)]
    /\ wasted \in [CounterRow -> Nat] /\ doomed \in [CounterRow -> Nat]

\* The tickets that have a number and are not committed.
InHand(r) == {s \in Callers : caller[s].at = "got" /\ caller[s].row = r}

(* ErrorsConsecutive: the error references of a day are 1, 2, 3 ... in the      *)
(* order of the captures' commits, whatever was rolled back and whoever waited. *)
ErrorsConsecutive ==
    \A r \in CounterRow : r[1] = "ERR" => \A i \in DOMAIN issued[r] : issued[r][i] = i

(* TicketsDistinct: no ticket number is given out twice, and a day's counter    *)
(* is the tickets made, being made and failed.                                  *)
TicketsDistinct ==
    \A r \in CounterRow : r[1] = "TKT" =>
        /\ \A i, j \in DOMAIN issued[r] : issued[r][i] = issued[r][j] => i = j
        /\ \A s, t \in InHand(r) : caller[s].next = caller[t].next => s = t
        /\ \A s \in InHand(r), i \in DOMAIN issued[r] : issued[r][i] # caller[s].next
        /\ counter[r] = Len(issued[r]) + wasted[r] + Cardinality(InHand(r))

(* ReferencesExact: the references are those above; and the race for the first  *)
(* row of a day costs at most one capture per other connection and never        *)
(* brings a ticket to its third attempt.                                        *)
ReferencesExact ==
    /\ ErrorsConsecutive /\ TicketsDistinct
    /\ \A r \in CounterRow :
          /\ doomed[r] > 0 => counter[r] > 0
          /\ doomed[r] < Cardinality(Callers)
    /\ \A s \in Callers : caller[s].attempt <= 2

=============================================================================
