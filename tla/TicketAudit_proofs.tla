-------------------------- MODULE TicketAudit_proofs --------------------------
(***************************************************************************)
(* What a report over the tables may rely on.  Whatever sessions           *)
(* interleave and wherever one dies, the audit trail tells each ticket's   *)
(* status, and the counters kept by increments are the counts of the rows. *)
(* When no session dies, every change is announced.  When there is one     *)
(* session, wherever it dies, statuses move along the workflow, the trail  *)
(* is a chain and the time stamps agree with the status.                   *)
(*                                                                         *)
(* All of it rests on the invariant of TicketLifecycle_proofs, the         *)
(* counters on SameProblem too: a new ticket or occurrence has no links yet. *)
(***************************************************************************)
EXTENDS TicketLifecycle_proofs, SequenceTheorems

----------------------------------------------------------------------------
(* The trail of one ticket.                                                *)

ReopenRows(t) == {r \in StatusRows(t) : r.to = "reopened"}

Tells(t) ==
    /\ \E r \in StatusRows(t) :
          r.to = ticket[t].status /\ \A q \in StatusRows(t) : q.seq <= r.seq
    /\ ticket[t].reopens = Cardinality(ReopenRows(t))

TrailTells(t) == ticket[t] # None => Tells(t)

LEMMA TellsStatusByTicket == HistoryTellsStatus <=> \A t \in TicketId : TrailTells(t)
BY DEF HistoryTellsStatus, TrailTells, Tells, ReopenRows

(* A step that writes no status row and leaves status and reopenings alone. *)
LEMMA SameStatusRows ==
    ASSUME NEW t \in TicketId, TrailTells(t),
           StatusRows(t)' = StatusRows(t),
           ticket'[t] # None => /\ ticket[t] # None
                                /\ ticket'[t].status = ticket[t].status
                                /\ ticket'[t].reopens = ticket[t].reopens
    PROVE  TrailTells(t)'
<1>1. ReopenRows(t)' = ReopenRows(t)
  BY DEF ReopenRows
<1> QED BY <1>1 DEF TrailTells, Tells

(* A new ticket's trail is its first row.                                  *)
LEMMA OpenTells ==
    ASSUME Inv, NEW s \in Sessions, NEW t \in TicketId,
           NEW f \in Hash \cup {None}, NEW reporter \in Person, NEW linked \in Nat,
           OpenTicket(s, t, f, reporter, linked)
    PROVE  TrailTells(t)'
<1> DEFINE new == NewTicket(f, reporter, linked)
           first == FirstRow(reporter)
<1>1. new.status = "new" /\ new.reopens = 0
  BY DEF NewTicket
<1>2. first.kind = "status" /\ first.to = "new"
  BY DEF FirstRow
<1>3. /\ ticket' = [ticket EXCEPT ![t] = new]
      /\ history' = [history EXCEPT ![t] = {first}]
  BY DEF OpenTicket
<1> HIDE DEF new, first
<1>4. ticket'[t] = new /\ history'[t] = {first}
  BY <1>3 DEF Inv, TablesInv, TablesTyped
<1>5. first \in history'[t] /\ history'[t] \in SUBSET HistoryRow
  BY <1>4, OpenedSession
<1>6. first.seq \in Nat
  BY <1>5 DEF HistoryRow
<1>7. StatusRows(t)' = {first}
  BY <1>2, <1>4 DEF StatusRows
<1>8. ReopenRows(t)' = {}
  BY <1>2, <1>7 DEF ReopenRows
<1>9. Cardinality({}) = 0
  BY FS_EmptySet
<1> QED BY <1>1, <1>2, <1>4, <1>6, <1>7, <1>8, <1>9 DEF TrailTells, Tells

(* A change of status writes the row with the largest number.              *)
LEMMA MoveTells ==
    ASSUME TablesInv, HistoryTellsStatus, NEW t \in TicketId, ticket[t] # None,
           NEW from \in Status \cup {None}, NEW to \in Status,
           NEW assign \in Agents \cup {None}, NEW by \in Person,
           MoveTicket(t, from, to, assign, by)
    PROVE  HistoryTellsStatus'
<1> DEFINE row == [seq |-> NextSequenceNo(t), from |-> from, to |-> to,
                   kind |-> "status", by |-> by]
           n == Cardinality(history[t])
           again == IF to = "reopened" THEN ticket[t].reopens + 1 ELSE ticket[t].reopens
<1>1. /\ n \in Nat /\ NextSequenceNo(t) = n + 1
      /\ IsFiniteSet(history[t]) /\ Sequences(t) = 1 .. n
  BY NextSequence DEF TablesInv, NumberedHistory, GaplessHistory
<1>2. /\ history' = [history EXCEPT ![t] = @ \cup {row}]
      /\ row.seq = n + 1 /\ row.to = to /\ row.kind = "status"
  BY <1>1 DEF MoveTicket
<1>3. /\ ticket'[t].status = to /\ ticket'[t].reopens = again
      /\ \A u \in TicketId \ {t} : ticket'[u] = ticket[u]
  <2> DEFINE old == ticket[t]
             who == IF assign # None THEN assign ELSE old.assignee
             fixed == \/ to = "resolved"
                      \/ old.resolved /\ to # "reopened"
             dead == \/ to \in Terminal
                     \/ old.closed /\ to # "reopened"
             moved == [old EXCEPT !.status = to, !.assignee = who, !.reopens = again,
                                  !.resolved = fixed, !.closed = dead]
  <2>1. ticket' = [ticket EXCEPT ![t] = moved]
    BY DEF MoveTicket, ClosedAfter
  <2>2. moved.status = to /\ moved.reopens = again
    <3>1. ticket[t] \in TicketRow
      BY DEF TablesInv, TablesTyped
    <3> HIDE DEF who, again, fixed, dead
    <3> QED BY <3>1 DEF TicketRow
  <2> HIDE DEF moved
  <2> QED BY <2>1, <2>2 DEF TablesInv, TablesTyped
<1> HIDE DEF row
<1>4. history'[t] = history[t] \cup {row} /\ row \notin history[t]
  BY <1>1, <1>2 DEF TablesInv, TablesTyped, Sequences
<1>5. StatusRows(t)' = StatusRows(t) \cup {row} /\ row \notin StatusRows(t)
  BY <1>2, <1>4 DEF StatusRows
<1>6. \A q \in StatusRows(t) : q.seq \in 1 .. n
  BY <1>1 DEF StatusRows, Sequences
<1>7. TrailTells(t)
  BY TellsStatusByTicket
<1>8. ticket'[t].reopens = Cardinality(ReopenRows(t)')
  <2>1. IsFiniteSet(ReopenRows(t))
    BY <1>1, FS_Subset DEF ReopenRows, StatusRows
  <2>2. Cardinality(ReopenRows(t)) = ticket[t].reopens
    BY <1>7 DEF TrailTells, Tells
  <2>3. CASE to = "reopened"
    <3>1. ReopenRows(t)' = ReopenRows(t) \cup {row} /\ row \notin ReopenRows(t)
      BY <1>2, <1>5, <2>3 DEF ReopenRows
    <3>2. Cardinality(ReopenRows(t) \cup {row}) = Cardinality(ReopenRows(t)) + 1
      BY <2>1, <3>1, FS_AddElement
    <3> QED BY <1>3, <2>2, <2>3, <3>1, <3>2
  <2>4. CASE to # "reopened"
    <3>1. ReopenRows(t)' = ReopenRows(t)
      BY <1>2, <1>5, <2>4 DEF ReopenRows
    <3> QED BY <1>3, <2>2, <2>4, <3>1
  <2> QED BY <2>3, <2>4
<1>9. TrailTells(t)'
  <2>1. \A q \in StatusRows(t)' : q.seq <= row.seq
    BY <1>1, <1>2, <1>5, <1>6
  <2>2. row \in StatusRows(t)'
    BY <1>5
  <2>3. Tells(t)'
    BY <1>2, <1>3, <1>8, <2>1, <2>2 DEF Tells
  <2> QED BY <2>3 DEF TrailTells
<1>10. ASSUME NEW u \in TicketId \ {t} PROVE TrailTells(u)'
  <2>1. history'[u] = history[u]
    BY <1>2 DEF TablesInv, TablesTyped
  <2>2. StatusRows(u)' = StatusRows(u)
    BY <2>1 DEF StatusRows
  <2>3. TrailTells(u)
    BY TellsStatusByTicket
  <2> QED BY <1>3, <2>2, <2>3, SameStatusRows
<1>11. \A u \in TicketId : TrailTells(u)'
  BY <1>9, <1>10
<1>12. (\A u \in TicketId : TrailTells(u))' => HistoryTellsStatus'
  BY DEF HistoryTellsStatus, TrailTells, Tells, ReopenRows
<1> QED BY <1>11, <1>12

(* An assignment writes a row of the other kind.                           *)
LEMMA AssignTells ==
    ASSUME Inv, HistoryTellsStatus, NEW s \in Sessions, AssignCommit(s)
    PROVE  HistoryTellsStatus'
<1> DEFINE c == session[s]
           t == c.ticket
           row == [seq |-> NextSequenceNo(t), from |-> c.from, to |-> c.from,
                   kind |-> "assignment", by |-> c.by]
           given == [ticket[t] EXCEPT !.assignee = c.assign]
<1>1. t \in TicketId /\ ticket[t] # None /\ ticket[t] \in TicketRow
  BY Remembered DEF AssignCommit, At, Prepared
<1>2. given.status = ticket[t].status /\ given.reopens = ticket[t].reopens
  BY <1>1 DEF TicketRow
<1>3. /\ ticket' = [ticket EXCEPT ![t] = given]
      /\ history' = [history EXCEPT ![t] = @ \cup {row}]
      /\ row.kind # "status"
  BY DEF AssignCommit
<1> HIDE DEF row, given, t
<1>4. ASSUME NEW u \in TicketId PROVE TrailTells(u)'
  <2>1. StatusRows(u)' = StatusRows(u)
    BY <1>1, <1>3 DEF StatusRows, Inv, TablesInv, TablesTyped
  <2>2. /\ ticket'[u] = IF u = t THEN given ELSE ticket[u]
        /\ u = t => ticket[u] # None
    BY <1>1, <1>3 DEF Inv, TablesInv, TablesTyped
  <2>3. TrailTells(u)
    BY TellsStatusByTicket
  <2> QED BY <1>2, <2>1, <2>2, <2>3, SameStatusRows
<1>5. (\A u \in TicketId : TrailTells(u))' => HistoryTellsStatus'
  BY DEF HistoryTellsStatus, TrailTells, Tells, ReopenRows
<1> QED BY <1>4, <1>5

(* The two procedures that open a ticket.                                  *)
LEMMA NewTicketTells ==
    ASSUME Inv, HistoryTellsStatus, NEW s \in Sessions, NEW t \in TicketId,
           InsertTicket(s, t) \/ \E u \in Users : CreateManual(s, t, u)
    PROVE  HistoryTellsStatus'
<1>1. PICK f \in Hash \cup {None}, reporter \in Person, linked \in Nat :
               OpenTicket(s, t, f, reporter, linked)
  <2>1. CASE InsertTicket(s, t)
    <3>1. /\ occurrence[session[s].occ] \in OccurrenceRow
          /\ session[s].by \in Person
      BY <2>1, Remembered DEF InsertTicket, At, Prepared, SessionState
    <3> QED BY <2>1, <3>1 DEF InsertTicket, OccurrenceRow
  <2>2. CASE \E u \in Users : CreateManual(s, t, u)
    BY <2>2 DEF CreateManual, Person
  <2> QED BY <2>1, <2>2
<1>2. ASSUME NEW u \in TicketId PROVE TrailTells(u)'
  <2>1. CASE u = t
    BY <1>1, <2>1, OpenTells
  <2>2. CASE u # t
    <3>1. ticket'[u] = ticket[u] /\ history'[u] = history[u]
      BY <1>1, <2>2, OpenedSession DEF OpenTicket, Inv, TablesInv, TablesTyped
    <3>2. StatusRows(u)' = StatusRows(u)
      BY <3>1 DEF StatusRows
    <3>3. TrailTells(u)
      BY TellsStatusByTicket
    <3> QED BY <3>1, <3>2, <3>3, SameStatusRows
  <2> QED BY <2>1, <2>2
<1>3. (\A u \in TicketId : TrailTells(u))' => HistoryTellsStatus'
  BY DEF HistoryTellsStatus, TrailTells, Tells, ReopenRows
<1> QED BY <1>2, <1>3

(* Counting a link changes neither status nor trail.                       *)
LEMMA LinkingTells ==
    ASSUME Inv, HistoryTellsStatus, NEW t \in TicketId, ticket[t] # None,
           UNCHANGED history,
           ticket' \in {ticket, [ticket EXCEPT ![t].linked = @ + 1]}
    PROVE  HistoryTellsStatus'
<1> DEFINE counted == [ticket[t] EXCEPT !.linked = @ + 1]
<1>1. ticket[t] \in TicketRow /\ ticket \in [TicketId -> TicketRow \cup {None}]
  BY DEF Inv, TablesInv, TablesTyped
<1>2. counted.status = ticket[t].status /\ counted.reopens = ticket[t].reopens
  BY <1>1 DEF TicketRow
<1>3. ticket' = ticket \/ ticket' = [ticket EXCEPT ![t] = counted]
  OBVIOUS
<1> HIDE DEF counted
<1>4. ASSUME NEW u \in TicketId PROVE TrailTells(u)'
  <2>1. StatusRows(u)' = StatusRows(u)
    BY DEF StatusRows
  <2>2. \/ ticket'[u] = ticket[u]
        \/ u = t /\ ticket'[u] = counted
    BY <1>1, <1>3
  <2>3. TrailTells(u)
    BY TellsStatusByTicket
  <2> QED BY <1>2, <2>1, <2>2, <2>3, SameStatusRows
<1>5. (\A u \in TicketId : TrailTells(u))' => HistoryTellsStatus'
  BY DEF HistoryTellsStatus, TrailTells, Tells, ReopenRows
<1> QED BY <1>4, <1>5

(* The steps that touch neither tickets nor their links.                   *)
Elsewhere(s) ==
    \/ \E f \in Hash, o \in OccId, u \in Users \cup {System} : CaptureUnattached(s, f, o, u)
    \/ \E f \in Hash : CaptureSampledOut(s, f)
    \/ \E f \in Hash, state \in TriageChoices : Triage(s, f, state)
    \/ UNCHANGED tables

LEMMA Writers ==
    ASSUME NEW s \in Sessions, Step(s)
    PROVE  \/ Elsewhere(s)
           \/ \E f \in Hash, o \in OccId, u \in Users \cup {System} : CaptureAttached(s, f, o, u)
           \/ LinkToExisting(s)
           \/ \E t \in TicketId : InsertTicket(s, t) \/ \E u \in Users : CreateManual(s, t, u)
           \/ ApplyStatus(s) \/ ReplyApply(s)
           \/ AssignCommit(s)
BY DEF Step, Elsewhere, RuleFires, NoRuleFires, ReportIssue, Reply, NotifyCreated,
       ChangeStatus, NotifyStatus, Assign, AdvanceBegin, AdvanceSkip, NotifyAssigned,
       ReplyCommit, ReplyResume, Crash

LEMMA StepTells ==
    ASSUME Inv, HistoryTellsStatus, NEW s \in Sessions, Step(s)
    PROVE  HistoryTellsStatus'
<1>1. CASE Elsewhere(s)
  <2>1. UNCHANGED <<ticket, history>>
    BY <1>1 DEF Elsewhere, CaptureUnattached, CaptureSampledOut, Triage, tables
  <2> QED BY <2>1 DEF HistoryTellsStatus, StatusRows
<1>2. CASE \E f \in Hash, o \in OccId, u \in Users \cup {System} : CaptureAttached(s, f, o, u)
  <2> PICK f \in Hash, o \in OccId, u \in Users \cup {System} : CaptureAttached(s, f, o, u)
    BY <1>2
  <2> DEFINE t == fingerprint[f].open
  <2>1. t \in TicketId /\ ticket[t] # None
    BY DEF CaptureAttached, Inv, TablesInv, TablesTyped, FingerprintRow, OpenTicketLive
  <2>2. UNCHANGED history /\ ticket' = [ticket EXCEPT ![t].linked = @ + 1]
    BY DEF CaptureAttached
  <2> HIDE DEF t
  <2> QED BY <2>1, <2>2, LinkingTells
<1>3. CASE LinkToExisting(s)
  <2> DEFINE t == session[s].ticket
  <2>1. t \in TicketId /\ ticket[t] # None
    BY <1>3, Remembered DEF LinkToExisting, At, Prepared
  <2>2. UNCHANGED history /\ ticket' \in {ticket, [ticket EXCEPT ![t].linked = @ + 1]}
    BY <1>3 DEF LinkToExisting
  <2> HIDE DEF t
  <2> QED BY <2>1, <2>2, LinkingTells
<1>4. CASE \E t \in TicketId : InsertTicket(s, t) \/ \E u \in Users : CreateManual(s, t, u)
  BY <1>4, NewTicketTells
<1>5. CASE ApplyStatus(s) \/ ReplyApply(s)
  <2> DEFINE c == session[s]
  <2>1. /\ c.ticket \in TicketId /\ ticket[c.ticket] # None
        /\ c.from \in Status \cup {None} /\ c.to \in Status
        /\ c.assign \in Agents \cup {None} /\ c.by \in Person
    BY <1>5, Remembered DEF ApplyStatus, ReplyApply, At, Prepared, SessionState
  <2>2. \/ MoveTicket(c.ticket, c.from, c.to, c.assign, c.by)
        \/ MoveTicket(c.ticket, c.from, c.to, None, c.by)
    BY <1>5 DEF ApplyStatus, ReplyApply
  <2> HIDE DEF c
  <2> QED BY <2>1, <2>2, MoveTells DEF Inv
<1>6. CASE AssignCommit(s)
  BY <1>6, AssignTells
<1> QED BY <1>1, <1>2, <1>3, <1>4, <1>5, <1>6, Writers

(* The ticket is in the status of its latest status row and was reopened   *)
(* as often as its rows say, for any workflow and any number of sessions   *)
(* that validate against stale statuses (usp_Ticket_ChangeStatus).         *)
THEOREM TrailTellsStatus == Spec => []HistoryTellsStatus
<1>1. Init => HistoryTellsStatus
  BY DEF Init, HistoryTellsStatus
<1>2. Inv /\ HistoryTellsStatus /\ [Next]_vars => HistoryTellsStatus'
  <2>1. UNCHANGED vars /\ HistoryTellsStatus => HistoryTellsStatus'
    BY DEF vars, HistoryTellsStatus, StatusRows
  <2> QED BY <2>1, StepTells DEF Next
<1> QED BY <1>1, <1>2, Invariance, PTL DEF Spec

----------------------------------------------------------------------------
(* The counters.                                                           *)

LinksCounted(t) == ticket[t] # None => ticket[t].linked = Cardinality(LinkedTo(t))

RowsCounted(f) ==
    /\ fingerprint[f].users = Cardinality(UsersOf(f))
    /\ fingerprint[f].count >= Cardinality(OccurrencesOf(f))

AllLinksCounted == \A t \in TicketId : LinksCounted(t)
AllRowsCounted == \A f \in Hash : RowsCounted(f)

LEMMA CountersByRow == CountersExact <=> AllLinksCounted /\ AllRowsCounted
BY DEF CountersExact, AllLinksCounted, AllRowsCounted, LinksCounted, RowsCounted

LEMMA CountsAreNumbers ==
    ASSUME TRUE
    PROVE  \A f \in Hash : /\ IsFiniteSet(OccurrencesOf(f)) /\ Cardinality(OccurrencesOf(f)) \in Nat
                           /\ IsFiniteSet(UsersOf(f)) /\ Cardinality(UsersOf(f)) \in Nat
<1> SUFFICES ASSUME NEW f \in Hash
             PROVE  /\ IsFiniteSet(OccurrencesOf(f)) /\ Cardinality(OccurrencesOf(f)) \in Nat
                    /\ IsFiniteSet(UsersOf(f)) /\ Cardinality(UsersOf(f)) \in Nat
  OBVIOUS
<1>1. OccurrencesOf(f) \subseteq OccId /\ UsersOf(f) \subseteq Users
  BY DEF OccurrencesOf, UsersOf
<1>2. IsFiniteSet(OccurrencesOf(f)) /\ IsFiniteSet(UsersOf(f))
  BY <1>1, IdsAssumption, FS_Subset
<1> QED BY <1>2, FS_CardinalityType

(* Rows keep their problem and user, and counts do not fall.               *)
LEMMA RowsStayCounted ==
    ASSUME Inv, AllRowsCounted,
           \A o \in OccId : /\ occurrence'[o] # None <=> occurrence[o] # None
                            /\ occurrence[o] # None =>
                                  /\ occurrence'[o].fp = occurrence[o].fp
                                  /\ occurrence'[o].user = occurrence[o].user,
           \A f \in Hash : /\ fingerprint'[f].users = fingerprint[f].users
                           /\ fingerprint'[f].count \in {fingerprint[f].count,
                                                         fingerprint[f].count + 1}
    PROVE  AllRowsCounted'
<1> SUFFICES ASSUME NEW f \in Hash PROVE RowsCounted(f)'
  BY DEF AllRowsCounted
<1>1. OccurrencesOf(f)' = OccurrencesOf(f)
  <2>1. ASSUME NEW o \in OccId
        PROVE  (occurrence'[o] # None /\ occurrence'[o].fp = f)
                   <=> (occurrence[o] # None /\ occurrence[o].fp = f)
    OBVIOUS
  <2> QED BY <2>1 DEF OccurrencesOf
<1>2. UsersOf(f)' = UsersOf(f)
  <2>1. ASSUME NEW o \in OccurrencesOf(f) PROVE occurrence'[o].user = occurrence[o].user
    <3>1. o \in OccId /\ occurrence[o] # None
      BY DEF OccurrencesOf
    <3> QED BY <3>1
  <2> QED BY <1>1, <2>1 DEF UsersOf
<1>3. fingerprint[f].count \in Nat /\ Cardinality(OccurrencesOf(f)) \in Nat
  BY CountsAreNumbers DEF Inv, TablesInv, TablesTyped, FingerprintRow
<1> QED BY <1>1, <1>2, <1>3 DEF AllRowsCounted, RowsCounted

(* usp_Error_Capture adds a row, and counts a user it has not seen.        *)
LEMMA RecordCounts ==
    ASSUME Inv, AllRowsCounted, NEW f \in Hash, NEW o \in OccId,
           NEW u \in Users \cup {System}, NEW t \in TicketId \cup {None},
           occurrence[o] = None, RecordOccurrence(f, o, u, t)
    PROVE  AllRowsCounted'
<1> DEFINE row == [fp |-> f, user |-> u, ticket |-> t]
           isNew == u \in Users \ UsersOf(f)
           seen == [fingerprint[f] EXCEPT !.count = @ + 1,
                                          !.users = IF isNew THEN @ + 1 ELSE @]
<1>1. row \in OccurrenceRow /\ row.fp = f /\ row.user = u
  BY DEF OccurrenceRow
<1>2. row # None
  BY <1>1, RowsAssumption
<1>3. /\ occurrence' = [occurrence EXCEPT ![o] = row]
      /\ fingerprint' = [fingerprint EXCEPT ![f] = seen]
  BY DEF RecordOccurrence
<1>4. /\ fingerprint[f].count \in Nat /\ fingerprint[f].users \in Nat
      /\ seen.count = fingerprint[f].count + 1
      /\ seen.users = IF isNew THEN fingerprint[f].users + 1 ELSE fingerprint[f].users
  <2>1. fingerprint[f] \in FingerprintRow
    BY DEF Inv, TablesInv, TablesTyped
  <2> HIDE DEF isNew
  <2> QED BY <2>1 DEF FingerprintRow
<1> HIDE DEF row, seen
<1>5. /\ occurrence'[o] = row
      /\ \A p \in OccId \ {o} : occurrence'[p] = occurrence[p]
      /\ fingerprint'[f] = seen
      /\ \A g \in Hash \ {f} : fingerprint'[g] = fingerprint[g]
  BY <1>3 DEF Inv, TablesInv, TablesTyped
<1>6. OccurrencesOf(f)' = OccurrencesOf(f) \cup {o} /\ o \notin OccurrencesOf(f)
  BY <1>1, <1>2, <1>5 DEF OccurrencesOf
<1>7. RowsCounted(f) /\ IsFiniteSet(OccurrencesOf(f)) /\ IsFiniteSet(UsersOf(f))
      /\ Cardinality(OccurrencesOf(f)) \in Nat
  BY CountsAreNumbers DEF AllRowsCounted
<1>8. Cardinality(OccurrencesOf(f)') = Cardinality(OccurrencesOf(f)) + 1
  BY <1>6, <1>7, FS_AddElement
<1>9. UsersOf(f)' = UsersOf(f) \cup ({u} \cap Users)
  <2>1. ASSUME NEW p \in OccurrencesOf(f) PROVE occurrence'[p].user = occurrence[p].user
    <3>1. p \in OccId \ {o}
      BY <1>6 DEF OccurrencesOf
    <3> QED BY <1>5, <3>1
  <2>2. occurrence'[o].user = u
    BY <1>1, <1>5
  <2> QED BY <1>6, <2>1, <2>2 DEF UsersOf
<1>10. Cardinality(UsersOf(f)') = seen.users
  <2>1. CASE isNew
    <3>1. UsersOf(f)' = UsersOf(f) \cup {u} /\ u \notin UsersOf(f)
      BY <1>9, <2>1
    <3>2. Cardinality(UsersOf(f) \cup {u}) = Cardinality(UsersOf(f)) + 1
      BY <1>7, <3>1, FS_AddElement
    <3> QED BY <1>4, <1>7, <2>1, <3>1, <3>2 DEF RowsCounted
  <2>2. CASE ~isNew
    <3>1. UsersOf(f)' = UsersOf(f)
      BY <1>9, <2>2
    <3> QED BY <1>4, <1>7, <2>2, <3>1 DEF RowsCounted
  <2> QED BY <2>1, <2>2
<1>11. RowsCounted(f)'
  BY <1>4, <1>5, <1>7, <1>8, <1>10 DEF RowsCounted
<1>12. ASSUME NEW g \in Hash \ {f} PROVE RowsCounted(g)'
  <2>1. OccurrencesOf(g)' = OccurrencesOf(g)
    BY <1>1, <1>5 DEF OccurrencesOf
  <2>2. o \notin OccurrencesOf(g)
    BY DEF OccurrencesOf
  <2>3. UsersOf(g)' = UsersOf(g)
    <3>1. \A p \in OccurrencesOf(g) : occurrence'[p].user = occurrence[p].user
      BY <1>5, <2>2 DEF OccurrencesOf
    <3> QED BY <2>1, <3>1 DEF UsersOf
  <2> QED BY <1>5, <2>1, <2>3 DEF AllRowsCounted, RowsCounted
<1> QED BY <1>11, <1>12 DEF AllRowsCounted

(* No link is added, and a ticket that comes into being has none.          *)
LEMMA LinksStayCounted ==
    ASSUME AllLinksCounted, UNCHANGED links,
           \A t \in TicketId : ticket'[t] # None =>
               \/ ticket[t] # None /\ ticket'[t].linked = ticket[t].linked
               \/ LinkedTo(t) = {} /\ ticket'[t].linked = 0
    PROVE  AllLinksCounted'
<1> SUFFICES ASSUME NEW t \in TicketId PROVE LinksCounted(t)'
  BY DEF AllLinksCounted
<1>1. LinkedTo(t)' = LinkedTo(t)
  BY DEF LinkedTo
<1>2. Cardinality({}) = 0
  BY FS_EmptySet
<1> QED BY <1>1, <1>2 DEF AllLinksCounted, LinksCounted

(* A link is added to a ticket, and counted if it is new.                  *)
LEMMA LinkCounts ==
    ASSUME Inv, AllLinksCounted, NEW t \in TicketId, NEW o \in OccId, ticket[t] # None,
           links' = links \cup {<<t, o>>},
           ticket' = IF <<t, o>> \in links THEN ticket
                     ELSE [ticket EXCEPT ![t].linked = @ + 1]
    PROVE  AllLinksCounted'
<1> DEFINE counted == [ticket[t] EXCEPT !.linked = @ + 1]
<1>1. ticket[t] \in TicketRow /\ ticket \in [TicketId -> TicketRow \cup {None}]
  BY DEF Inv, TablesInv, TablesTyped
<1>2. counted.linked = ticket[t].linked + 1
  BY <1>1 DEF TicketRow
<1>3. ticket' = IF <<t, o>> \in links THEN ticket ELSE [ticket EXCEPT ![t] = counted]
  OBVIOUS
<1> HIDE DEF counted
<1>4. IsFiniteSet(LinkedTo(t))
  <2>1. LinkedTo(t) \subseteq OccId
    BY DEF LinkedTo
  <2> QED BY <2>1, IdsAssumption, FS_Subset
<1>5. LinkedTo(t)' = LinkedTo(t) \cup {o}
  BY DEF LinkedTo
<1>6. LinksCounted(t)'
  <2>1. CASE <<t, o>> \in links
    <3>1. LinkedTo(t)' = LinkedTo(t) /\ ticket' = ticket
      BY <1>3, <1>5, <2>1 DEF LinkedTo
    <3> QED BY <3>1 DEF AllLinksCounted, LinksCounted
  <2>2. CASE <<t, o>> \notin links
    <3>1. o \notin LinkedTo(t)
      BY <2>2 DEF LinkedTo
    <3>2. Cardinality(LinkedTo(t) \cup {o}) = Cardinality(LinkedTo(t)) + 1
      BY <1>4, <3>1, FS_AddElement
    <3>3. ticket'[t] = counted
      BY <1>1, <1>3, <2>2
    <3> QED BY <1>2, <1>5, <3>2, <3>3 DEF AllLinksCounted, LinksCounted
  <2> QED BY <2>1, <2>2
<1>7. ASSUME NEW u \in TicketId \ {t} PROVE LinksCounted(u)'
  <2>1. LinkedTo(u)' = LinkedTo(u)
    BY DEF LinkedTo
  <2>2. ticket'[u] = ticket[u]
    BY <1>1, <1>3
  <2> QED BY <2>1, <2>2 DEF AllLinksCounted, LinksCounted
<1> QED BY <1>6, <1>7 DEF AllLinksCounted

LEMMA NoLinksYet ==
    ASSUME SameProblem
    PROVE  /\ \A t \in TicketId : ticket[t] = None => LinkedTo(t) = {}
           /\ \A t \in TicketId, o \in OccId : occurrence[o] = None => <<t, o>> \notin links
BY DEF SameProblem, LinkedTo

LEMMA CaptureCounts ==
    ASSUME Inv, SameProblem, CountersExact, NEW s \in Sessions, NEW f \in Hash,
           NEW o \in OccId, NEW u \in Users \cup {System},
           CaptureAttached(s, f, o, u) \/ CaptureUnattached(s, f, o, u)
    PROVE  CountersExact'
<1>1. AllLinksCounted /\ AllRowsCounted
  BY CountersByRow
<1>2. CASE CaptureAttached(s, f, o, u)
  <2> DEFINE t == fingerprint[f].open
  <2>1. t \in TicketId /\ ticket[t] # None
    BY <1>2 DEF CaptureAttached, Inv, TablesInv, TablesTyped, FingerprintRow, OpenTicketLive
  <2>2. /\ links' = links \cup {<<t, o>>}
        /\ ticket' = [ticket EXCEPT ![t].linked = @ + 1]
        /\ occurrence[o] = None /\ RecordOccurrence(f, o, u, t)
    BY <1>2 DEF CaptureAttached
  <2> HIDE DEF t
  <2>3. <<t, o>> \notin links
    BY <2>1, <2>2, NoLinksYet
  <2>4. AllLinksCounted'
    BY <1>1, <2>1, <2>2, <2>3, LinkCounts
  <2>5. AllRowsCounted'
    BY <1>1, <2>1, <2>2, RecordCounts
  <2> QED BY <2>4, <2>5, CountersByRow, PTL
<1>3. CASE CaptureUnattached(s, f, o, u)
  <2>1. /\ UNCHANGED <<ticket, links>> /\ occurrence[o] = None
        /\ RecordOccurrence(f, o, u, None)
    BY <1>3 DEF CaptureUnattached
  <2>2. AllLinksCounted'
    BY <1>1, <2>1, LinksStayCounted
  <2>3. AllRowsCounted'
    BY <1>1, <2>1, RecordCounts
  <2> QED BY <2>2, <2>3, CountersByRow, PTL
<1> QED BY <1>2, <1>3

(* usp_Ticket_Create joins an occurrence to the ticket found.              *)
LEMMA JoinCounts ==
    ASSUME Inv, CountersExact, NEW s \in Sessions, LinkToExisting(s)
    PROVE  CountersExact'
<1> DEFINE o == session[s].occ
           t == session[s].ticket
           joined == [occurrence[o] EXCEPT !.ticket = t]
<1>1. /\ t \in TicketId /\ ticket[t] # None
      /\ o \in OccId /\ occurrence[o] # None /\ occurrence[o] \in OccurrenceRow
  BY Remembered DEF LinkToExisting, At, Prepared
<1>2. /\ joined \in OccurrenceRow
      /\ joined.fp = occurrence[o].fp /\ joined.user = occurrence[o].user
  BY <1>1 DEF OccurrenceRow
<1>3. /\ links' = links \cup {<<t, o>>}
      /\ ticket' = IF <<t, o>> \in links THEN ticket
                   ELSE [ticket EXCEPT ![t].linked = @ + 1]
      /\ occurrence' = [occurrence EXCEPT ![o] = joined]
      /\ UNCHANGED fingerprint
  BY DEF LinkToExisting
<1> HIDE DEF o, t, joined
<1>4. AllLinksCounted'
  BY <1>1, <1>3, CountersByRow, LinkCounts
<1>5. AllRowsCounted'
  <2>1. occurrence'[o] = joined /\ \A p \in OccId \ {o} : occurrence'[p] = occurrence[p]
    BY <1>1, <1>3 DEF Inv, TablesInv, TablesTyped
  <2>2. joined # None
    BY <1>2, RowsAssumption
  <2>3. \A p \in OccId : /\ occurrence'[p] # None <=> occurrence[p] # None
                         /\ occurrence[p] # None =>
                               /\ occurrence'[p].fp = occurrence[p].fp
                               /\ occurrence'[p].user = occurrence[p].user
    BY <1>1, <1>2, <2>1, <2>2
  <2> QED BY <1>3, <2>3, CountersByRow, RowsStayCounted
<1> QED BY <1>4, <1>5, CountersByRow, PTL

(* A new ticket starts with the one link it counts, a manual one with none. *)
LEMMA InsertCounts ==
    ASSUME Inv, SameProblem, CountersExact, NEW s \in Sessions, NEW t \in TicketId,
           InsertTicket(s, t)
    PROVE  CountersExact'
<1> DEFINE o == session[s].occ
           f == occurrence[o].fp
           new == NewTicket(f, session[s].by, 1)
           joined == [occurrence[o] EXCEPT !.ticket = t]
           known == [fingerprint[f] EXCEPT !.open = t,
                        !.triage = IF @ = "new" THEN "acknowledged" ELSE @]
<1>1. o \in OccId /\ occurrence[o] # None /\ occurrence[o] \in OccurrenceRow /\ f \in Hash
  BY Remembered DEF InsertTicket, At, Prepared, OccurrenceRow
<1>2. /\ joined \in OccurrenceRow /\ joined.fp = f /\ joined.user = occurrence[o].user
      /\ known.users = fingerprint[f].users /\ known.count = fingerprint[f].count
      /\ new.linked = 1
  <2>1. fingerprint[f] \in FingerprintRow
    BY <1>1 DEF Inv, TablesInv, TablesTyped
  <2>2. known.users = fingerprint[f].users /\ known.count = fingerprint[f].count
    BY <2>1 DEF FingerprintRow
  <2>3. joined \in OccurrenceRow /\ joined.fp = f /\ joined.user = occurrence[o].user
    BY <1>1 DEF OccurrenceRow
  <2> QED BY <2>2, <2>3 DEF NewTicket
<1>3. /\ ticket[t] = None
      /\ ticket' = [ticket EXCEPT ![t] = new]
      /\ links' = links \cup {<<t, o>>}
      /\ occurrence' = [occurrence EXCEPT ![o] = joined]
      /\ fingerprint' = [fingerprint EXCEPT ![f] = known]
  BY DEF InsertTicket, OpenTicket
<1> HIDE DEF o, f, new, joined, known
<1>4. AllLinksCounted'
  <2>1. ASSUME NEW u \in TicketId PROVE LinksCounted(u)'
    <3>1. CASE u = t
      <4>1. LinkedTo(t) = {}
        BY <1>3, NoLinksYet
      <4>2. LinkedTo(t)' = {o}
        BY <1>1, <1>3, <4>1 DEF LinkedTo
      <4>3. Cardinality({o}) = 1
        BY FS_Singleton
      <4>4. ticket'[t] = new
        BY <1>3 DEF Inv, TablesInv, TablesTyped
      <4> QED BY <1>2, <3>1, <4>2, <4>3, <4>4 DEF LinksCounted
    <3>2. CASE u # t
      <4>1. LinkedTo(u)' = LinkedTo(u)
        BY <1>3, <3>2 DEF LinkedTo
      <4>2. ticket'[u] = ticket[u]
        BY <1>3, <3>2 DEF Inv, TablesInv, TablesTyped
      <4> QED BY <4>1, <4>2, CountersByRow DEF AllLinksCounted, LinksCounted
    <3> QED BY <3>1, <3>2
  <2> QED BY <2>1 DEF AllLinksCounted
<1>5. AllRowsCounted'
  <2>1. occurrence'[o] = joined /\ \A p \in OccId \ {o} : occurrence'[p] = occurrence[p]
    BY <1>1, <1>3 DEF Inv, TablesInv, TablesTyped
  <2>2. joined # None
    BY <1>2, RowsAssumption
  <2>3. \A p \in OccId : /\ occurrence'[p] # None <=> occurrence[p] # None
                         /\ occurrence[p] # None =>
                               /\ occurrence'[p].fp = occurrence[p].fp
                               /\ occurrence'[p].user = occurrence[p].user
    BY <1>1, <1>2, <2>1, <2>2 DEF f
  <2>4. \A g \in Hash : /\ fingerprint'[g].users = fingerprint[g].users
                        /\ fingerprint'[g].count = fingerprint[g].count
    BY <1>1, <1>2, <1>3 DEF Inv, TablesInv, TablesTyped
  <2> QED BY <2>3, <2>4, CountersByRow, RowsStayCounted
<1> QED BY <1>4, <1>5, CountersByRow, PTL

(* The steps that leave occurrences, links and counters alone.             *)
LEMMA OtherCounts ==
    ASSUME Inv, SameProblem, CountersExact, UNCHANGED <<occurrence, links>>,
           \A t \in TicketId : ticket'[t] # None =>
               \/ ticket[t] # None /\ ticket'[t].linked = ticket[t].linked
               \/ ticket[t] = None /\ ticket'[t].linked = 0,
           \A f \in Hash : /\ fingerprint'[f].users = fingerprint[f].users
                           /\ fingerprint'[f].count \in {fingerprint[f].count,
                                                         fingerprint[f].count + 1}
    PROVE  CountersExact'
<1>1. AllLinksCounted'
  BY CountersByRow, NoLinksYet, LinksStayCounted
<1>2. AllRowsCounted'
  BY CountersByRow, RowsStayCounted
<1> QED BY <1>1, <1>2, CountersByRow, PTL

LEMMA MoveCounts ==
    ASSUME Inv, SameProblem, CountersExact, NEW t \in TicketId, ticket[t] # None,
           NEW from, NEW to \in Status, NEW assign, NEW by, MoveTicket(t, from, to, assign, by)
    PROVE  CountersExact'
<1> DEFINE old == ticket[t]
           f == old.fp
           who == IF assign # None THEN assign ELSE old.assignee
           again == IF to = "reopened" THEN old.reopens + 1 ELSE old.reopens
           fixed == \/ to = "resolved"
                    \/ old.resolved /\ to # "reopened"
           dead == \/ to \in Terminal
                   \/ old.closed /\ to # "reopened"
           moved == [old EXCEPT !.status = to, !.assignee = who, !.reopens = again,
                                !.resolved = fixed, !.closed = dead]
<1>1. ticket' = [ticket EXCEPT ![t] = moved]
  BY DEF MoveTicket, ClosedAfter
<1>2. old \in TicketRow /\ f \in Hash \cup {None}
  BY DEF Inv, TablesInv, TablesTyped, TicketRow
<1>3. moved.linked = old.linked
  <2> HIDE DEF who, again, fixed, dead
  <2> QED BY <1>2 DEF TicketRow
<1>4. \A u \in TicketId : ticket'[u] # None =>
          \/ ticket[u] # None /\ ticket'[u].linked = ticket[u].linked
          \/ ticket[u] = None /\ ticket'[u].linked = 0
  <2> HIDE DEF moved
  <2>1. ticket'[t].linked = ticket[t].linked
        /\ \A u \in TicketId \ {t} : ticket'[u] = ticket[u] /\ ticket'[u] \in TicketRow \cup {None}
    BY <1>1, <1>3 DEF Inv, TablesInv, TablesTyped
  <2>2. ASSUME NEW u \in TicketId, u # t, ticket'[u] # None, ticket[u] = None PROVE FALSE
    BY <2>1, <2>2
  <2>3. \A u \in TicketId : ticket'[u] # None => ticket[u] # None
    BY <2>2
  <2> QED BY <2>1, <2>3
<1>5. \A g \in Hash : /\ fingerprint'[g].users = fingerprint[g].users
                      /\ fingerprint'[g].count = fingerprint[g].count
  <2> DEFINE solved == [fingerprint[f] EXCEPT
                !.open = None,
                !.triage = IF @ \in {"new", "acknowledged"} THEN "resolved" ELSE @]
             back == [fingerprint[f] EXCEPT !.open = t, !.triage = "acknowledged"]
  <2>1. \/ fingerprint' = fingerprint
        \/ f # None /\ fingerprint' = [fingerprint EXCEPT ![f] = solved]
        \/ f # None /\ fingerprint' = [fingerprint EXCEPT ![f] = back]
    BY DEF MoveTicket, ProblemAfter
  <2>2. f # None => /\ solved.users = fingerprint[f].users /\ solved.count = fingerprint[f].count
                    /\ back.users = fingerprint[f].users /\ back.count = fingerprint[f].count
    <3>1. f # None => fingerprint[f] \in FingerprintRow
      BY <1>2 DEF Inv, TablesInv, TablesTyped
    <3> QED BY <3>1 DEF FingerprintRow
  <2> HIDE DEF solved, back
  <2> QED BY <1>2, <2>1, <2>2 DEF Inv, TablesInv, TablesTyped
<1> HIDE DEF moved
<1>6. UNCHANGED <<occurrence, links>>
  BY DEF MoveTicket
<1> QED BY <1>4, <1>5, <1>6, OtherCounts

LEMMA AssignCounts ==
    ASSUME Inv, SameProblem, CountersExact, NEW s \in Sessions, AssignCommit(s)
    PROVE  CountersExact'
<1> DEFINE t == session[s].ticket
           given == [ticket[t] EXCEPT !.assignee = session[s].assign]
<1>1. t \in TicketId /\ ticket[t] # None /\ ticket[t] \in TicketRow
  BY Remembered DEF AssignCommit, At, Prepared
<1>2. given.linked = ticket[t].linked
  BY <1>1 DEF TicketRow
<1>3. /\ ticket' = [ticket EXCEPT ![t] = given]
      /\ UNCHANGED <<fingerprint, occurrence, links>>
  BY DEF AssignCommit
<1> HIDE DEF t, given
<1>4. \A u \in TicketId : ticket'[u] # None =>
          \/ ticket[u] # None /\ ticket'[u].linked = ticket[u].linked
          \/ ticket[u] = None /\ ticket'[u].linked = 0
  BY <1>1, <1>2, <1>3 DEF Inv, TablesInv, TablesTyped
<1> QED BY <1>3, <1>4, OtherCounts

LEMMA ManualCounts ==
    ASSUME Inv, SameProblem, CountersExact, NEW s \in Sessions, NEW t \in TicketId,
           NEW u \in Users, CreateManual(s, t, u)
    PROVE  CountersExact'
<1> DEFINE new == NewTicket(None, u, 0)
<1>1. new.linked = 0
  BY DEF NewTicket
<1>2. /\ ticket' = [ticket EXCEPT ![t] = new] /\ ticket[t] = None
      /\ UNCHANGED <<fingerprint, occurrence, links>>
  BY DEF CreateManual, OpenTicket
<1> HIDE DEF new
<1>3. \A v \in TicketId : ticket'[v] # None =>
          \/ ticket[v] # None /\ ticket'[v].linked = ticket[v].linked
          \/ ticket[v] = None /\ ticket'[v].linked = 0
  BY <1>1, <1>2 DEF Inv, TablesInv, TablesTyped
<1> QED BY <1>2, <1>3, OtherCounts

(* usp_Fingerprint_Triage and a sighting that sampling drops.              *)
LEMMA ProblemOnlyCounts ==
    ASSUME Inv, SameProblem, CountersExact, NEW s \in Sessions, NEW f \in Hash,
           CaptureSampledOut(s, f) \/ \E state \in TriageChoices : Triage(s, f, state)
    PROVE  CountersExact'
<1>1. UNCHANGED <<ticket, occurrence, links>>
  BY DEF CaptureSampledOut, Triage
<1>2. fingerprint[f] \in FingerprintRow
  BY DEF Inv, TablesInv, TablesTyped
<1>3. PICK row : /\ fingerprint' = [fingerprint EXCEPT ![f] = row]
                 /\ row.users = fingerprint[f].users
                 /\ row.count \in {fingerprint[f].count, fingerprint[f].count + 1}
  <2>1. CASE CaptureSampledOut(s, f)
    <3> DEFINE row == [fingerprint[f] EXCEPT !.count = @ + 1]
    <3>1. row.users = fingerprint[f].users /\ row.count = fingerprint[f].count + 1
      BY <1>2 DEF FingerprintRow
    <3>2. fingerprint' = [fingerprint EXCEPT ![f] = row]
      BY <2>1 DEF CaptureSampledOut
    <3> HIDE DEF row
    <3> QED BY <3>1, <3>2
  <2>2. CASE \E state \in TriageChoices : Triage(s, f, state)
    <3> PICK state \in TriageChoices : Triage(s, f, state)
      BY <2>2
    <3> DEFINE row == [fingerprint[f] EXCEPT !.triage = state]
    <3>1. row.users = fingerprint[f].users /\ row.count = fingerprint[f].count
      BY <1>2 DEF FingerprintRow
    <3>2. fingerprint' = [fingerprint EXCEPT ![f] = row]
      BY DEF Triage
    <3> HIDE DEF row
    <3> QED BY <3>1, <3>2
  <2> QED BY <2>1, <2>2
<1>4. \A g \in Hash : /\ fingerprint'[g].users = fingerprint[g].users
                      /\ fingerprint'[g].count \in {fingerprint[g].count,
                                                    fingerprint[g].count + 1}
  BY <1>3 DEF Inv, TablesInv, TablesTyped
<1> QED BY <1>1, <1>4, OtherCounts

LEMMA StepCounts ==
    ASSUME Inv, SameProblem, CountersExact, NEW s \in Sessions, Step(s)
    PROVE  CountersExact'
<1>1. CASE Elsewhere(s)
  <2>1. CASE \E f \in Hash, o \in OccId, u \in Users \cup {System} : CaptureUnattached(s, f, o, u)
    BY <2>1, CaptureCounts
  <2>2. CASE \/ \E f \in Hash : CaptureSampledOut(s, f)
             \/ \E f \in Hash, state \in TriageChoices : Triage(s, f, state)
    BY <2>2, ProblemOnlyCounts
  <2>3. CASE UNCHANGED tables
    <3>1. UNCHANGED <<fingerprint, occurrence, ticket, links>>
      BY <2>3 DEF tables
    <3> QED BY <3>1 DEF CountersExact, LinkedTo, UsersOf, OccurrencesOf
  <2> QED BY <1>1, <2>1, <2>2, <2>3 DEF Elsewhere
<1>2. CASE \E f \in Hash, o \in OccId, u \in Users \cup {System} : CaptureAttached(s, f, o, u)
  BY <1>2, CaptureCounts
<1>3. CASE LinkToExisting(s)
  BY <1>3, JoinCounts
<1>4. CASE \E t \in TicketId : InsertTicket(s, t) \/ \E u \in Users : CreateManual(s, t, u)
  BY <1>4, InsertCounts, ManualCounts
<1>5. CASE ApplyStatus(s) \/ ReplyApply(s)
  <2> DEFINE c == session[s]
  <2>1. c.ticket \in TicketId /\ ticket[c.ticket] # None /\ c.to \in Status
    BY <1>5, Remembered DEF ApplyStatus, ReplyApply, At, Prepared, SessionState
  <2>2. \/ MoveTicket(c.ticket, c.from, c.to, c.assign, c.by)
        \/ MoveTicket(c.ticket, c.from, c.to, None, c.by)
    BY <1>5 DEF ApplyStatus, ReplyApply
  <2> HIDE DEF c
  <2> QED BY <2>1, <2>2, MoveCounts
<1>6. CASE AssignCommit(s)
  BY <1>6, AssignCounts
<1> QED BY <1>1, <1>2, <1>3, <1>4, <1>5, <1>6, Writers

(* LinkedOccurrenceCount, DistinctUserCount and OccurrenceCount, which the *)
(* procedures keep by increments, agree with the rows they count, for any  *)
(* number of sessions between whose look-ups and inserts others commit.    *)
THEOREM CountersAgree == Spec => []CountersExact
<1>1. Init => CountersExact
  <2> SUFFICES ASSUME Init PROVE CountersExact
    OBVIOUS
  <2>1. Cardinality({}) = 0
    BY FS_EmptySet
  <2>2. \A f \in Hash : OccurrencesOf(f) = {} /\ UsersOf(f) = {}
    <3>1. \A o \in OccId : occurrence[o] = None
      BY DEF Init
    <3>2. \A f \in Hash : OccurrencesOf(f) = {}
      BY <3>1 DEF OccurrencesOf
    <3> QED BY <3>2 DEF UsersOf
  <2>3. \A f \in Hash : fingerprint[f].users = 0 /\ fingerprint[f].count = 0
    BY DEF Init
  <2>4. \A t \in TicketId : ticket[t] = None
    BY DEF Init
  <2> QED BY <2>1, <2>2, <2>3, <2>4 DEF CountersExact
<1>2. Inv /\ SameProblem /\ CountersExact /\ [Next]_vars => CountersExact'
  <2>1. ASSUME UNCHANGED vars, CountersExact PROVE CountersExact'
    <3>1. UNCHANGED <<fingerprint, occurrence, ticket, links>>
      BY <2>1 DEF vars
    <3> QED BY <2>1, <3>1 DEF CountersExact, LinkedTo, UsersOf, OccurrencesOf
  <2> QED BY <2>1, StepCounts DEF Next
<1> QED BY <1>1, <1>2, Invariance, DeduplicationSafe, PTL DEF Spec

----------------------------------------------------------------------------
(* Notifications.                                                          *)

Notifying == {"notify_created", "notify_status"}

Owed(t, r) == ticket[t].reporter # System /\ (r.seq = 1 \/ r.by # ticket[t].reporter)

Queued(t, r) ==
    \E n \in outbox : n.ticket = t /\ n.seq = r.seq /\ n.to = ticket[t].reporter

Sending(s, t, r) ==
    session[s].ticket = t /\ session[s].seq = r.seq /\ session[s].pc \in Notifying

LEMMA QueuedByRow ==
    EveryChangeQueued <=>
        \A t \in TicketId : \A r \in StatusRows(t) :
            Owed(t, r) => Queued(t, r) \/ \E s \in Sessions : Sending(s, t, r)
BY DEF EveryChangeQueued, Owed, Queued, Sending, Notifying

\* A session that is about to queue the notification of a change knows who wrote
\* the row, which is not the first.
Knows(s) ==
    /\ session[s].seq \in Sequences(session[s].ticket) \ {1}
    /\ \A r \in history[session[s].ticket] :
          r.seq = session[s].seq => r.by = session[s].by

SendersKnow == \A s \in Sessions : At(s, "notify_status") => Knows(s)

(* Rows are added under numbers that are not taken.                        *)
RowsAdded ==
    \A t \in TicketId :
        /\ history[t] \subseteq history'[t]
        /\ \A r \in history'[t] \ history[t] : r.seq \notin Sequences(t)

\* Rows, their tickets' reporters and the sessions other than s stay.
Undisturbed(s) ==
    /\ RowsAdded
    /\ \A t \in TicketId : ticket[t] # None =>
          ticket'[t] # None /\ ticket'[t].reporter = ticket[t].reporter
    /\ outbox \subseteq outbox'
    /\ \A r \in Sessions \ {s} : session'[r] = session[r]

\* A step that writes no row and neither is nor becomes a notification's.
Quiet(s) ==
    /\ UNCHANGED history /\ outbox \subseteq outbox'
    /\ session[s].pc \notin Notifying /\ session'[s].pc # "notify_status"
    /\ \A r \in Sessions \ {s} : session'[r] = session[r]

LEMMA StepShapes ==
    ASSUME Inv, ~Crashes, NEW s \in Sessions, Step(s)
    PROVE  \/ Quiet(s)
           \/ NotifyCreated(s) \/ NotifyStatus(s)
           \/ ApplyStatus(s) \/ ReplyApply(s) \/ AssignCommit(s)
           \/ \E t \in TicketId : InsertTicket(s, t) \/ \E u \in Users : CreateManual(s, t, u)
<1>1. session \in [Sessions -> SessionState] /\ session[s] \in SessionState
  BY DEF Inv, TypeOK
<1>2. ASSUME NEW c, Goto(s, c)
      PROVE  session'[s] = c /\ \A r \in Sessions \ {s} : session'[r] = session[r]
  BY <1>1, <1>2 DEF Goto
<1>3. ASSUME NEW c, Goto(s, c), c.pc # "notify_status", session[s].pc \notin Notifying,
             UNCHANGED history, outbox \subseteq outbox'
      PROVE  Quiet(s)
  BY <1>2, <1>3 DEF Quiet
<1>4. CASE \E f \in Hash, o \in OccId, u \in Users \cup {System} :
              CaptureAttached(s, f, o, u) \/ CaptureUnattached(s, f, o, u)
  <2> PICK f \in Hash, o \in OccId, u \in Users \cup {System} :
              CaptureAttached(s, f, o, u) \/ CaptureUnattached(s, f, o, u)
    BY <1>4
  <2> DEFINE c == IF fingerprint[f].triage = "muted" THEN Idle
                  ELSE [Idle EXCEPT !.pc = "evaluate", !.occ = o]
  <2>1. CASE CaptureAttached(s, f, o, u)
    BY <2>1 DEF CaptureAttached, Quiet, Idle, Notifying
  <2>2. CASE CaptureUnattached(s, f, o, u)
    <3>1. c.pc \in {"idle", "evaluate"} /\ session[s].pc = "idle"
      BY <2>2 DEF Idle, CaptureUnattached
    <3>2. Goto(s, c) /\ UNCHANGED <<history, outbox>>
      BY <2>2 DEF CaptureUnattached
    <3> HIDE DEF c
    <3> QED BY <1>3, <3>1, <3>2 DEF Notifying
  <2> QED BY <2>1, <2>2
<1>5. CASE \/ \E f \in Hash : CaptureSampledOut(s, f)
           \/ \E f \in Hash, state \in TriageChoices : Triage(s, f, state)
  BY <1>5 DEF CaptureSampledOut, Triage, Quiet, Idle, Notifying
<1>6. CASE RuleFires(s) \/ \E o \in OccId, u \in Users \cup {System} : ReportIssue(s, o, u)
  <2>1. PICK o, by : CheckOpenTicket(s, o, by)
    BY <1>6 DEF RuleFires, ReportIssue
  <2> DEFINE t == fingerprint[occurrence[o].fp].open
             live == t # None /\ ticket[t].status \notin Terminal
             c == [Idle EXCEPT !.pc = IF live THEN "link" ELSE "insert",
                               !.occ = o, !.by = by,
                               !.ticket = IF live THEN t ELSE None]
  <2>2. Goto(s, c)
    BY <2>1 DEF CheckOpenTicket
  <2>3. c.pc \in {"link", "insert"}
    <3> HIDE DEF live
    <3> QED BY DEF Idle
  <2>4. UNCHANGED <<tables, outbox>> /\ session[s].pc \in {"evaluate", "idle"}
    BY <1>6 DEF RuleFires, ReportIssue, At, Idle
  <2> HIDE DEF c
  <2> QED BY <1>3, <2>2, <2>3, <2>4 DEF Notifying, tables
<1>7. CASE NoRuleFires(s) \/ LinkToExisting(s) \/ NotifyAssigned(s) \/ ReplyCommit(s)
  <2>1. Goto(s, Idle) /\ UNCHANGED history /\ outbox \subseteq outbox'
    BY <1>7 DEF NoRuleFires, LinkToExisting, NotifyAssigned, ReplyCommit, tables
  <2>2. session[s].pc \in {"evaluate", "link", "notify_assigned", "reply"}
    BY <1>7 DEF NoRuleFires, LinkToExisting, NotifyAssigned, ReplyCommit, At
  <2> QED BY <1>3, <2>1, <2>2 DEF Notifying, Idle
<1>8. CASE \E t \in TicketId, to \in Status, assign \in Agents \cup {None}, by \in Agents :
              ChangeStatus(s, t, to, assign, by)
  <2> PICK t \in TicketId, to \in Status, assign \in Agents \cup {None}, by \in Agents :
              ChangeStatus(s, t, to, assign, by)
    BY <1>8
  <2> DEFINE c == [Idle EXCEPT !.pc = "apply", !.ticket = t, !.by = by, !.to = to,
                               !.from = ticket[t].status, !.assign = assign]
  <2>1. c.pc = "apply"
    BY DEF Idle
  <2>2. Goto(s, c) /\ session[s].pc = "idle" /\ UNCHANGED <<tables, outbox>>
    BY DEF ChangeStatus, Idle
  <2> HIDE DEF c
  <2> QED BY <1>3, <2>1, <2>2 DEF Notifying, tables
<1>9. CASE \E t \in TicketId, agent \in Agents \cup {None}, by \in Agents :
              Assign(s, t, agent, by)
  <2> PICK t \in TicketId, agent \in Agents \cup {None}, by \in Agents : Assign(s, t, agent, by)
    BY <1>9
  <2> DEFINE c == [Idle EXCEPT !.pc = "assign", !.ticket = t, !.by = by,
                               !.from = ticket[t].status, !.assign = agent]
  <2>1. c.pc = "assign"
    BY DEF Idle
  <2>2. Goto(s, c) /\ session[s].pc = "idle" /\ UNCHANGED <<tables, outbox>>
    BY DEF Assign, Idle
  <2> HIDE DEF c
  <2> QED BY <1>3, <2>1, <2>2 DEF Notifying, tables
<1>10. CASE \E t \in TicketId, u \in Users : Reply(s, t, u)
  <2> PICK t \in TicketId, u \in Users : Reply(s, t, u)
    BY <1>10
  <2> DEFINE c == [Idle EXCEPT !.pc = "reply", !.ticket = t, !.by = u]
  <2>1. c.pc = "reply"
    BY DEF Idle
  <2>2. Goto(s, c) /\ session[s].pc = "idle" /\ UNCHANGED <<tables, outbox>>
    BY DEF Reply, Idle
  <2> HIDE DEF c
  <2> QED BY <1>3, <2>1, <2>2 DEF Notifying, tables
<1>11. CASE AdvanceBegin(s) \/ AdvanceSkip(s) \/ ReplyResume(s)
  <2> DEFINE old == session[s]
             now == ticket[old.ticket].status
             whom == ticket[old.ticket].assignee
             a == [old EXCEPT !.pc = "apply", !.to = "assigned", !.from = now]
             b == [old EXCEPT !.pc = "notify_assigned"]
             d == [old EXCEPT !.pc = "reply_apply", !.to = "in_progress",
                              !.from = now, !.tell = whom]
  <2>1. Goto(s, a) \/ Goto(s, b) \/ Goto(s, d)
    BY <1>11 DEF AdvanceBegin, AdvanceSkip, ReplyResume
  <2>2. old.pc \in {"advance", "reply"} /\ UNCHANGED <<tables, outbox>>
    BY <1>11 DEF AdvanceBegin, AdvanceSkip, ReplyResume, At
  <2>3. a.pc = "apply" /\ b.pc = "notify_assigned" /\ d.pc = "reply_apply"
    <3> HIDE DEF now, whom
    <3> QED BY <1>1 DEF SessionState
  <2> HIDE DEF a, b, d
  <2> QED BY <1>3, <2>1, <2>2, <2>3 DEF Notifying, tables
<1>12. ~Crash(s)
  BY DEF Crash
<1> QED BY <1>4, <1>5, <1>6, <1>7, <1>8, <1>9, <1>10, <1>11, <1>12 DEF Step

(* No step takes a ticket or its reporter away.                            *)
LEMMA ReportersStay ==
    ASSUME Inv, NEW s \in Sessions, Step(s)
    PROVE  \A t \in TicketId : ticket[t] # None =>
              ticket'[t] # None /\ ticket'[t].reporter = ticket[t].reporter
<1>1. ticket \in [TicketId -> TicketRow \cup {None}]
  BY DEF Inv, TypeOK
<1>2. ASSUME NEW t \in TicketId, NEW row, ticket' = [ticket EXCEPT ![t] = row],
             ticket[t] # None => row # None /\ row.reporter = ticket[t].reporter
      PROVE  \A u \in TicketId : ticket[u] # None =>
                 ticket'[u] # None /\ ticket'[u].reporter = ticket[u].reporter
  BY <1>1, <1>2
<1>3. ASSUME NEW t \in TicketId, ticket[t] # None,
             ticket' \in {ticket, [ticket EXCEPT ![t].linked = @ + 1]}
      PROVE  \A u \in TicketId : ticket[u] # None =>
                 ticket'[u] # None /\ ticket'[u].reporter = ticket[u].reporter
  <2> DEFINE row == [ticket[t] EXCEPT !.linked = @ + 1]
  <2>1. ticket[t] \in TicketRow
    BY <1>1, <1>3
  <2>2. row \in [fp : Hash \cup {None}, status : Status, reporter : Person,
                 assignee : Agents \cup {None}, linked : Nat, reopens : Nat,
                 resolved : BOOLEAN, closed : BOOLEAN]
        /\ row.reporter = ticket[t].reporter
    BY <2>1 DEF TicketRow
  <2>3. row # None
    BY <2>2, RowsAssumption DEF TicketRow
  <2>4. ticket' = ticket \/ ticket' = [ticket EXCEPT ![t] = row]
    BY <1>3
  <2> HIDE DEF row
  <2> QED BY <1>2, <2>2, <2>3, <2>4
<1>4. CASE Elsewhere(s)
  BY <1>4 DEF Elsewhere, CaptureUnattached, CaptureSampledOut, Triage, tables
<1>5. CASE \E f \in Hash, o \in OccId, u \in Users \cup {System} : CaptureAttached(s, f, o, u)
  <2> PICK f \in Hash, o \in OccId, u \in Users \cup {System} : CaptureAttached(s, f, o, u)
    BY <1>5
  <2> DEFINE t == fingerprint[f].open
  <2>1. t \in TicketId /\ ticket[t] # None
    BY DEF CaptureAttached, Inv, TablesInv, TablesTyped, FingerprintRow, OpenTicketLive
  <2>2. ticket' = [ticket EXCEPT ![t].linked = @ + 1]
    BY DEF CaptureAttached
  <2> HIDE DEF t
  <2> QED BY <1>3, <2>1, <2>2
<1>6. CASE LinkToExisting(s)
  <2> DEFINE t == session[s].ticket
  <2>1. t \in TicketId /\ ticket[t] # None
    BY <1>6, Remembered DEF LinkToExisting, At, Prepared
  <2>2. ticket' \in {ticket, [ticket EXCEPT ![t].linked = @ + 1]}
    BY <1>6 DEF LinkToExisting
  <2> HIDE DEF t
  <2> QED BY <1>3, <2>1, <2>2
<1>7. CASE \E t \in TicketId : InsertTicket(s, t) \/ \E u \in Users : CreateManual(s, t, u)
  <2> PICK t \in TicketId : InsertTicket(s, t) \/ \E u \in Users : CreateManual(s, t, u)
    BY <1>7
  <2>1. PICK row : ticket[t] = None /\ ticket' = [ticket EXCEPT ![t] = row]
    BY DEF InsertTicket, CreateManual, OpenTicket
  <2> QED BY <1>2, <2>1
<1>8. CASE ApplyStatus(s) \/ ReplyApply(s)
  <2> DEFINE c == session[s]
  <2>1. c.ticket \in TicketId /\ ticket[c.ticket] # None /\ ticket[c.ticket] \in TicketRow
        /\ c.to \in Status /\ c.assign \in Agents \cup {None}
    BY <1>8, Remembered DEF ApplyStatus, ReplyApply, At, Prepared, SessionState
  <2>2. PICK assign \in Agents \cup {None} :
               MoveTicket(c.ticket, c.from, c.to, assign, c.by)
    BY <1>8, <2>1 DEF ApplyStatus, ReplyApply
  <2> HIDE DEF c
  <2> DEFINE old == ticket[c.ticket]
             who == IF assign # None THEN assign ELSE old.assignee
             again == IF c.to = "reopened" THEN old.reopens + 1 ELSE old.reopens
             fixed == \/ c.to = "resolved"
                      \/ old.resolved /\ c.to # "reopened"
             dead == \/ c.to \in Terminal
                     \/ old.closed /\ c.to # "reopened"
             moved == [old EXCEPT !.status = c.to, !.assignee = who, !.reopens = again,
                                  !.resolved = fixed, !.closed = dead]
  <2>3. ticket' = [ticket EXCEPT ![c.ticket] = moved]
    BY <2>2 DEF MoveTicket, ClosedAfter
  <2>4. /\ who \in Agents \cup {None} /\ again \in Nat
        /\ fixed \in BOOLEAN /\ dead \in BOOLEAN
    BY <2>1 DEF TicketRow
  <2> HIDE DEF who, again, fixed, dead
  <2>5. moved \in TicketRow /\ moved.reporter = old.reporter
    BY <2>1, <2>4 DEF TicketRow
  <2>6. moved # None
    BY <2>5, RowsAssumption
  <2> HIDE DEF moved
  <2> QED BY <1>2, <2>1, <2>3, <2>5, <2>6
<1>9. CASE AssignCommit(s)
  <2> DEFINE c == session[s]
             given == [ticket[c.ticket] EXCEPT !.assignee = c.assign]
  <2>1. c.ticket \in TicketId /\ ticket[c.ticket] \in TicketRow /\ c.assign \in Agents \cup {None}
    BY <1>9, Remembered DEF AssignCommit, At, Prepared, SessionState
  <2>2. given \in TicketRow /\ given.reporter = ticket[c.ticket].reporter
    BY <2>1 DEF TicketRow
  <2>3. ticket' = [ticket EXCEPT ![c.ticket] = given]
    BY <1>9 DEF AssignCommit
  <2>4. given # None
    BY <2>2, RowsAssumption
  <2> HIDE DEF given, c
  <2> QED BY <1>2, <2>1, <2>2, <2>3, <2>4
<1> QED BY <1>4, <1>5, <1>6, <1>7, <1>8, <1>9, Writers

(* A row is appended under a number that is not taken.                     *)
LEMMA AppendedRow ==
    ASSUME Inv, NEW t \in TicketId, NEW row,
           row.seq = NextSequenceNo(t),
           history' = [history EXCEPT ![t] = @ \cup {row}]
    PROVE  RowsAdded /\ history'[t] = history[t] \cup {row} /\ row.seq \notin Sequences(t)
<1>1. /\ Cardinality(history[t]) \in Nat /\ NextSequenceNo(t) = Cardinality(history[t]) + 1
      /\ Sequences(t) = 1 .. Cardinality(history[t])
  BY NextSequence DEF Inv, TablesInv, NumberedHistory, GaplessHistory
<1>2. row.seq \notin Sequences(t)
  BY <1>1
<1>3. /\ history'[t] = history[t] \cup {row}
      /\ \A u \in TicketId \ {t} : history'[u] = history[u]
  BY DEF Inv, TypeOK
<1> QED BY <1>2, <1>3 DEF RowsAdded

LEMMA FirstRowAdded ==
    ASSUME Inv, NEW s \in Sessions, NEW t \in TicketId,
           InsertTicket(s, t) \/ \E u \in Users : CreateManual(s, t, u)
    PROVE  /\ RowsAdded /\ outbox' = outbox
           /\ history[t] = {}
           /\ \A r \in history'[t] : r.seq = 1
           /\ \A u \in TicketId \ {t} : history'[u] = history[u]
           /\ Goto(s, [Idle EXCEPT !.pc = "notify_created", !.ticket = t, !.seq = 1])
<1>1. PICK reporter : /\ history' = [history EXCEPT ![t] = {FirstRow(reporter)}]
                      /\ ticket[t] = None /\ outbox' = outbox
                      /\ Goto(s, [Idle EXCEPT !.pc = "notify_created", !.ticket = t, !.seq = 1])
  BY DEF InsertTicket, CreateManual, OpenTicket
<1>2. history[t] = {}
  BY <1>1 DEF Inv, TablesInv, NumberedHistory, GaplessHistory
<1>3. /\ history'[t] = {FirstRow(reporter)}
      /\ \A u \in TicketId \ {t} : history'[u] = history[u]
  BY <1>1 DEF Inv, TypeOK
<1>4. FirstRow(reporter).seq = 1
  BY DEF FirstRow
<1>5. Sequences(t) = {}
  BY <1>2 DEF Sequences
<1>6. RowsAdded
  BY <1>2, <1>3, <1>5 DEF RowsAdded
<1> QED BY <1>1, <1>2, <1>3, <1>4, <1>6

LEMMA MovedRow ==
    ASSUME Inv, NEW s \in Sessions, ApplyStatus(s) \/ ReplyApply(s)
    PROVE  LET c == session[s]
           IN  /\ c.ticket \in TicketId /\ ticket[c.ticket] # None
               /\ NextSequenceNo(c.ticket) # 1
               /\ \E row : /\ row.seq = NextSequenceNo(c.ticket) /\ row.by = c.by
                           /\ row.from = c.from /\ row.to = c.to /\ row.kind = "status"
                           /\ history' = [history EXCEPT ![c.ticket] = @ \cup {row}]
<1> DEFINE c == session[s]
           t == c.ticket
           row == [seq |-> NextSequenceNo(t), from |-> c.from, to |-> c.to,
                   kind |-> "status", by |-> c.by]
<1>1. t \in TicketId /\ ticket[t] # None
  BY Remembered DEF ApplyStatus, ReplyApply, At, Prepared
<1>2. history' = [history EXCEPT ![t] = @ \cup {row}]
  BY DEF ApplyStatus, ReplyApply, MoveTicket
<1>3. /\ row.seq = NextSequenceNo(t) /\ row.by = c.by /\ row.from = c.from /\ row.to = c.to
      /\ row.kind = "status"
  OBVIOUS
<1>4. NextSequenceNo(t) # 1
  <2>1. /\ Cardinality(history[t]) \in Nat /\ NextSequenceNo(t) = Cardinality(history[t]) + 1
        /\ Sequences(t) = 1 .. Cardinality(history[t]) /\ history[t] # {}
    BY <1>1, NextSequence DEF Inv, TablesInv, NumberedHistory, GaplessHistory
  <2>2. Sequences(t) # {}
    BY <2>1 DEF Sequences
  <2> QED BY <2>1, <2>2
<1> QED BY <1>1, <1>2, <1>3, <1>4

LEMMA StepUndisturbed ==
    ASSUME Inv, ~Crashes, NEW s \in Sessions, Step(s)
    PROVE  Undisturbed(s)
<1>1. ASSUME NEW c, Goto(s, c) PROVE \A r \in Sessions \ {s} : session'[r] = session[r]
  BY <1>1 DEF Goto, Inv, TypeOK
<1>2. ASSUME UNCHANGED history PROVE RowsAdded
  BY <1>2 DEF RowsAdded
<1>3. /\ RowsAdded /\ outbox \subseteq outbox'
      /\ \A r \in Sessions \ {s} : session'[r] = session[r]
  <2>1. CASE Quiet(s) BY <1>2, <2>1 DEF Quiet
  <2>2. CASE NotifyCreated(s) BY <1>1, <1>2, <2>2 DEF NotifyCreated, tables
  <2>3. CASE NotifyStatus(s)
    <3>1. PICK c : Goto(s, c) BY <2>3 DEF NotifyStatus
    <3>2. UNCHANGED history /\ outbox \subseteq outbox' BY <2>3 DEF NotifyStatus, tables
    <3> QED BY <1>1, <1>2, <3>1, <3>2
  <2>4. CASE ApplyStatus(s) \/ ReplyApply(s)
    <3>1. RowsAdded BY <2>4, MovedRow, AppendedRow
    <3>2. outbox \subseteq outbox' BY <2>4 DEF ApplyStatus, ReplyApply
    <3>3. PICK c : Goto(s, c) BY <2>4 DEF ApplyStatus, ReplyApply
    <3> QED BY <1>1, <3>1, <3>2, <3>3
  <2>5. CASE AssignCommit(s)
    <3> DEFINE c == session[s]
               row == [seq |-> NextSequenceNo(c.ticket), from |-> c.from, to |-> c.from,
                       kind |-> "assignment", by |-> c.by]
    <3>1. c.ticket \in TicketId BY <2>5, Remembered DEF AssignCommit, At, Prepared
    <3>2. history' = [history EXCEPT ![c.ticket] = @ \cup {row}] /\ outbox' = outbox
      BY <2>5 DEF AssignCommit
    <3>3. row.seq = NextSequenceNo(c.ticket) OBVIOUS
    <3>4. PICK d : Goto(s, d) BY <2>5 DEF AssignCommit
    <3> HIDE DEF row, c
    <3>5. RowsAdded BY <3>1, <3>2, <3>3, AppendedRow
    <3> QED BY <1>1, <3>2, <3>4, <3>5
  <2>6. CASE \E t \in TicketId : InsertTicket(s, t) \/ \E u \in Users : CreateManual(s, t, u)
    BY <1>1, <2>6, FirstRowAdded
  <2> QED BY <2>1, <2>2, <2>3, <2>4, <2>5, <2>6, StepShapes
<1> QED BY <1>3, ReportersStay DEF Undisturbed

(* What another session knows of the row it wrote stays true.              *)
LEMMA SendersStillKnow ==
    ASSUME Inv, SendersKnow, NEW s \in Sessions, Undisturbed(s),
           NEW q \in Sessions, session'[q] = session[q], At(q, "notify_status")
    PROVE  Knows(q)'
<1> DEFINE t == session[q].ticket
<1>1. t \in TicketId
  BY Remembered DEF At, Prepared
<1>2. /\ session[q].seq \in Sequences(t) \ {1}
      /\ \A r \in history[t] : r.seq = session[q].seq => r.by = session[q].by
  BY DEF SendersKnow, Knows
<1>3. /\ history[t] \subseteq history'[t]
      /\ \A r \in history'[t] \ history[t] : r.seq \notin Sequences(t)
  BY <1>1 DEF Undisturbed, RowsAdded
<1>4. session[q].seq \in {r.seq : r \in history'[t]}
  BY <1>2, <1>3 DEF Sequences
<1>5. \A r \in history'[t] : r.seq = session[q].seq => r.by = session[q].by
  BY <1>2, <1>3
<1> QED BY <1>2, <1>4, <1>5 DEF Knows, Sequences

LEMMA StepSendersKnow ==
    ASSUME Inv, SendersKnow, ~Crashes, NEW s \in Sessions, Step(s)
    PROVE  SendersKnow'
<1> SUFFICES ASSUME NEW q \in Sessions, session'[q].pc = "notify_status"
             PROVE  Knows(q)'
  BY DEF SendersKnow, At
<1>1. Undisturbed(s)
  BY StepUndisturbed
<1>2. CASE q # s
  <2>1. session'[q] = session[q]
    BY <1>1, <1>2 DEF Undisturbed
  <2> QED BY <1>1, <2>1, SendersStillKnow DEF At
<1>3. CASE q = s
  <2>1. session \in [Sessions -> SessionState] /\ session[s] \in SessionState
    BY DEF Inv, TypeOK
  <2>2. ~Quiet(s)
    BY <1>3 DEF Quiet
  <2>3. ~NotifyCreated(s)
    BY <1>3, <2>1 DEF NotifyCreated, Goto, Idle
  <2>4. ~NotifyStatus(s)
    <3> SUFFICES ASSUME NotifyStatus(s) PROVE FALSE OBVIOUS
    <3> DEFINE c == session[s]
               d == [Idle EXCEPT !.pc = "notify_assigned", !.by = c.by,
                          !.ticket = c.ticket, !.tell = c.tell, !.seq = c.seq]
    <3>1. Goto(s, Idle) \/ Goto(s, d) BY DEF NotifyStatus
    <3>2. d.pc = "notify_assigned" /\ Idle.pc = "idle" BY DEF Idle
    <3> HIDE DEF d
    <3> QED BY <1>3, <2>1, <3>1, <3>2 DEF Goto
  <2>5. ~ReplyApply(s)
    BY <1>3, <2>1 DEF ReplyApply, Goto, Idle
  <2>6. ~AssignCommit(s)
    <3> SUFFICES ASSUME AssignCommit(s) PROVE FALSE OBVIOUS
    <3> DEFINE c == session[s]
               d == [c EXCEPT !.pc = "advance", !.tell = c.assign,
                              !.seq = NextSequenceNo(c.ticket)]
    <3>1. Goto(s, Idle) \/ Goto(s, d) BY DEF AssignCommit
    <3>2. d.pc = "advance" /\ Idle.pc = "idle" BY <2>1 DEF Idle, SessionState
    <3> HIDE DEF d
    <3> QED BY <1>3, <2>1, <3>1, <3>2 DEF Goto
  <2>7. ~(\E t \in TicketId : InsertTicket(s, t) \/ \E u \in Users : CreateManual(s, t, u))
    <3> SUFFICES ASSUME NEW t \in TicketId,
                        InsertTicket(s, t) \/ \E u \in Users : CreateManual(s, t, u)
                 PROVE  FALSE
      OBVIOUS
    <3> DEFINE d == [Idle EXCEPT !.pc = "notify_created", !.ticket = t, !.seq = 1]
    <3>1. Goto(s, d) BY FirstRowAdded
    <3>2. d.pc = "notify_created" BY DEF Idle
    <3> HIDE DEF d
    <3> QED BY <1>3, <2>1, <3>1, <3>2 DEF Goto
  <2>8. ApplyStatus(s)
    BY <2>2, <2>3, <2>4, <2>5, <2>6, <2>7, StepShapes
  <2> DEFINE c == session[s]
             d == [Idle EXCEPT !.pc = "notify_status", !.ticket = c.ticket,
                               !.by = c.by, !.tell = c.tell,
                               !.seq = NextSequenceNo(c.ticket)]
  <2>9. Goto(s, d) BY <2>8 DEF ApplyStatus
  <2>10. d.ticket = c.ticket /\ d.seq = NextSequenceNo(c.ticket) /\ d.by = c.by BY DEF Idle
  <2> HIDE DEF d
  <2>11. session'[q] = d BY <1>3, <2>1, <2>9 DEF Goto
  <2>12. PICK row : /\ row.seq = NextSequenceNo(c.ticket) /\ row.by = c.by
                    /\ history' = [history EXCEPT ![c.ticket] = @ \cup {row}]
                    /\ c.ticket \in TicketId /\ NextSequenceNo(c.ticket) # 1
    BY <2>8, MovedRow
  <2>13. history'[c.ticket] = history[c.ticket] \cup {row} /\ row.seq \notin Sequences(c.ticket)
    BY <2>12, AppendedRow
  <2>14. \A r \in history[c.ticket] : r.seq # row.seq
    BY <2>13 DEF Sequences
  <2>15. row.seq \in {r.seq : r \in history'[c.ticket]}
    BY <2>13
  <2>16. d.seq = row.seq /\ row.seq # 1 /\ d.by = row.by /\ session'[q].ticket = c.ticket
    BY <2>10, <2>11, <2>12
  <2>17. \A r \in history'[c.ticket] : r.seq = d.seq => r.by = d.by
    BY <2>13, <2>14, <2>16
  <2> QED BY <2>11, <2>15, <2>16, <2>17 DEF Knows, Sequences
<1> QED BY <1>2, <1>3

(* What usp_Notification_Enqueue inserts for a reporter who is owed it.     *)
LEMMA Enqueues ==
    ASSUME Inv, NEW t \in TicketId, ticket[t] # None, ticket[t].reporter # System,
           ticket'[t].reporter = ticket[t].reporter,
           NEW event, NEW by, by # ticket[t].reporter, NEW r,
           Enqueued(t, event, ticket[t].reporter, by, r.seq) \subseteq outbox'
    PROVE  Queued(t, r)'
<1> DEFINE to == ticket[t].reporter
           n == [ticket |-> t, event |-> event, to |-> to, seq |-> r.seq]
<1>1. to \in Person /\ to # None
  BY IdsAssumption DEF Inv, TypeOK, TicketRow
<1>2. n \in Enqueued(t, event, to, by, r.seq)
  BY <1>1 DEF Enqueued
<1>3. n.ticket = t /\ n.seq = r.seq /\ n.to = to
  OBVIOUS
<1> HIDE DEF n
<1> QED BY <1>2, <1>3 DEF Queued

LEMMA OldRowsStayQueued ==
    ASSUME Inv, SendersKnow, EveryChangeQueued, ~Crashes, NEW s \in Sessions, Step(s),
           NEW t \in TicketId, NEW r \in StatusRows(t), Owed(t, r)
    PROVE  Queued(t, r)' \/ \E q \in Sessions : Sending(q, t, r)'
<1>1. Undisturbed(s)
  BY StepUndisturbed
<1>2. r \in history[t] /\ ticket[t] # None
  BY DEF StatusRows, Inv, TablesInv, NumberedHistory, GaplessHistory
<1>3. ticket'[t].reporter = ticket[t].reporter
  BY <1>1, <1>2 DEF Undisturbed
<1>4. Queued(t, r) \/ \E q \in Sessions : Sending(q, t, r)
  BY QueuedByRow
<1>5. CASE Queued(t, r)
  BY <1>1, <1>3, <1>5 DEF Queued, Undisturbed
<1>6. ASSUME NEW q \in Sessions \ {s}, Sending(q, t, r) PROVE Sending(q, t, r)'
  BY <1>1, <1>6 DEF Undisturbed, Sending
<1>7. CASE Sending(s, t, r)
  <2> DEFINE c == session[s]
  <2>1. c.ticket = t /\ c.seq = r.seq /\ c.pc \in Notifying
    BY <1>7 DEF Sending
  <2>2. ~Quiet(s)
    BY <2>1 DEF Quiet
  <2>3. \A u \in TicketId : ~InsertTicket(s, u) /\ \A v \in Users : ~CreateManual(s, u, v)
    <3>1. c.pc # "insert" /\ c # Idle
      BY <2>1 DEF Idle, Notifying
    <3>2. \A u \in TicketId : InsertTicket(s, u) => c.pc = "insert"
      BY Zenon DEF InsertTicket, At
    <3>3. \A u \in TicketId, v \in Users : CreateManual(s, u, v) => c = Idle
      BY Zenon DEF CreateManual
    <3> QED BY <3>1, <3>2, <3>3
  <2>4. NotifyCreated(s) \/ NotifyStatus(s)
    BY <2>1, <2>2, <2>3, StepShapes DEF ApplyStatus, ReplyApply, AssignCommit, At, Notifying
  <2>5. CASE NotifyCreated(s)
    <3>1. Enqueued(t, "created", ticket[t].reporter, None, c.seq) \subseteq outbox'
      BY <2>1, <2>5 DEF NotifyCreated
    <3>2. ticket[t].reporter # None
      BY <1>2, IdsAssumption DEF Inv, TypeOK, TicketRow
    <3>3. ticket[t].reporter # System
      BY DEF Owed
    <3> QED BY <1>2, <1>3, <2>1, <3>1, <3>2, <3>3, Enqueues
  <2>6. CASE NotifyStatus(s)
    <3>1. Enqueued(t, "status_changed", ticket[t].reporter, c.by, c.seq) \subseteq outbox'
      BY <2>1, <2>6 DEF NotifyStatus
    <3>2. Knows(s)
      BY <2>6 DEF SendersKnow, NotifyStatus
    <3>3. r.by = c.by /\ r.seq # 1
      BY <1>2, <2>1, <3>2 DEF Knows
    <3>4. c.by # ticket[t].reporter
      BY <3>3 DEF Owed
    <3>5. ticket[t].reporter # System
      BY DEF Owed
    <3> QED BY <1>2, <1>3, <2>1, <3>1, <3>4, <3>5, Enqueues
  <2> QED BY <2>4, <2>5, <2>6
<1> QED BY <1>4, <1>5, <1>6, <1>7

LEMMA NewRowsAreQueued ==
    ASSUME Inv, ~Crashes, NEW s \in Sessions, Step(s),
           NEW t \in TicketId, NEW r \in history'[t], r \notin history[t], r.kind = "status",
           Owed(t, r)'
    PROVE  Queued(t, r)' \/ Sending(s, t, r)'
<1> DEFINE c == session[s]
<1>1. session \in [Sessions -> SessionState] /\ history \in [TicketId -> SUBSET HistoryRow]
  BY DEF Inv, TypeOK
<1>2. CASE ApplyStatus(s) \/ ReplyApply(s)
  <2>1. PICK row : /\ row.seq = NextSequenceNo(c.ticket) /\ row.by = c.by /\ row.seq # 1
                   /\ history' = [history EXCEPT ![c.ticket] = @ \cup {row}]
                   /\ c.ticket \in TicketId /\ ticket[c.ticket] # None
    BY <1>2, MovedRow
  <2>2. t = c.ticket /\ r = row
    BY <1>1, <2>1
  <2>3. CASE ApplyStatus(s)
    <3> DEFINE d == [Idle EXCEPT !.pc = "notify_status", !.ticket = c.ticket,
                                 !.by = c.by, !.tell = c.tell,
                                 !.seq = NextSequenceNo(c.ticket)]
    <3>1. Goto(s, d) BY <2>3 DEF ApplyStatus
    <3>2. d.ticket = t /\ d.seq = r.seq /\ d.pc = "notify_status" BY <2>1, <2>2 DEF Idle
    <3> HIDE DEF d
    <3> QED BY <1>1, <3>1, <3>2 DEF Goto, Sending, Notifying
  <2>4. CASE ReplyApply(s)
    <3>1. Enqueued(t, "status_changed", ticket[t].reporter, c.by, r.seq) \subseteq outbox'
      BY <2>1, <2>2, <2>4 DEF ReplyApply
    <3>2. ticket'[t].reporter = ticket[t].reporter
      BY <2>1, <2>2, ReportersStay
    <3>3. c.by # ticket[t].reporter /\ ticket[t].reporter # System
      BY <2>1, <2>2, <3>2 DEF Owed
    <3> QED BY <2>1, <2>2, <3>1, <3>2, <3>3, Enqueues
  <2> QED BY <1>2, <2>3, <2>4
<1>3. CASE \E u \in TicketId : InsertTicket(s, u) \/ \E v \in Users : CreateManual(s, u, v)
  <2> PICK u \in TicketId : InsertTicket(s, u) \/ \E v \in Users : CreateManual(s, u, v)
    BY <1>3
  <2> DEFINE d == [Idle EXCEPT !.pc = "notify_created", !.ticket = u, !.seq = 1]
  <2>1. t = u /\ r.seq = 1 /\ Goto(s, d)
    BY FirstRowAdded
  <2>2. d.ticket = u /\ d.seq = 1 /\ d.pc = "notify_created"
    BY DEF Idle
  <2> HIDE DEF d
  <2> QED BY <1>1, <2>1, <2>2 DEF Goto, Sending, Notifying
<1>4. ~Quiet(s) /\ ~NotifyCreated(s) /\ ~NotifyStatus(s)
  BY DEF Quiet, NotifyCreated, NotifyStatus, tables
<1>5. ~AssignCommit(s)
  <2> SUFFICES ASSUME AssignCommit(s) PROVE FALSE OBVIOUS
  <2> DEFINE row == [seq |-> NextSequenceNo(c.ticket), from |-> c.from, to |-> c.from,
                     kind |-> "assignment", by |-> c.by]
  <2>1. history' = [history EXCEPT ![c.ticket] = @ \cup {row}] BY DEF AssignCommit
  <2>2. row.kind # "status" OBVIOUS
  <2> HIDE DEF row
  <2> QED BY <1>1, <2>1, <2>2
<1> QED BY <1>2, <1>3, <1>4, <1>5, StepShapes

(* Where no session dies between its COMMIT and the EXEC that follows, every *)
(* change of status by somebody else reaches the reporter's queue, whoever   *)
(* changes the ticket in between (usp_Notification_Enqueue, EXECuted after   *)
(* the COMMIT of usp_Ticket_ChangeStatus and usp_Ticket_Create).             *)
THEOREM ChangesAreQueued ==
    ASSUME ~Crashes
    PROVE  Spec => []EveryChangeQueued
<1>1. Init => SendersKnow /\ EveryChangeQueued
  <2> SUFFICES ASSUME Init PROVE SendersKnow /\ EveryChangeQueued OBVIOUS
  <2>1. SendersKnow BY DEF Init, SendersKnow, At, Idle
  <2>2. EveryChangeQueued BY DEF Init, EveryChangeQueued, StatusRows
  <2> QED BY <2>1, <2>2
<1>2. Inv /\ SendersKnow /\ EveryChangeQueued /\ [Next]_vars
          => SendersKnow' /\ EveryChangeQueued'
  <2> SUFFICES ASSUME Inv, SendersKnow, EveryChangeQueued, [Next]_vars
               PROVE  SendersKnow' /\ EveryChangeQueued'
    OBVIOUS
  <2>1. CASE UNCHANGED vars
    <3>1. SendersKnow' BY <2>1 DEF vars, SendersKnow, Knows, At, Sequences
    <3>2. EveryChangeQueued' BY <2>1 DEF vars, EveryChangeQueued, StatusRows
    <3> QED BY <3>1, <3>2
  <2>2. ASSUME NEW s \in Sessions, Step(s) PROVE SendersKnow' /\ EveryChangeQueued'
    <3>1. SendersKnow' BY <2>2, StepSendersKnow
    <3>2. ASSUME NEW t \in TicketId, NEW r \in StatusRows(t)', Owed(t, r)'
          PROVE  Queued(t, r)' \/ \E q \in Sessions : Sending(q, t, r)'
      <4>1. r \in history'[t] /\ r.kind = "status" BY DEF StatusRows
      <4>2. CASE r \in history[t]
        <5>1. r \in StatusRows(t) /\ ticket[t] # None
          BY <4>1, <4>2 DEF StatusRows, Inv, TablesInv, NumberedHistory, GaplessHistory
        <5>2. ticket'[t].reporter = ticket[t].reporter BY <2>2, <5>1, ReportersStay
        <5>3. Owed(t, r) BY <3>2, <5>2 DEF Owed
        <5> QED BY <2>2, <5>1, <5>3, OldRowsStayQueued
      <4>3. CASE r \notin history[t]
        BY <2>2, <3>2, <4>1, <4>3, NewRowsAreQueued
      <4> QED BY <4>2, <4>3
    <3>3. (\A t \in TicketId : \A r \in StatusRows(t) :
              Owed(t, r) => Queued(t, r) \/ \E q \in Sessions : Sending(q, t, r))'
              => EveryChangeQueued'
      BY DEF EveryChangeQueued, Owed, Queued, Sending, Notifying
    <3> QED BY <3>1, <3>2, <3>3
  <2> QED BY <2>1, <2>2 DEF Next
<1> QED BY <1>1, <1>2, Invariance, PTL DEF Spec

----------------------------------------------------------------------------
(* A serial client.                                                        *)

Committing == {"apply", "reply_apply", "assign"}

\* What the session s is about to write, it has read of the ticket in this step.
Reads(s) ==
    LET c == session'[s]
    IN  /\ UNCHANGED <<ticket, history>>
        /\ c.ticket \in TicketId /\ ticket[c.ticket] # None
        /\ c.from = ticket[c.ticket].status
        /\ c.pc # "assign" => <<c.from, c.to>> \in Transitions

ReadsFirst(s) == session'[s].pc \in Committing => Reads(s)

(* A session comes to a transaction that writes a status only by reading   *)
(* the status; the other sessions stay where they are.                     *)
LEMMA StepReads ==
    ASSUME Inv, NEW s \in Sessions, Step(s)
    PROVE  ReadsFirst(s) /\ \A r \in Sessions \ {s} : session'[r] = session[r]
<1>1. session \in [Sessions -> SessionState] /\ session[s] \in SessionState
  BY DEF Inv, TypeOK
<1> DEFINE Goal == ReadsFirst(s) /\ \A r \in Sessions \ {s} : session'[r] = session[r]
<1>2. ASSUME NEW c, Goto(s, c), c.pc \in Committing => Reads(s)
      PROVE  Goal
  BY <1>1, <1>2 DEF Goto, ReadsFirst
<1>3. ASSUME NEW c, Goto(s, c),
             c.pc \in {"idle", "evaluate", "link", "insert", "advance", "reply",
                       "notify_created", "notify_status", "notify_assigned"}
      PROVE  Goal
  BY <1>2, <1>3 DEF Committing
<1>4. ASSUME UNCHANGED session, session[s] = Idle PROVE Goal
  BY <1>4 DEF ReadsFirst, Committing, Idle
<1>5. CASE \E f \in Hash, o \in OccId, u \in Users \cup {System} :
              CaptureAttached(s, f, o, u) \/ CaptureUnattached(s, f, o, u)
  <2> PICK f \in Hash, o \in OccId, u \in Users \cup {System} :
              CaptureAttached(s, f, o, u) \/ CaptureUnattached(s, f, o, u)
    BY <1>5
  <2> DEFINE c == IF fingerprint[f].triage = "muted" THEN Idle
                  ELSE [Idle EXCEPT !.pc = "evaluate", !.occ = o]
  <2>1. c.pc \in {"idle", "evaluate"} BY DEF Idle
  <2>2. Goto(s, c) \/ (UNCHANGED session /\ session[s] = Idle)
    BY DEF CaptureAttached, CaptureUnattached
  <2> HIDE DEF c
  <2> QED BY <1>3, <1>4, <2>1, <2>2
<1>6. CASE \/ \E f \in Hash : CaptureSampledOut(s, f)
           \/ \E f \in Hash, state \in TriageChoices : Triage(s, f, state)
  BY <1>4, <1>6 DEF CaptureSampledOut, Triage
<1>7. CASE RuleFires(s) \/ \E o \in OccId, u \in Users \cup {System} : ReportIssue(s, o, u)
  <2>1. PICK o, by : CheckOpenTicket(s, o, by)
    BY <1>7 DEF RuleFires, ReportIssue
  <2> DEFINE t == fingerprint[occurrence[o].fp].open
             live == t # None /\ ticket[t].status \notin Terminal
             c == [Idle EXCEPT !.pc = IF live THEN "link" ELSE "insert",
                               !.occ = o, !.by = by,
                               !.ticket = IF live THEN t ELSE None]
  <2>2. Goto(s, c) BY <2>1 DEF CheckOpenTicket
  <2>3. c.pc \in {"link", "insert"}
    <3> HIDE DEF live
    <3> QED BY DEF Idle
  <2> HIDE DEF c
  <2> QED BY <1>3, <2>2, <2>3
<1>8. CASE \/ NoRuleFires(s) \/ LinkToExisting(s) \/ NotifyCreated(s) \/ NotifyAssigned(s)
           \/ ReplyCommit(s) \/ ReplyApply(s) \/ Crash(s)
  <2>1. Goto(s, Idle)
    BY <1>8 DEF NoRuleFires, LinkToExisting, NotifyCreated, NotifyAssigned, ReplyCommit,
                ReplyApply, Crash
  <2> QED BY <1>3, <2>1 DEF Idle
<1>9. CASE \E t \in TicketId, to \in Status, assign \in Agents \cup {None}, by \in Agents :
              ChangeStatus(s, t, to, assign, by)
  <2> PICK t \in TicketId, to \in Status, assign \in Agents \cup {None}, by \in Agents :
              ChangeStatus(s, t, to, assign, by)
    BY <1>9
  <2> DEFINE c == [Idle EXCEPT !.pc = "apply", !.ticket = t, !.by = by, !.to = to,
                               !.from = ticket[t].status, !.assign = assign]
  <2>1. /\ c.pc = "apply" /\ c.ticket = t /\ c.from = ticket[t].status /\ c.to = to
    BY DEF Idle
  <2>2. /\ Goto(s, c) /\ UNCHANGED <<ticket, history>>
        /\ ticket[t] # None /\ <<ticket[t].status, to>> \in Transitions
    BY DEF ChangeStatus, Permitted, tables
  <2> HIDE DEF c
  <2>3. session'[s] = c BY <1>1, <2>2 DEF Goto
  <2> QED BY <1>2, <2>1, <2>2, <2>3 DEF Reads
<1>10. CASE \E t \in TicketId, agent \in Agents \cup {None}, by \in Agents :
              Assign(s, t, agent, by)
  <2> PICK t \in TicketId, agent \in Agents \cup {None}, by \in Agents : Assign(s, t, agent, by)
    BY <1>10
  <2> DEFINE c == [Idle EXCEPT !.pc = "assign", !.ticket = t, !.by = by,
                               !.from = ticket[t].status, !.assign = agent]
  <2>1. c.pc = "assign" /\ c.ticket = t /\ c.from = ticket[t].status
    BY DEF Idle
  <2>2. Goto(s, c) /\ UNCHANGED <<ticket, history>> /\ ticket[t] # None
    BY DEF Assign, tables
  <2> HIDE DEF c
  <2>3. session'[s] = c BY <1>1, <2>2 DEF Goto
  <2> QED BY <1>2, <2>1, <2>2, <2>3 DEF Reads
<1>11. CASE \E t \in TicketId, u \in Users : Reply(s, t, u)
  <2> PICK t \in TicketId, u \in Users : Reply(s, t, u)
    BY <1>11
  <2> DEFINE c == [Idle EXCEPT !.pc = "reply", !.ticket = t, !.by = u]
  <2>1. c.pc = "reply" /\ Goto(s, c) BY DEF Idle, Reply
  <2> HIDE DEF c
  <2> QED BY <1>3, <2>1
<1>12. CASE AdvanceBegin(s) \/ ReplyResume(s)
  <2> DEFINE old == session[s]
             now == ticket[old.ticket].status
             whom == ticket[old.ticket].assignee
             a == [old EXCEPT !.pc = "apply", !.to = "assigned", !.from = now]
             d == [old EXCEPT !.pc = "reply_apply", !.to = "in_progress",
                              !.from = now, !.tell = whom]
  <2>1. /\ UNCHANGED <<ticket, history>>
        /\ \/ Goto(s, a) /\ <<now, "assigned">> \in Transitions
           \/ Goto(s, d) /\ <<now, "in_progress">> \in Transitions
    BY <1>12 DEF AdvanceBegin, ReplyResume, Resumable, Permitted, tables
  <2>2. /\ a.pc = "apply" /\ a.to = "assigned" /\ a.from = now /\ a.ticket = old.ticket
        /\ d.pc = "reply_apply" /\ d.to = "in_progress" /\ d.from = now /\ d.ticket = old.ticket
    <3> HIDE DEF now, whom
    <3> QED BY <1>1 DEF SessionState
  <2>3. old.ticket \in TicketId /\ ticket[old.ticket] # None /\ ticket[old.ticket].status = now
    BY <1>12, Remembered DEF AdvanceBegin, ReplyResume, At, Prepared
  <2> HIDE DEF a, d, now, whom, old
  <2>4. CASE Goto(s, a) /\ <<now, "assigned">> \in Transitions
    <3>1. session'[s] = a BY <1>1, <2>4 DEF Goto
    <3> QED BY <1>2, <2>1, <2>2, <2>3, <2>4, <3>1 DEF Reads
  <2>5. CASE Goto(s, d) /\ <<now, "in_progress">> \in Transitions
    <3>1. session'[s] = d BY <1>1, <2>5 DEF Goto
    <3> QED BY <1>2, <2>1, <2>2, <2>3, <2>5, <3>1 DEF Reads
  <2> QED BY <2>1, <2>4, <2>5
<1>13. CASE AdvanceSkip(s)
  <2> DEFINE c == [session[s] EXCEPT !.pc = "notify_assigned"]
  <2>1. c.pc = "notify_assigned" BY <1>1 DEF SessionState
  <2>2. Goto(s, c) BY <1>13 DEF AdvanceSkip
  <2> HIDE DEF c
  <2> QED BY <1>3, <2>1, <2>2
<1>14. CASE ApplyStatus(s)
  <2> DEFINE c == session[s]
             d == [Idle EXCEPT !.pc = "notify_status", !.ticket = c.ticket,
                               !.by = c.by, !.tell = c.tell,
                               !.seq = NextSequenceNo(c.ticket)]
  <2>1. d.pc = "notify_status" BY DEF Idle
  <2>2. Goto(s, d) BY <1>14 DEF ApplyStatus
  <2> HIDE DEF d
  <2> QED BY <1>3, <2>1, <2>2
<1>15. CASE NotifyStatus(s)
  <2> DEFINE c == session[s]
             d == [Idle EXCEPT !.pc = "notify_assigned", !.by = c.by,
                        !.ticket = c.ticket, !.tell = c.tell, !.seq = c.seq]
  <2>1. d.pc = "notify_assigned" /\ Idle.pc = "idle" BY DEF Idle
  <2>2. Goto(s, d) \/ Goto(s, Idle) BY <1>15 DEF NotifyStatus
  <2> HIDE DEF d
  <2> QED BY <1>3, <2>1, <2>2
<1>16. CASE AssignCommit(s)
  <2> DEFINE c == session[s]
             d == [c EXCEPT !.pc = "advance", !.tell = c.assign,
                            !.seq = NextSequenceNo(c.ticket)]
  <2>1. d.pc = "advance" /\ Idle.pc = "idle" BY <1>1 DEF Idle, SessionState
  <2>2. Goto(s, d) \/ Goto(s, Idle) BY <1>16 DEF AssignCommit
  <2> HIDE DEF d
  <2> QED BY <1>3, <2>1, <2>2
<1>17. CASE \E t \in TicketId : InsertTicket(s, t) \/ \E u \in Users : CreateManual(s, t, u)
  <2> PICK t \in TicketId : InsertTicket(s, t) \/ \E u \in Users : CreateManual(s, t, u)
    BY <1>17
  <2> DEFINE d == [Idle EXCEPT !.pc = "notify_created", !.ticket = t, !.seq = 1]
  <2>1. d.pc = "notify_created" BY DEF Idle
  <2>2. Goto(s, d) BY FirstRowAdded
  <2> HIDE DEF d
  <2> QED BY <1>3, <2>1, <2>2
<1> QED BY <1>5, <1>6, <1>7, <1>8, <1>9, <1>10, <1>11, <1>12, <1>13, <1>14, <1>15, <1>16,
           <1>17 DEF Step

\* What was validated is still so: nobody else came in between.
Valid(s) ==
    LET c == session[s]
    IN  /\ c.pc \in {"apply", "reply_apply"} =>
              c.from = ticket[c.ticket].status /\ <<c.from, c.to>> \in Transitions
        /\ c.pc = "assign" => c.from = ticket[c.ticket].status

AllValid == \A s \in Sessions : Valid(s)

LEMMA StepStaysValid ==
    ASSUME Serial, Inv, AllValid, NEW s \in Sessions, Step(s)
    PROVE  AllValid'
<1>1. SUFFICES Valid(s)'
  BY DEF AllValid, Serial
<1>2. CASE session'[s].pc \in Committing
  BY <1>2, StepReads DEF ReadsFirst, Reads, Valid, Committing
<1>3. CASE session'[s].pc \notin Committing
  BY <1>3 DEF Valid, Committing
<1> QED BY <1>2, <1>3

\* The columns a report reads of a ticket's row.
SameFace(t) ==
    /\ ticket[t] # None
    /\ ticket'[t].status = ticket[t].status
    /\ ticket'[t].resolved = ticket[t].resolved /\ ticket'[t].closed = ticket[t].closed

FreshFace(t) ==
    /\ ticket[t] = None
    /\ ticket'[t].status = "new" /\ ~ticket'[t].resolved /\ ~ticket'[t].closed

(* Only a change of status changes them.                                   *)
LEMMA FacesStay ==
    ASSUME Inv, NEW s \in Sessions, Step(s), ~ApplyStatus(s), ~ReplyApply(s)
    PROVE  \A t \in TicketId : ticket'[t] # None => SameFace(t) \/ FreshFace(t)
<1>1. ticket \in [TicketId -> TicketRow \cup {None}]
  BY DEF Inv, TypeOK
<1>2. ASSUME NEW t \in TicketId, NEW row, ticket' = [ticket EXCEPT ![t] = row],
             \/ /\ ticket[t] # None /\ row.status = ticket[t].status
                /\ row.resolved = ticket[t].resolved /\ row.closed = ticket[t].closed
             \/ ticket[t] = None /\ row.status = "new" /\ ~row.resolved /\ ~row.closed
      PROVE  \A u \in TicketId : ticket'[u] # None => SameFace(u) \/ FreshFace(u)
  BY <1>1, <1>2 DEF SameFace, FreshFace
<1>3. ASSUME UNCHANGED ticket
      PROVE  \A u \in TicketId : ticket'[u] # None => SameFace(u)
  BY <1>3 DEF SameFace
<1>4. ASSUME NEW t \in TicketId, ticket[t] # None,
             ticket' \in {ticket, [ticket EXCEPT ![t].linked = @ + 1]}
      PROVE  \A u \in TicketId : ticket'[u] # None => SameFace(u) \/ FreshFace(u)
  <2> DEFINE row == [ticket[t] EXCEPT !.linked = @ + 1]
  <2>1. ticket[t] \in TicketRow BY <1>1, <1>4
  <2>2. row.status = ticket[t].status /\ row.resolved = ticket[t].resolved
        /\ row.closed = ticket[t].closed
    BY <2>1 DEF TicketRow
  <2>3. ticket' = ticket \/ ticket' = [ticket EXCEPT ![t] = row] BY <1>4
  <2> HIDE DEF row
  <2> QED BY <1>2, <1>3, <1>4, <2>2, <2>3
<1>5. CASE Elsewhere(s)
  BY <1>3, <1>5 DEF Elsewhere, CaptureUnattached, CaptureSampledOut, Triage, tables
<1>6. CASE \E f \in Hash, o \in OccId, u \in Users \cup {System} : CaptureAttached(s, f, o, u)
  <2> PICK f \in Hash, o \in OccId, u \in Users \cup {System} : CaptureAttached(s, f, o, u)
    BY <1>6
  <2> DEFINE t == fingerprint[f].open
  <2>1. t \in TicketId /\ ticket[t] # None
    BY DEF CaptureAttached, Inv, TablesInv, TablesTyped, FingerprintRow, OpenTicketLive
  <2>2. ticket' = [ticket EXCEPT ![t].linked = @ + 1]
    BY DEF CaptureAttached
  <2> HIDE DEF t
  <2> QED BY <1>4, <2>1, <2>2
<1>7. CASE LinkToExisting(s)
  <2> DEFINE t == session[s].ticket
  <2>1. t \in TicketId /\ ticket[t] # None
    BY <1>7, Remembered DEF LinkToExisting, At, Prepared
  <2>2. ticket' \in {ticket, [ticket EXCEPT ![t].linked = @ + 1]}
    BY <1>7 DEF LinkToExisting
  <2> HIDE DEF t
  <2> QED BY <1>4, <2>1, <2>2
<1>8. CASE \E t \in TicketId : InsertTicket(s, t) \/ \E u \in Users : CreateManual(s, t, u)
  <2> PICK t \in TicketId : InsertTicket(s, t) \/ \E u \in Users : CreateManual(s, t, u)
    BY <1>8
  <2>0. PICK f, reporter, linked : OpenTicket(s, t, f, reporter, linked)
    BY DEF InsertTicket, CreateManual
  <2>1. ticket[t] = None /\ ticket' = [ticket EXCEPT ![t] = NewTicket(f, reporter, linked)]
    BY <2>0 DEF OpenTicket
  <2> DEFINE row == NewTicket(f, reporter, linked)
  <2>2. row.status = "new" /\ ~row.resolved /\ ~row.closed BY DEF NewTicket
  <2> HIDE DEF row
  <2> QED BY <1>2, <2>1, <2>2 DEF row
<1>9. CASE AssignCommit(s)
  <2> DEFINE c == session[s]
             given == [ticket[c.ticket] EXCEPT !.assignee = c.assign]
  <2>1. c.ticket \in TicketId /\ ticket[c.ticket] \in TicketRow /\ ticket[c.ticket] # None
    BY <1>9, Remembered DEF AssignCommit, At, Prepared
  <2>2. /\ given.status = ticket[c.ticket].status
        /\ given.resolved = ticket[c.ticket].resolved /\ given.closed = ticket[c.ticket].closed
    BY <2>1 DEF TicketRow
  <2>3. ticket' = [ticket EXCEPT ![c.ticket] = given]
    BY <1>9 DEF AssignCommit
  <2> HIDE DEF given, c
  <2> QED BY <1>2, <2>1, <2>2, <2>3
<1> QED BY <1>5, <1>6, <1>7, <1>8, <1>9, Writers

\* What a change of status makes of the ticket.
LEMMA MovedFace ==
    ASSUME Inv, NEW s \in Sessions, ApplyStatus(s) \/ ReplyApply(s)
    PROVE  LET c == session[s]
           IN  /\ c.ticket \in TicketId /\ ticket[c.ticket] \in TicketRow /\ c.to \in Status
               /\ ticket[c.ticket] # None
               /\ \A u \in TicketId \ {c.ticket} : ticket'[u] = ticket[u]
               /\ ticket'[c.ticket].status = c.to
               /\ ticket'[c.ticket].closed =
                     (c.to \in Terminal \/ (ticket[c.ticket].closed /\ c.to # "reopened"))
               /\ ticket'[c.ticket].resolved =
                     (c.to = "resolved" \/ (ticket[c.ticket].resolved /\ c.to # "reopened"))
<1> DEFINE c == session[s]
           t == c.ticket
<1>1. t \in TicketId /\ ticket[t] # None /\ ticket[t] \in TicketRow
      /\ c.to \in Status /\ c.assign \in Agents \cup {None}
  BY Remembered DEF ApplyStatus, ReplyApply, At, Prepared, SessionState
<1>2. PICK assign \in Agents \cup {None} : MoveTicket(t, c.from, c.to, assign, c.by)
  BY <1>1 DEF ApplyStatus, ReplyApply
<1> HIDE DEF t
<1> DEFINE old == ticket[t]
           who == IF assign # None THEN assign ELSE old.assignee
           again == IF c.to = "reopened" THEN old.reopens + 1 ELSE old.reopens
           fixed == c.to = "resolved" \/ (old.resolved /\ c.to # "reopened")
           dead == c.to \in Terminal \/ (old.closed /\ c.to # "reopened")
           moved == [old EXCEPT !.status = c.to, !.assignee = who, !.reopens = again,
                                !.resolved = fixed, !.closed = dead]
<1>3. ticket' = [ticket EXCEPT ![t] = moved]
  BY <1>2 DEF MoveTicket, ClosedAfter
<1>4. moved.status = c.to /\ moved.resolved = fixed /\ moved.closed = dead
  <2> HIDE DEF who, again, fixed, dead
  <2> QED BY <1>1 DEF TicketRow
<1> HIDE DEF moved
<1>5. ticket'[t] = moved /\ \A u \in TicketId \ {t} : ticket'[u] = ticket[u]
  BY <1>1, <1>3 DEF Inv, TypeOK
<1> QED BY <1>1, <1>4, <1>5 DEF t

(* For a serial client a ticket's status moves along the workflow only:    *)
(* the move that was validated is the move that is made.                   *)
THEOREM MovesAreLegal ==
    ASSUME Serial
    PROVE  Spec => LegalMoves
<1> DEFINE Moves == \A t \in TicketId :
          (ticket[t] # None /\ ticket'[t].status # ticket[t].status) =>
              <<ticket[t].status, ticket'[t].status>> \in Transitions
<1>1. Init => AllValid
  BY DEF Init, AllValid, Valid, Idle
<1>2. Inv /\ AllValid /\ [Next]_vars => AllValid'
  <2>1. UNCHANGED vars /\ AllValid => AllValid'
    BY DEF vars, AllValid, Valid
  <2> QED BY <2>1, StepStaysValid DEF Next
<1>3. Inv /\ AllValid /\ [Next]_vars => [Moves]_vars
  <2> SUFFICES ASSUME Inv, AllValid, NEW s \in Sessions, Step(s) PROVE Moves
    BY DEF Next
  <2>1. CASE ApplyStatus(s) \/ ReplyApply(s)
    <3> DEFINE c == session[s]
    <3>1. /\ \A u \in TicketId \ {c.ticket} : ticket'[u] = ticket[u]
          /\ ticket'[c.ticket].status = c.to
      BY <2>1, MovedFace
    <3>2. c.from = ticket[c.ticket].status /\ <<c.from, c.to>> \in Transitions
      BY <2>1 DEF AllValid, Valid, ApplyStatus, ReplyApply, At
    <3> HIDE DEF c
    <3> QED BY <3>1, <3>2
  <2>2. CASE ~ApplyStatus(s) /\ ~ReplyApply(s)
    <3>1. \A t \in TicketId : ticket[t] # None => ticket'[t] # None
      BY ReportersStay
    <3> QED BY <2>2, <3>1, FacesStay DEF SameFace, FreshFace
  <2> QED BY <2>1, <2>2
<1> QED BY <1>1, <1>2, <1>3, Invariance, PTL DEF Spec, LegalMoves

\* A terminal ticket leaves its statuses by a reopening, a resolved one by that
\* or by being closed.
RevivesByReopening ==
    \A from, to \in Status : <<from, to>> \in Transitions =>
        /\ from \in Terminal /\ to \notin Terminal => to = "reopened"
        /\ from \in {"resolved", "closed"} => to \in {"resolved", "closed", "reopened"}

(* Under a workflow like the seeded one, ClosedUtc and ResolvedUtc agree   *)
(* with the status after every statement of a serial client.               *)
THEOREM StampsAgree ==
    ASSUME Serial, RevivesByReopening
    PROVE  Spec => []StampsMatchStatus
<1>1. Init => AllValid
  BY DEF Init, AllValid, Valid, Idle
<1>2. Inv /\ AllValid /\ [Next]_vars => AllValid'
  <2>1. UNCHANGED vars /\ AllValid => AllValid'
    BY DEF vars, AllValid, Valid
  <2> QED BY <2>1, StepStaysValid DEF Next
<1>3. Init => StampsMatchStatus
  BY DEF Init, StampsMatchStatus
<1>4. Inv /\ AllValid /\ StampsMatchStatus /\ [Next]_vars => StampsMatchStatus'
  <2>1. UNCHANGED vars /\ StampsMatchStatus => StampsMatchStatus'
    BY DEF vars, StampsMatchStatus
  <2>2. ASSUME Inv, AllValid, StampsMatchStatus, NEW s \in Sessions, Step(s)
        PROVE  StampsMatchStatus'
    <3>1. CASE ApplyStatus(s) \/ ReplyApply(s)
      <4> DEFINE c == session[s]
                 t == c.ticket
      <4>1. /\ t \in TicketId /\ ticket[t] \in TicketRow /\ ticket[t] # None /\ c.to \in Status
            /\ \A u \in TicketId \ {t} : ticket'[u] = ticket[u]
            /\ ticket'[t].status = c.to
            /\ ticket'[t].closed = (c.to \in Terminal \/ (ticket[t].closed /\ c.to # "reopened"))
            /\ ticket'[t].resolved = (c.to = "resolved" \/ (ticket[t].resolved /\ c.to # "reopened"))
        BY <3>1, <2>2, MovedFace
      <4>2. <<ticket[t].status, c.to>> \in Transitions
        BY <3>1, <2>2 DEF AllValid, Valid, ApplyStatus, ReplyApply, At
      <4>3. /\ ticket[t].status \in Terminal /\ c.to \notin Terminal => c.to = "reopened"
            /\ ticket[t].status \in {"resolved", "closed"}
                  => c.to \in {"resolved", "closed", "reopened"}
        BY <4>1, <4>2 DEF RevivesByReopening, TicketRow
      <4>4. /\ ticket[t].closed <=> ticket[t].status \in Terminal
            /\ ticket[t].status = "resolved" => ticket[t].resolved
            /\ ticket[t].resolved => ticket[t].status \in {"resolved", "closed"}
        BY <2>2, <4>1 DEF StampsMatchStatus
      <4> HIDE DEF c, t
      <4>5. "reopened" \notin Terminal BY WorkflowAssumption
      <4>6. ticket'[t].closed <=> c.to \in Terminal
        BY <4>1, <4>3, <4>4, <4>5
      <4>7. /\ c.to = "resolved" => ticket'[t].resolved
            /\ ticket'[t].resolved => c.to \in {"resolved", "closed"}
        BY <4>1, <4>3, <4>4
      <4> QED BY <2>2, <4>1, <4>6, <4>7 DEF StampsMatchStatus
    <3>2. CASE ~ApplyStatus(s) /\ ~ReplyApply(s)
      <4>1. \A t \in TicketId : ticket'[t] # None => SameFace(t) \/ FreshFace(t)
        BY <2>2, <3>2, FacesStay
      <4>2. "new" \notin Terminal BY WorkflowAssumption
      <4> QED BY <2>2, <4>1, <4>2 DEF StampsMatchStatus, SameFace, FreshFace
    <3> QED BY <3>1, <3>2
  <2> QED BY <2>1, <2>2 DEF Next
<1> QED BY <1>1, <1>2, <1>3, <1>4, Invariance, PTL DEF Spec

\* The trail of one ticket is a chain, and its newest row shows the status.
ChainOf(t) ==
    /\ \A r \in history[t] : r.seq > 1 =>
          \E q \in history[t] : q.seq = r.seq - 1 /\ q.to = r.from
    /\ \A r \in history[t] :
          (\A q \in history[t] : q.seq <= r.seq) => r.to = ticket[t].status

LEMMA RowExtendsChain ==
    ASSUME Inv, NEW t \in TicketId, ticket[t] # None, ChainOf(t), NEW row,
           row.seq = NextSequenceNo(t), row.from = ticket[t].status,
           history'[t] = history[t] \cup {row}, ticket'[t].status = row.to
    PROVE  ChainOf(t)'
<1> DEFINE n == Cardinality(history[t])
<1>1. n \in Nat /\ row.seq = n + 1 /\ history[t] # {} /\ Sequences(t) = 1 .. n
  BY NextSequence DEF Inv, TablesInv, NumberedHistory, GaplessHistory
<1>2. \A r \in history[t] : r.seq \in 1 .. n
  BY <1>1 DEF Sequences
<1>3. n >= 1
  BY <1>1, <1>2
<1> HIDE DEF n
<1>4. PICK last \in history[t] : last.seq = n
  <2>1. n \in Sequences(t) BY <1>1, <1>3
  <2> QED BY <2>1 DEF Sequences
<1>5. last.to = row.from
  BY <1>2, <1>4 DEF ChainOf
<1>6. ASSUME NEW r \in history'[t], r.seq > 1
      PROVE  \E q \in history'[t] : q.seq = r.seq - 1 /\ q.to = r.from
  <2>1. CASE r \in history[t] BY <1>6, <2>1 DEF ChainOf
  <2>2. CASE r = row
    <3>1. last.seq = r.seq - 1 BY <1>1, <1>4, <2>2
    <3> QED BY <3>1, <1>4, <1>5, <2>2
  <2> QED BY <2>1, <2>2
<1>7. ASSUME NEW r \in history'[t], \A q \in history'[t] : q.seq <= r.seq
      PROVE  r.to = ticket'[t].status
  <2>1. n + 1 <= r.seq BY <1>1, <1>7
  <2>2. r \notin history[t] BY <1>1, <1>2, <2>1
  <2> QED BY <2>2
<1> QED BY <1>6, <1>7 DEF ChainOf

(* For a serial client each row of a trail starts where the one before it  *)
(* ended: what was validated is what the row is written from.              *)
THEOREM TrailIsAChain ==
    ASSUME Serial
    PROVE  Spec => []HistoryIsAChain
<1> DEFINE Chains == \A t \in TicketId : ChainOf(t)
<1>1. Init => AllValid /\ Chains
  BY DEF Init, AllValid, Valid, Idle, ChainOf
<1>2. Inv /\ AllValid /\ [Next]_vars => AllValid'
  <2>1. UNCHANGED vars /\ AllValid => AllValid'
    BY DEF vars, AllValid, Valid
  <2> QED BY <2>1, StepStaysValid DEF Next
<1>3. Inv /\ AllValid /\ Chains /\ [Next]_vars => Chains'
  <2>1. UNCHANGED vars /\ Chains => Chains'
    BY DEF vars, ChainOf
  <2>2. ASSUME Inv, AllValid, Chains, NEW s \in Sessions, Step(s)
        PROVE  Chains'
    <3>0. ticket \in [TicketId -> TicketRow \cup {None}] /\ DOMAIN history = TicketId
      BY <2>2 DEF Inv, TypeOK
    <3>1. ASSUME NEW t \in TicketId, ticket[t] # None, NEW row,
                 row.seq = NextSequenceNo(t), row.from = ticket[t].status,
                 history' = [history EXCEPT ![t] = @ \cup {row}],
                 ticket'[t].status = row.to,
                 \A u \in TicketId \ {t} : ticket'[u] = ticket[u]
          PROVE  Chains'
      <4>1. history'[t] = history[t] \cup {row}
            /\ \A u \in TicketId \ {t} : history'[u] = history[u]
        BY <3>0, <3>1
      <4>2. ChainOf(t)' BY <2>2, <3>1, <4>1, RowExtendsChain
      <4>3. \A u \in TicketId \ {t} : ChainOf(u)' BY <2>2, <3>1, <4>1 DEF ChainOf
      <4> QED BY <4>2, <4>3
    <3>2. ASSUME UNCHANGED history, ~ApplyStatus(s), ~ReplyApply(s) PROVE Chains'
      <4>1. \A t \in TicketId : history[t] # {} => ticket[t] # None
        BY <2>2 DEF Inv, TablesInv, NumberedHistory, GaplessHistory
      <4>2. \A t \in TicketId : ticket[t] # None => ticket'[t] # None
        BY <2>2, ReportersStay
      <4>3. \A t \in TicketId : ticket[t] # None => ticket'[t].status = ticket[t].status
        BY <2>2, <3>2, <4>2, FacesStay DEF SameFace, FreshFace
      <4> QED BY <2>2, <3>2, <4>1, <4>3 DEF ChainOf
    <3>3. CASE ApplyStatus(s) \/ ReplyApply(s)
      <4> DEFINE c == session[s]
      <4>1. /\ c.ticket \in TicketId /\ ticket[c.ticket] # None
            /\ \A u \in TicketId \ {c.ticket} : ticket'[u] = ticket[u]
            /\ ticket'[c.ticket].status = c.to
        BY <2>2, <3>3, MovedFace
      <4>2. PICK row : /\ row.seq = NextSequenceNo(c.ticket)
                       /\ row.from = c.from /\ row.to = c.to
                       /\ history' = [history EXCEPT ![c.ticket] = @ \cup {row}]
        BY <2>2, <3>3, MovedRow
      <4>3. c.from = ticket[c.ticket].status
        BY <2>2, <3>3 DEF AllValid, Valid, ApplyStatus, ReplyApply, At
      <4> HIDE DEF c
      <4> QED BY <3>1, <4>1, <4>2, <4>3
    <3>4. CASE AssignCommit(s)
      <4> DEFINE c == session[s]
                 row == [seq |-> NextSequenceNo(c.ticket), from |-> c.from, to |-> c.from,
                         kind |-> "assignment", by |-> c.by]
      <4>1. /\ c.ticket \in TicketId /\ ticket[c.ticket] # None
            /\ ticket[c.ticket] \in TicketRow
        BY <2>2, <3>0, <3>4, Remembered DEF AssignCommit, At, Prepared
      <4>2. ticket' = [ticket EXCEPT ![c.ticket].assignee = c.assign]
            /\ history' = [history EXCEPT ![c.ticket] = @ \cup {row}]
        BY <3>4 DEF AssignCommit
      <4>3. ticket'[c.ticket].status = ticket[c.ticket].status
            /\ \A u \in TicketId \ {c.ticket} : ticket'[u] = ticket[u]
        BY <3>0, <4>1, <4>2 DEF TicketRow
      <4>4. c.from = ticket[c.ticket].status
        BY <2>2, <3>4 DEF AllValid, Valid, AssignCommit, At
      <4>5. row.seq = NextSequenceNo(c.ticket) /\ row.from = c.from /\ row.to = c.from
        OBVIOUS
      <4>6. row.from = ticket[c.ticket].status /\ ticket'[c.ticket].status = row.to
        BY <4>3, <4>4, <4>5
      <4> DEFINE t == c.ticket
      <4>7. /\ t \in TicketId /\ ticket[t] # None /\ row.seq = NextSequenceNo(t)
            /\ row.from = ticket[t].status /\ ticket'[t].status = row.to
            /\ history' = [history EXCEPT ![t] = @ \cup {row}]
            /\ \A u \in TicketId \ {t} : ticket'[u] = ticket[u]
        BY <4>1, <4>2, <4>3, <4>5, <4>6
      <4> HIDE DEF c, row, t
      <4> QED BY <3>1, <4>7
    <3>5. CASE \E t \in TicketId : InsertTicket(s, t) \/ \E u \in Users : CreateManual(s, t, u)
      <4>1. PICK t \in TicketId : InsertTicket(s, t) \/ \E u \in Users : CreateManual(s, t, u)
        BY <3>5
      <4>2. PICK f, reporter, linked : OpenTicket(s, t, f, reporter, linked)
        BY <4>1 DEF InsertTicket, CreateManual
      <4> DEFINE fresh == NewTicket(f, reporter, linked)
                 row == FirstRow(reporter)
      <4>3. fresh.status = "new" /\ row.seq = 1 /\ row.to = "new"
        BY DEF NewTicket, FirstRow
      <4>4. ticket' = [ticket EXCEPT ![t] = fresh] /\ history' = [history EXCEPT ![t] = {row}]
        BY <4>2 DEF OpenTicket
      <4> HIDE DEF fresh, row
      <4>5. history'[t] = {row} /\ ticket'[t].status = "new"
            /\ \A u \in TicketId \ {t} : ticket'[u] = ticket[u] /\ history'[u] = history[u]
        BY <3>0, <4>3, <4>4
      <4>6. ChainOf(t)' BY <4>3, <4>5 DEF ChainOf
      <4>7. \A u \in TicketId \ {t} : ChainOf(u)' BY <2>2, <4>5 DEF ChainOf
      <4> QED BY <4>6, <4>7
    <3>6. CASE Elsewhere(s) \/ LinkToExisting(s)
               \/ \E f \in Hash, o \in OccId, u \in Users \cup {System} : CaptureAttached(s, f, o, u)
      <4>1. UNCHANGED history
        BY <3>6 DEF Elsewhere, CaptureUnattached, CaptureSampledOut, Triage, tables,
                    LinkToExisting, CaptureAttached
      <4> QED BY <3>2, <3>3, <4>1
    <3> QED BY <2>2, <3>3, <3>4, <3>5, <3>6, Writers
  <2> QED BY <2>1, <2>2 DEF Next
<1>4. Chains => HistoryIsAChain
  BY DEF ChainOf, HistoryIsAChain
<1> QED BY <1>1, <1>2, <1>3, <1>4, Invariance, PTL DEF Spec

----------------------------------------------------------------------------
(* The abstract specification.  A status a session is about to write from  *)
(* has been read, so a row of the trail shows it: rows are only added.     *)

Shown(t) == {r.to : r \in history[t]}

\* What session s is about to write rests on a status the ticket had, and a
\* move on the workflow.
Backed(s) ==
    LET c == session[s]
    IN  c.pc \in Committing =>
            /\ c.ticket \in TicketId /\ c.from \in Shown(c.ticket)
            /\ c.pc # "assign" => <<c.from, c.to>> \in Transitions

AllBacked == \A s \in Sessions : Backed(s)

LEMMA RowsStay ==
    ASSUME Inv, NEW s \in Sessions, Step(s)
    PROVE  \A t \in TicketId : history[t] \subseteq history'[t]
<1>1. ASSUME UNCHANGED history PROVE \A t \in TicketId : history[t] \subseteq history'[t]
  BY <1>1
<1>2. CASE \/ Elsewhere(s) \/ LinkToExisting(s)
           \/ \E f \in Hash, o \in OccId, u \in Users \cup {System} : CaptureAttached(s, f, o, u)
  BY <1>1, <1>2 DEF Elsewhere, CaptureUnattached, CaptureSampledOut, Triage, tables,
                    LinkToExisting, CaptureAttached
<1>3. CASE \E t \in TicketId : InsertTicket(s, t) \/ \E u \in Users : CreateManual(s, t, u)
  BY <1>3, FirstRowAdded DEF RowsAdded
<1>4. CASE ApplyStatus(s) \/ ReplyApply(s)
  BY <1>4, MovedRow, AppendedRow DEF RowsAdded
<1>5. CASE AssignCommit(s)
  <2> DEFINE c == session[s]
             row == [seq |-> NextSequenceNo(c.ticket), from |-> c.from, to |-> c.from,
                     kind |-> "assignment", by |-> c.by]
  <2>1. history' = [history EXCEPT ![c.ticket] = @ \cup {row}]
    BY <1>5 DEF AssignCommit
  <2> HIDE DEF c, row
  <2> QED BY <2>1 DEF Inv, TypeOK
<1> QED BY <1>2, <1>3, <1>4, <1>5, Writers

\* A row of the trail shows the status a ticket has.
LEMMA StatusShown ==
    ASSUME HistoryTellsStatus, NEW t \in TicketId, ticket[t] # None
    PROVE  ticket[t].status \in Shown(t)
BY DEF HistoryTellsStatus, Shown, StatusRows

LEMMA StepStaysBacked ==
    ASSUME Inv, HistoryTellsStatus, AllBacked, NEW s \in Sessions, Step(s)
    PROVE  AllBacked'
<1> SUFFICES ASSUME NEW q \in Sessions, session'[q].pc \in Committing
             PROVE  LET c == session'[q]
                    IN  /\ c.ticket \in TicketId
                        /\ c.from \in {r.to : r \in history'[c.ticket]}
                        /\ c.pc # "assign" => <<c.from, c.to>> \in Transitions
  BY DEF AllBacked, Backed, Shown
<1> DEFINE c == session'[q]
<1>1. CASE q # s
  <2>1. session'[q] = session[q]
    BY <1>1, StepReads
  <2>2. c.ticket \in TicketId /\ c.from \in Shown(c.ticket)
        /\ (c.pc # "assign" => <<c.from, c.to>> \in Transitions)
    BY <2>1 DEF AllBacked, Backed
  <2> HIDE DEF c
  <2>3. history[c.ticket] \subseteq history'[c.ticket]
    BY <2>2, RowsStay
  <2> QED BY <2>2, <2>3 DEF Shown, c
<1>2. CASE q = s
  <2>1. Reads(s)
    BY <1>2, StepReads DEF ReadsFirst
  <2>2. c.from \in Shown(c.ticket)
    BY <1>2, <2>1, StatusShown DEF Reads
  <2> QED BY <1>2, <2>1, <2>2 DEF Reads, Shown
<1> QED BY <1>1, <1>2

----------------------------------------------------------------------------
(* The trail as a sequence.                                                *)

EntryOf(r) == [kind |-> r.kind, from |-> r.from, to |-> r.to]

RowAt(rows, n) == CHOOSE x \in {y \in rows : y.seq = n} : TRUE

Listed(rows) == [n \in 1 .. Cardinality(rows) |-> EntryOf(RowAt(rows, n))]

\* Numbered 1 .. n without a gap.
Gapless(rows) == IsFiniteSet(rows) /\ {r.seq : r \in rows} = 1 .. Cardinality(rows)

LEMMA TrailIsListed ==
    ASSUME NEW t \in TicketId
    PROVE  TrailOf(t) = Listed(history[t]) /\ TrailOf(t)' = Listed(history'[t])
BY DEF TrailOf, Listed, EntryOf, RowAt

\* n rows share n numbers: a number names one row.
LEMMA OneRowPerNumber ==
    ASSUME NEW rows, Gapless(rows), NEW r \in rows, NEW q \in rows, r.seq = q.seq
    PROVE  r = q
<1> DEFINE n == Cardinality(rows)
           number == [x \in rows |-> x.seq]
<1>1. IsFiniteSet(rows) /\ n \in Nat /\ {x.seq : x \in rows} = 1 .. n
  BY FS_CardinalityType DEF Gapless
<1> HIDE DEF n
<1>2. number \in Surjection(rows, 1 .. n)
  BY <1>1 DEF Surjection
<1>3. Cardinality(1 .. n) = n
  BY <1>1, FS_Interval
<1> HIDE DEF number
<1>4. number \in Injection(rows, 1 .. n)
  BY <1>1, <1>2, <1>3, FS_Surjection DEF n
<1>5. number[r] = number[q]
  BY DEF number
<1> QED BY <1>4, <1>5 DEF Injection, IsInjective

\* An entry stands for each row.
LEMMA RowIsListed ==
    ASSUME NEW rows, Gapless(rows), NEW r \in rows
    PROVE  r.seq \in DOMAIN Listed(rows) /\ Listed(rows)[r.seq] = EntryOf(r)
<1> DEFINE n == r.seq
<1>1. n \in 1 .. Cardinality(rows)
  BY DEF Gapless
<1>2. {y \in rows : y.seq = n} = {r}
  BY OneRowPerNumber
<1>3. RowAt(rows, n) = r
  BY <1>2 DEF RowAt
<1> HIDE DEF n
<1> QED BY <1>1, <1>3 DEF Listed, n

LEMMA FunctionIsSeq ==
    ASSUME NEW S, NEW n \in Nat, NEW f, f = [i \in 1 .. n |-> f[i]], \A i \in 1 .. n : f[i] \in S
    PROVE  f \in Seq(S) /\ Len(f) = n
OBVIOUS

\* A sequence of one more entry.
OneLonger(longer, seq, e) ==
    LET n == Len(seq)
    IN  /\ longer = [i \in 1 .. (n + 1) |-> longer[i]]
        /\ \A i \in 1 .. n : longer[i] = seq[i]
        /\ longer[n + 1] = e

LEMMA OneMore ==
    ASSUME NEW S, NEW seq \in Seq(S), NEW e \in S, NEW longer, OneLonger(longer, seq, e)
    PROVE  longer = Append(seq, e)
<1> DEFINE n == Len(seq)
<1>0. /\ n \in Nat
      /\ longer = [i \in 1 .. (n + 1) |-> longer[i]]
      /\ \A i \in 1 .. n : longer[i] = seq[i]
      /\ longer[n + 1] = e
  <2>1. n \in Nat
    OBVIOUS
  <2> QED BY <2>1, Zenon DEF OneLonger
<1>1. /\ Append(seq, e) \in Seq(S) /\ Len(Append(seq, e)) = n + 1
      /\ \A i \in 1 .. n : Append(seq, e)[i] = seq[i]
      /\ Append(seq, e)[n + 1] = e
  BY AppendProperties
<1> HIDE DEF n
<1>2. \A i \in 1 .. (n + 1) : longer[i] \in S /\ longer[i] = Append(seq, e)[i]
  <2> SUFFICES ASSUME NEW i \in 1 .. (n + 1)
               PROVE  longer[i] \in S /\ longer[i] = Append(seq, e)[i]
    OBVIOUS
  <2>1. CASE i = n + 1 BY <1>0, <1>1, <2>1
  <2>2. CASE i # n + 1
    <3>1. i \in 1 .. n BY <1>0, <2>2
    <3>2. seq[i] \in S BY <3>1, ElementOfSeq DEF n
    <3> QED BY <1>0, <1>1, <3>1, <3>2
  <2> QED BY <2>1, <2>2
<1>3. n + 1 \in Nat
  BY <1>0
<1>4. longer \in Seq(S) /\ Len(longer) = n + 1
  BY <1>0, <1>2, <1>3, FunctionIsSeq
<1> QED BY <1>1, <1>2, <1>4, SeqEqual

\* A row under the next number is an entry at the end.
LEMMA ListGrows ==
    ASSUME NEW rows, Gapless(rows), NEW row, row.seq = Cardinality(rows) + 1
    PROVE  Listed(rows \cup {row}) = Append(Listed(rows), EntryOf(row))
<1> DEFINE n == Cardinality(rows)
           more == rows \cup {row}
           old == Listed(rows)
           new == Listed(more)
           e == EntryOf(row)
<1>1. n \in Nat /\ row.seq = n + 1 /\ IsFiniteSet(rows)
  BY FS_CardinalityType DEF Gapless
<1>2. \A r \in rows : r.seq \in 1 .. n
  BY DEF Gapless
<1>3. row \notin rows
  BY <1>1, <1>2
<1>4. Cardinality(more) = n + 1
  BY <1>1, <1>3, FS_AddElement
<1> HIDE DEF n
<1>5. ASSUME NEW i \in 1 .. n PROVE RowAt(more, i) = RowAt(rows, i)
  <2>1. i # n + 1 BY <1>1
  <2>2. {y \in more : y.seq = i} = {y \in rows : y.seq = i}
    BY <1>1, <2>1
  <2> QED BY <2>2 DEF RowAt
<1>6. RowAt(more, n + 1) = row
  <2>1. \A r \in rows : r.seq # n + 1
    BY <1>1, <1>2
  <2>2. {y \in more : y.seq = n + 1} = {row}
    BY <1>1, <2>1
  <2> QED BY <2>2 DEF RowAt
<1> HIDE DEF more
<1>7. old = [i \in 1 .. n |-> EntryOf(RowAt(rows, i))]
  BY DEF Listed, n
<1>8. new = [i \in 1 .. (n + 1) |-> EntryOf(RowAt(more, i))]
  BY <1>4 DEF Listed
<1> HIDE DEF old, new, e
<1> DEFINE S == {e} \cup {old[i] : i \in 1 .. n}
<1>9. old = [i \in 1 .. n |-> old[i]] /\ \A i \in 1 .. n : old[i] \in S
  BY <1>7
<1>10. e \in S
  OBVIOUS
<1> HIDE DEF S
<1>11. old \in Seq(S) /\ Len(old) = n
  BY <1>1, <1>9, FunctionIsSeq
<1>12. new = [i \in 1 .. (n + 1) |-> new[i]]
  BY <1>8
<1>13. \A i \in 1 .. n : new[i] = old[i]
  <2> SUFFICES ASSUME NEW i \in 1 .. n PROVE new[i] = old[i]
    OBVIOUS
  <2>1. i \in 1 .. (n + 1)
    BY <1>1
  <2> QED BY <1>5, <1>7, <1>8, <2>1
<1>14. new[n + 1] = e
  <2>1. n + 1 \in 1 .. (n + 1)
    BY <1>1
  <2> QED BY <1>6, <1>8, <2>1 DEF e
<1>15. OneLonger(new, old, e)
  BY <1>11, <1>12, <1>13, <1>14 DEF OneLonger
<1>16. new = Append(old, e)
  BY <1>10, <1>11, <1>15, OneMore
<1> QED BY <1>16 DEF new, old, e, more

----------------------------------------------------------------------------
(* The refinement.                                                         *)

Statuses == [t \in TicketId |-> StatusOf(t)]
Trails == [t \in TicketId |-> TrailOf(t)]

LEMMA TrailsGapless ==
    ASSUME Inv, NEW t \in TicketId
    PROVE  /\ Gapless(history[t])
           /\ NextSequenceNo(t) = Cardinality(history[t]) + 1
           /\ ticket[t] = None <=> history[t] = {}
BY NextSequence DEF Inv, TablesInv, NumberedHistory, GaplessHistory, Gapless, Sequences

\* A row under the next number is one entry at the end of one trail.
LEMMA EntryTold ==
    ASSUME Inv, NEW t \in TicketId, NEW row, row.seq = NextSequenceNo(t),
           history' = [history EXCEPT ![t] = @ \cup {row}]
    PROVE  Trails' = [Trails EXCEPT ![t] = Append(@, EntryOf(row))]
<1>1. history'[t] = history[t] \cup {row} /\ \A u \in TicketId \ {t} : history'[u] = history[u]
  BY DEF Inv, TypeOK
<1>2. TrailOf(t)' = Append(TrailOf(t), EntryOf(row))
  <2>1. Listed(history[t] \cup {row}) = Append(Listed(history[t]), EntryOf(row))
    BY TrailsGapless, ListGrows
  <2> QED BY <1>1, <2>1, TrailIsListed
<1>3. \A u \in TicketId \ {t} : TrailOf(u)' = TrailOf(u)
  BY <1>1, TrailIsListed
<1> DEFINE longer == Append(TrailOf(t), EntryOf(row))
<1> HIDE DEF longer
<1>4. Trails' = [Trails EXCEPT ![t] = longer]
  BY <1>2, <1>3 DEF Trails, longer
<1>5. Trails[t] = TrailOf(t)
  BY DEF Trails
<1> QED BY <1>4, <1>5 DEF longer

\* The ticket a step changes gets a status, the others keep theirs.
LEMMA StatusTold ==
    ASSUME NEW t \in TicketId, ticket'[t] # None,
           \A u \in TicketId \ {t} : ticket'[u] = ticket[u]
    PROVE  Statuses' = [Statuses EXCEPT ![t] = ticket'[t].status]
BY DEF Statuses, StatusOf

\* A status a row shows is one the abstract trail has had.
LEMMA ShownIsHad ==
    ASSUME Inv, NEW t \in TicketId, NEW from \in Shown(t)
    PROVE  \E i \in DOMAIN Trails[t] : Trails[t][i].to = from
<1>1. PICK r \in history[t] : r.to = from
  BY DEF Shown
<1>2. r.seq \in DOMAIN TrailOf(t) /\ TrailOf(t)[r.seq] = EntryOf(r)
  BY TrailsGapless, RowIsListed, TrailIsListed
<1>3. EntryOf(r).to = from
  BY <1>1 DEF EntryOf
<1>4. Trails[t] = TrailOf(t)
  BY DEF Trails
<1> QED BY <1>2, <1>3, <1>4

LEMMA NothingKept ==
    ASSUME Inv, Inv', NEW s \in Sessions, Step(s), UNCHANGED history,
           ~ApplyStatus(s), ~ReplyApply(s)
    PROVE  [P!PNext]_P!pvars
<1>1. \A t \in TicketId : TrailOf(t)' = TrailOf(t)
  BY TrailIsListed
<1>2. ASSUME NEW t \in TicketId PROVE StatusOf(t)' = StatusOf(t)
  <2>1. (ticket[t] = None <=> history[t] = {}) /\ (ticket'[t] = None <=> history'[t] = {})
    BY DEF Inv, TablesInv, NumberedHistory, GaplessHistory
  <2>2. ticket'[t] # None => SameFace(t) \/ FreshFace(t)
    BY FacesStay
  <2> QED BY <2>1, <2>2 DEF StatusOf, SameFace, FreshFace
<1>3. Trails' = Trails
  BY <1>1 DEF Trails
<1>4. Statuses' = Statuses
  BY <1>2 DEF Statuses
<1> QED BY <1>3, <1>4 DEF P!pvars, Statuses, Trails

LEMMA OpenKept ==
    ASSUME Inv, Inv', NEW s \in Sessions, NEW t \in TicketId,
           InsertTicket(s, t) \/ \E u \in Users : CreateManual(s, t, u)
    PROVE  [P!PNext]_P!pvars
<1>1. PICK f, reporter, linked : OpenTicket(s, t, f, reporter, linked)
  BY DEF InsertTicket, CreateManual
<1> DEFINE fresh == NewTicket(f, reporter, linked)
           row == FirstRow(reporter)
<1>2. /\ fresh.status = "new" /\ row.seq = 1
      /\ row.kind = "status" /\ row.from = None /\ row.to = "new"
  BY DEF NewTicket, FirstRow
<1>3. /\ ticket[t] = None /\ ticket' = [ticket EXCEPT ![t] = fresh]
      /\ history' = [history EXCEPT ![t] = {row}]
  BY <1>1 DEF OpenTicket
<1> HIDE DEF fresh, row
<1>4. history[t] = {}
  BY <1>3, TrailsGapless
<1>5. history' = [history EXCEPT ![t] = @ \cup {row}]
  BY <1>3, <1>4
<1>6. row.seq = NextSequenceNo(t)
  BY <1>2, <1>4 DEF NextSequenceNo
<1>7. Trails' = [Trails EXCEPT ![t] = Append(@, EntryOf(row))]
  BY <1>5, <1>6, EntryTold
<1>8. ticket'[t] = fresh /\ \A u \in TicketId \ {t} : ticket'[u] = ticket[u]
  BY <1>3 DEF Inv, TypeOK
<1>9. Statuses' = [Statuses EXCEPT ![t] = "new"]
  <2>1. history'[t] # {}
    BY <1>5 DEF Inv, TypeOK
  <2>2. ticket'[t] # None
    BY <2>1 DEF Inv, TablesInv, NumberedHistory, GaplessHistory
  <2> QED BY <1>2, <1>8, <2>2, StatusTold
<1>10. Statuses[t] = None
  BY <1>3 DEF Statuses, StatusOf
<1>11. EntryOf(row) = P!Entry("status", None, "new")
  BY <1>2 DEF EntryOf, P!Entry
<1>12. P!Open(t)
  BY <1>7, <1>9, <1>10, <1>11 DEF P!Open, P!Told, Statuses, Trails
<1> QED BY <1>12 DEF P!PNext

LEMMA MoveKept ==
    ASSUME Inv, Inv', AllBacked, Serial => AllValid, NEW s \in Sessions,
           ApplyStatus(s) \/ ReplyApply(s)
    PROVE  [P!PNext]_P!pvars
<1> DEFINE c == session[s]
           t == c.ticket
<1>1. /\ t \in TicketId /\ ticket[t] # None
      /\ \A u \in TicketId \ {t} : ticket'[u] = ticket[u]
      /\ ticket'[t].status = c.to
  BY MovedFace
<1>2. PICK row : /\ row.seq = NextSequenceNo(t) /\ row.kind = "status"
                 /\ row.from = c.from /\ row.to = c.to
                 /\ history' = [history EXCEPT ![t] = @ \cup {row}]
  BY MovedRow
<1>3. c.from \in Shown(t) /\ <<c.from, c.to>> \in Transitions
  BY DEF AllBacked, Backed, Committing, ApplyStatus, ReplyApply, At
<1>4. Serial => c.from = ticket[t].status
  BY DEF AllValid, Valid, ApplyStatus, ReplyApply, At
<1> DEFINE from == c.from
           to == c.to
<1> HIDE DEF c, t, from, to
<1>5. ticket'[t] # None
  <2>1. history'[t] # {}
    BY <1>1, <1>2 DEF Inv, TypeOK
  <2> QED BY <1>1, <2>1 DEF Inv, TablesInv, NumberedHistory, GaplessHistory
<1>6. Trails' = [Trails EXCEPT ![t] = Append(@, EntryOf(row))]
  BY <1>1, <1>2, EntryTold
<1>7. Statuses' = [Statuses EXCEPT ![t] = to]
  BY <1>1, <1>5, StatusTold DEF to
<1>8. EntryOf(row) = P!Entry("status", from, to)
  BY <1>2 DEF EntryOf, P!Entry, from, to
<1>9. P!Had(t, from)
  BY <1>1, <1>3, ShownIsHad DEF P!Had, Trails, from
<1>10. Serial => from = Statuses[t]
  BY <1>1, <1>4 DEF Statuses, StatusOf, from
<1>11. <<from, to>> \in Transitions
  BY <1>3 DEF from, to
<1>12. P!Move(t, from, to)
  BY <1>6, <1>7, <1>8, <1>9, <1>10, <1>11 DEF P!Move, P!Told, Statuses, Trails
<1>13. \E move \in Transitions : P!Move(t, move[1], move[2])
  <2> DEFINE move == <<from, to>>
  <2>1. move[1] = from /\ move[2] = to
    OBVIOUS
  <2> QED BY <1>11, <1>12, <2>1
<1>14. P!Exists(t)
  <2>1. ticket[t].status \in Status
    BY <1>1 DEF Inv, TypeOK, TicketRow
  <2>2. Statuses[t] = ticket[t].status
    BY <1>1 DEF Statuses, StatusOf
  <2> QED BY <2>1, <2>2, <1>1, IdsAssumption DEF P!Exists, Statuses
<1> QED BY <1>1, <1>13, <1>14 DEF P!PNext

LEMMA AssignKept ==
    ASSUME Inv, AllBacked, Serial => AllValid, NEW s \in Sessions, AssignCommit(s)
    PROVE  [P!PNext]_P!pvars
<1> DEFINE c == session[s]
           t == c.ticket
           from == c.from
           row == [seq |-> NextSequenceNo(t), from |-> from, to |-> from,
                   kind |-> "assignment", by |-> c.by]
           given == [ticket[t] EXCEPT !.assignee = c.assign]
<1>1. t \in TicketId /\ ticket[t] # None /\ ticket[t] \in TicketRow
  BY Remembered DEF AssignCommit, At, Prepared
<1>2. ticket' = [ticket EXCEPT ![t] = given] /\ history' = [history EXCEPT ![t] = @ \cup {row}]
  BY DEF AssignCommit
<1>3. from \in Shown(t)
  BY DEF AllBacked, Backed, Committing, AssignCommit, At
<1>4. Serial => from = ticket[t].status
  BY DEF AllValid, Valid, AssignCommit, At
<1>5. row.seq = NextSequenceNo(t) /\ EntryOf(row) = P!Entry("assignment", from, from)
  BY DEF EntryOf, P!Entry
<1>6. given.status = ticket[t].status /\ given \in TicketRow
  <2>1. c.assign \in Agents \cup {None}
    BY DEF Inv, TypeOK, SessionState
  <2> QED BY <1>1, <2>1 DEF TicketRow
<1> HIDE DEF c, t, from, row, given
<1>7. /\ ticket'[t] = given /\ given # None
      /\ \A u \in TicketId \ {t} : ticket'[u] = ticket[u]
  BY <1>1, <1>2, <1>6, RowsAssumption DEF Inv, TypeOK
<1>8. Statuses' = Statuses
  BY <1>1, <1>6, <1>7 DEF Statuses, StatusOf
<1>9. Trails' = [Trails EXCEPT ![t] = Append(@, EntryOf(row))]
  BY <1>1, <1>2, <1>5, EntryTold
<1>10. PICK i \in DOMAIN Trails[t] : Trails[t][i].to = from
  BY <1>1, <1>3, ShownIsHad
<1>11. Serial => from = Statuses[t]
  BY <1>1, <1>4 DEF Statuses, StatusOf
<1>12. P!Assign(t, from)
  BY <1>5, <1>8, <1>9, <1>10, <1>11 DEF P!Assign, P!Had, P!Told, Statuses, Trails
<1> QED BY <1>1, <1>10, <1>12 DEF P!PNext, Trails

LEMMA StepKept ==
    ASSUME Inv, Inv', AllBacked, Serial => AllValid, NEW s \in Sessions, Step(s)
    PROVE  [P!PNext]_P!pvars
<1>1. CASE \/ Elsewhere(s) \/ LinkToExisting(s)
           \/ \E f \in Hash, o \in OccId, u \in Users \cup {System} : CaptureAttached(s, f, o, u)
  <2>1. UNCHANGED history
    BY <1>1 DEF Elsewhere, CaptureUnattached, CaptureSampledOut, Triage, tables,
                LinkToExisting, CaptureAttached
  <2>2. CASE ApplyStatus(s) \/ ReplyApply(s)
    BY <2>2, MoveKept
  <2> QED BY <2>1, <2>2, NothingKept
<1>2. CASE \E t \in TicketId : InsertTicket(s, t) \/ \E u \in Users : CreateManual(s, t, u)
  BY <1>2, OpenKept
<1>3. CASE ApplyStatus(s) \/ ReplyApply(s)
  BY <1>3, MoveKept
<1>4. CASE AssignCommit(s)
  BY <1>4, AssignKept
<1> QED BY <1>1, <1>2, <1>3, <1>4, Writers

(* Tickets and their trails change as TicketPromise says, for any number   *)
(* of sessions and wherever they die: the status with its entry and never  *)
(* without, no entry lost or rewritten, each along the configured workflow *)
(* from a status the ticket had; for a serial client from the one it has.  *)
THEOREM TicketsKeepPromise == Spec => KeepsPromise
<1>1. Init => P!PInit
  <2> SUFFICES ASSUME Init PROVE P!PInit
    OBVIOUS
  <2>1. \A t \in TicketId : StatusOf(t) = None
    BY DEF Init, StatusOf
  <2>2. \A t \in TicketId : TrailOf(t) = << >>
    <3>1. Cardinality({}) = 0
      BY FS_EmptySet
    <3> QED BY <3>1, TrailIsListed DEF Init, Listed
  <2> QED BY <2>1, <2>2 DEF P!PInit
<1>2. Init => AllBacked /\ AllValid
  BY DEF Init, AllBacked, Backed, Committing, AllValid, Valid, Idle
<1>3. Inv /\ HistoryTellsStatus /\ AllBacked /\ [Next]_vars => AllBacked'
  <2>1. UNCHANGED vars /\ AllBacked => AllBacked'
    BY DEF vars, AllBacked, Backed, Shown
  <2> QED BY <2>1, StepStaysBacked DEF Next
<1>4. Inv /\ (Serial => AllValid) /\ [Next]_vars => (Serial => AllValid)'
  <2>1. UNCHANGED vars /\ AllValid => AllValid'
    BY DEF vars, AllValid, Valid
  <2>2. Serial' <=> Serial
    BY DEF Serial
  <2> QED BY <2>1, <2>2, StepStaysValid DEF Next
<1>5. Inv /\ Inv' /\ AllBacked /\ (Serial => AllValid) /\ [Next]_vars => [P!PNext]_P!pvars
  <2>1. ASSUME Inv, Inv', UNCHANGED vars PROVE [P!PNext]_P!pvars
    <3>1. Trails' = Trails
      BY <2>1, TrailIsListed DEF Trails, vars
    <3>2. Statuses' = Statuses
      BY <2>1 DEF Statuses, StatusOf, vars
    <3> QED BY <3>1, <3>2 DEF P!pvars, Statuses, Trails
  <2> QED BY <2>1, StepKept DEF Next
<1> DEFINE Sound == Serial => AllValid
<1>6. Init => Sound
  BY <1>2
<1>7. Inv /\ Sound /\ [Next]_vars => Sound'
  BY <1>4
<1>8. Inv /\ Inv' /\ AllBacked /\ Sound /\ [Next]_vars => [P!PNext]_P!pvars
  BY <1>5
<1> HIDE DEF Sound
<1> QED BY <1>1, <1>2, <1>3, <1>6, <1>7, <1>8, Invariance, TrailTellsStatus, PTL
        DEF Spec, KeepsPromise, P!Promise

=============================================================================
