------------------------ MODULE TicketLifecycle_proofs ------------------------
(***************************************************************************)
(* Theorems about the ticket core, for any number of sessions, problems,   *)
(* occurrences, tickets and people, and any configured workflow.           *)
(*                                                                         *)
(* The inductive invariant Inv has four parts that need one another: the   *)
(* types; what a session remembers (SessionsReady), because a statement    *)
(* updates the rows it remembers; OpenTicketLive, because a capture updates *)
(* the ticket OpenTicketID names; and the numbering of the audit trail,    *)
(* because the next number is found as the largest one so far.  SameProblem *)
(* rests on Inv and on what a session that is about to link remembers.     *)
(***************************************************************************)
EXTENDS TicketLifecycle, FiniteSetTheorems, TLAPS

(* What a session remembers is what its next statement needs.              *)
Prepared(c) ==
    /\ c.ticket # None => ticket[c.ticket] # None
    /\ c.occ # None => occurrence[c.occ] # None
    /\ c.pc \in {"evaluate", "link", "insert"} => c.occ # None
    /\ c.pc \in {"link", "apply", "assign", "advance", "reply", "reply_apply",
                 "notify_created", "notify_status", "notify_assigned"}
           => c.ticket # None
    /\ c.pc \in {"insert", "apply", "assign", "advance", "reply", "reply_apply"}
           => c.by # None
    /\ c.pc \in {"apply", "reply_apply"} => c.to # None
    /\ c.pc \in {"assign", "advance"} => c.from # None

Ready(s) == Prepared(session[s])

SessionsReady == \A s \in Sessions : Ready(s)

TablesTyped ==
    /\ fingerprint \in [Hash -> FingerprintRow]
    /\ occurrence \in [OccId -> OccurrenceRow \cup {None}]
    /\ ticket \in [TicketId -> TicketRow \cup {None}]
    /\ links \subseteq TicketId \X OccId
    /\ history \in [TicketId -> SUBSET HistoryRow]

NumberedHistory ==
    /\ \A t \in TicketId : IsFiniteSet(history[t])
    /\ GaplessHistory

TablesInv == TablesTyped /\ OpenTicketLive /\ NumberedHistory

Inv == TablesInv /\ TypeOK /\ SessionsReady

(* Rows of tickets and occurrences are never deleted, and neither changes  *)
(* the problem it belongs to (retention, which does delete, is a different *)
(* component and takes closed tickets only).                               *)
Persistent ==
    /\ \A t \in TicketId : ticket[t] # None =>
            ticket'[t] # None /\ ticket'[t].fp = ticket[t].fp
    /\ \A o \in OccId : occurrence[o] # None =>
            occurrence'[o] # None /\ occurrence'[o].fp = occurrence[o].fp

----------------------------------------------------------------------------
(* Sessions.                                                               *)

LEMMA IdleTyped == Idle \in SessionState
BY DEF Idle, SessionState

LEMMA InitInv == Init => Inv
<1> SUFFICES ASSUME Init PROVE Inv
  OBVIOUS
<1>1. fingerprint \in [Hash -> FingerprintRow]
  BY DEF Init, FingerprintRow, TriageState
<1>2. TypeOK /\ TablesTyped
  BY <1>1, IdleTyped DEF Init, TypeOK, TablesTyped
<1>3. SessionsReady
  BY DEF Init, SessionsReady, Ready, Prepared, Idle
<1>4. OpenTicketLive
  BY DEF Init, OpenTicketLive
<1>5. NumberedHistory
  <2> SUFFICES ASSUME NEW t \in TicketId
               PROVE  /\ IsFiniteSet(history[t])
                      /\ ticket[t] = None <=> history[t] = {}
                      /\ Sequences(t) = 1 .. Cardinality(history[t])
    BY DEF NumberedHistory, GaplessHistory
  <2>1. history[t] = {} /\ ticket[t] = None
    BY DEF Init
  <2>2. IsFiniteSet(history[t]) /\ Cardinality(history[t]) = 0
    BY <2>1, FS_EmptySet
  <2>3. Sequences(t) = {} /\ 1 .. 0 = {}
    BY <2>1 DEF Sequences
  <2> QED BY <2>1, <2>2, <2>3
<1> QED BY <1>2, <1>3, <1>4, <1>5 DEF Inv, TablesInv

(* A session that does not move stays ready while rows persist.            *)
LEMMA StaysReady ==
    ASSUME Inv, NEW r \in Sessions, session'[r] = session[r], Persistent
    PROVE  Ready(r)'
<1>1. Ready(r) /\ session[r] \in SessionState
  BY DEF Inv, TypeOK, SessionsReady
<1>2. /\ session[r].ticket \in TicketId \cup {None}
      /\ session[r].occ \in OccId \cup {None}
  BY <1>1 DEF SessionState
<1> QED BY <1>1, <1>2 DEF Ready, Prepared, Persistent

(* The invariant is kept by a step that moves session s on, keeps the      *)
(* tables' part of it and leaves s itself ready.                           *)
LEMMA StepKeepsInv ==
    ASSUME Inv, NEW s \in Sessions, NEW c \in SessionState, Goto(s, c),
           TablesInv', Persistent, outbox' \subseteq OutboxRow, Ready(s)'
    PROVE  Inv'
<1>1. session' \in [Sessions -> SessionState]
  BY DEF Inv, TypeOK, Goto
<1>2. TypeOK'
  BY <1>1 DEF TypeOK, TablesInv, TablesTyped
<1>3. ASSUME NEW r \in Sessions \ {s} PROVE Ready(r)'
  BY StaysReady DEF Inv, TypeOK, Goto
<1> QED BY <1>2, <1>3 DEF Inv, SessionsReady

(* Likewise a procedure of a single statement, which no session remembers. *)
LEMMA AtomicKeepsInv ==
    ASSUME Inv, TablesInv', Persistent, UNCHANGED <<outbox, session>>
    PROVE  Inv'
<1>1. TypeOK'
  BY DEF Inv, TypeOK, TablesInv, TablesTyped
<1>2. SessionsReady'
  BY StaysReady DEF SessionsReady
<1> QED BY <1>1, <1>2 DEF Inv

LEMMA TablesKept ==
    ASSUME Inv, UNCHANGED tables
    PROVE  TablesInv' /\ Persistent
<1>1. TablesTyped'
  BY DEF Inv, TablesInv, TablesTyped, tables
<1>2. OpenTicketLive'
  BY DEF Inv, TablesInv, OpenTicketLive, tables
<1>3. NumberedHistory'
  BY DEF Inv, TablesInv, NumberedHistory, GaplessHistory, Sequences, tables
<1> QED BY <1>1, <1>2, <1>3 DEF TablesInv, Persistent, tables

(* A step that only moves its session on.                                  *)
LEMMA SessionOnly ==
    ASSUME Inv, NEW s \in Sessions, NEW c \in SessionState,
           Goto(s, c), UNCHANGED <<tables, outbox>>, Prepared(c)
    PROVE  Inv' /\ Persistent
<1>1. TablesInv' /\ Persistent
  BY TablesKept
<1>2. outbox' \subseteq OutboxRow
  BY DEF Inv, TypeOK
<1>3. Ready(s)'
  BY DEF Ready, Prepared, Goto, tables, Inv, TypeOK
<1> QED BY <1>1, <1>2, <1>3, StepKeepsInv

----------------------------------------------------------------------------
(* The audit trail.                                                        *)

(* The largest number of a gapless trail is its length.                    *)
LEMMA NextSequence ==
    ASSUME NumberedHistory, NEW t \in TicketId
    PROVE  /\ Cardinality(history[t]) \in Nat
           /\ NextSequenceNo(t) = Cardinality(history[t]) + 1
<1> DEFINE n == Cardinality(history[t])
<1>1. IsFiniteSet(history[t]) /\ Sequences(t) = 1 .. n
  BY DEF NumberedHistory, GaplessHistory
<1>2. n \in Nat
  BY <1>1, FS_CardinalityType
<1>3. CASE history[t] = {}
  BY <1>3, FS_EmptySet DEF NextSequenceNo
<1>4. CASE history[t] # {}
  <2>1. n # 0
    BY <1>1, <1>4, FS_EmptySet
  <2> DEFINE largest == CHOOSE k \in Sequences(t) : \A m \in Sequences(t) : m <= k
  <2>2. n \in Sequences(t) /\ \A m \in Sequences(t) : m <= n
    BY <1>1, <1>2, <2>1
  <2>3. largest \in Sequences(t) /\ \A m \in Sequences(t) : m <= largest
    BY <2>2
  <2>4. largest = n
    <3> HIDE DEF largest
    <3> QED BY <1>1, <1>2, <2>2, <2>3
  <2>5. NextSequenceNo(t) = largest + 1
    BY <1>4 DEF NextSequenceNo
  <2> QED BY <1>2, <2>4, <2>5
<1> QED BY <1>2, <1>3, <1>4

(* Appending a row with the next number keeps a trail gapless.             *)
LEMMA AppendRow ==
    ASSUME TablesInv, NEW t \in TicketId, NEW row,
           row.seq = NextSequenceNo(t), ticket[t] # None,
           history' = [history EXCEPT ![t] = @ \cup {row}],
           \A u \in TicketId : ticket'[u] = None <=> ticket[u] = None
    PROVE  NumberedHistory'
<1> DEFINE n == Cardinality(history[t])
<1>1. n \in Nat /\ row.seq = n + 1
  BY NextSequence DEF TablesInv
<1>2. IsFiniteSet(history[t]) /\ Sequences(t) = 1 .. n
  BY DEF TablesInv, NumberedHistory, GaplessHistory
<1>3. row \notin history[t]
  BY <1>1, <1>2 DEF Sequences
<1>4. history'[t] = history[t] \cup {row}
  BY DEF TablesInv, TablesTyped
<1>5. IsFiniteSet(history'[t]) /\ Cardinality(history'[t]) = n + 1
  <2>1. IsFiniteSet(history[t])
    BY <1>2
  <2>2. IsFiniteSet(history[t] \cup {row})
    BY <2>1, FS_AddElement
  <2>3. Cardinality(history[t] \cup {row}) = Cardinality(history[t]) + 1
    BY <2>1, <1>3, FS_AddElement
  <2> QED BY <2>2, <2>3, <1>4
<1>6. Sequences(t)' = Sequences(t) \cup {n + 1}
  BY <1>1, <1>4 DEF Sequences
<1>7. Sequences(t)' = 1 .. (n + 1)
  BY <1>1, <1>2, <1>6
<1>8. ASSUME NEW u \in TicketId
      PROVE  /\ IsFiniteSet(history'[u])
             /\ ticket'[u] = None <=> history'[u] = {}
             /\ Sequences(u)' = 1 .. Cardinality(history'[u])
  <2>1. CASE u = t
    BY <2>1, <1>4, <1>5, <1>7
  <2>2. CASE u # t
    <3>1. history'[u] = history[u]
      BY <2>2 DEF TablesInv, TablesTyped
    <3> QED BY <3>1 DEF TablesInv, NumberedHistory, GaplessHistory, Sequences
  <2> QED BY <2>1, <2>2
<1> QED BY <1>8 DEF NumberedHistory, GaplessHistory

----------------------------------------------------------------------------
(* Tables untouched but for fields the invariant does not read.            *)

(* The transaction of usp_Ticket_ChangeStatus, whatever its values: in     *)
(* particular when the status it read has changed since.                   *)
LEMMA MoveTicketKeepsInv ==
    ASSUME TablesInv, NEW t \in TicketId, ticket[t] # None,
           NEW from \in Status \cup {None}, NEW to \in Status,
           NEW assign \in Agents \cup {None}, NEW by \in Person,
           MoveTicket(t, from, to, assign, by)
    PROVE  TablesInv' /\ Persistent
<1> DEFINE f == ticket[t].fp
           row == [seq |-> NextSequenceNo(t), from |-> from, to |-> to,
                   kind |-> "status", by |-> by]
<1>1. ticket[t] \in TicketRow
  BY DEF TablesInv, TablesTyped
<1>2. NextSequenceNo(t) \in Nat
  BY NextSequence DEF TablesInv
<1>3. row \in HistoryRow
  BY <1>2 DEF HistoryRow
<1>4. history' = [history EXCEPT ![t] = @ \cup {row}]
  BY DEF MoveTicket, ProblemAfter, ClosedAfter
<1>5. /\ ticket'[t] \in TicketRow /\ ticket'[t].fp = f /\ ticket'[t].status = to
      /\ \A u \in TicketId \ {t} : ticket'[u] = ticket[u]
      /\ ticket' \in [TicketId -> TicketRow \cup {None}]
  <2> DEFINE old == ticket[t]
             who == IF assign # None THEN assign ELSE old.assignee
             again == IF to = "reopened" THEN old.reopens + 1 ELSE old.reopens
             fixed == \/ to = "resolved"
                      \/ old.resolved /\ to # "reopened"
             dead == \/ to \in Terminal
                     \/ old.closed /\ to # "reopened"
             moved == [old EXCEPT !.status = to, !.assignee = who, !.reopens = again,
                                  !.resolved = fixed, !.closed = dead]
  <2>1. ticket' = [ticket EXCEPT ![t] = moved]
    BY DEF MoveTicket, ProblemAfter, ClosedAfter
  <2>2. /\ who \in Agents \cup {None} /\ again \in Nat
        /\ fixed \in BOOLEAN /\ dead \in BOOLEAN
    BY <1>1 DEF TicketRow
  <2>3. moved \in TicketRow /\ moved.fp = f /\ moved.status = to
    <3> HIDE DEF who, again, fixed, dead
    <3> QED BY <1>1, <2>2 DEF TicketRow
  <2> HIDE DEF moved
  <2> QED BY <2>1, <2>3 DEF TablesInv, TablesTyped
<1>6. \A u \in TicketId : ticket'[u] = None <=> ticket[u] = None
  BY <1>5, RowsAssumption
<1>7. NumberedHistory'
  <2>1. row.seq = NextSequenceNo(t)
    OBVIOUS
  <2> HIDE DEF row
  <2> QED BY <1>4, <1>6, <2>1, AppendRow
<1>8. /\ fingerprint' \in [Hash -> FingerprintRow]
      /\ \A g \in Hash : fingerprint'[g].open \in {fingerprint[g].open, None, t}
      /\ \A g \in Hash : fingerprint'[g].open = t =>
            \/ fingerprint[g].open = t /\ ~(g = f /\ to \in Terminal)
            \/ g = f /\ to = "reopened"
  <2>1. f \in Hash \cup {None} /\ fingerprint \in [Hash -> FingerprintRow]
    BY <1>1 DEF TablesInv, TablesTyped, TicketRow
  <2>2. CASE f # None /\ to \in Terminal /\ fingerprint[f].open = t
    <3> DEFINE solved == [fingerprint[f] EXCEPT
                !.open = None,
                !.triage = IF @ \in {"new", "acknowledged"} THEN "resolved" ELSE @]
    <3>1. fingerprint' = [fingerprint EXCEPT ![f] = solved]
      BY <2>2 DEF MoveTicket, ProblemAfter, ClosedAfter
    <3>2. solved \in FingerprintRow /\ solved.open = None
      BY <2>1, <2>2 DEF FingerprintRow, TriageState
    <3>3. t # None
      BY IdsAssumption
    <3> HIDE DEF solved
    <3> QED BY <2>1, <2>2, <3>1, <3>2, <3>3
  <2>3. CASE ~(to \in Terminal /\ fingerprint[f].open = t) /\ f # None /\ to = "reopened"
    <3> DEFINE back == [fingerprint[f] EXCEPT !.open = t, !.triage = "acknowledged"]
    <3>1. fingerprint' = [fingerprint EXCEPT ![f] = back]
      BY <2>3 DEF MoveTicket, ProblemAfter, ClosedAfter
    <3>2. back \in FingerprintRow /\ back.open = t
      BY <2>1, <2>3 DEF FingerprintRow, TriageState
    <3> HIDE DEF back
    <3> QED BY <2>1, <2>3, <3>1, <3>2
  <2>4. CASE /\ ~(f # None /\ to \in Terminal /\ fingerprint[f].open = t)
             /\ ~(f # None /\ to = "reopened")
    <3>1. fingerprint' = fingerprint
      BY <2>4 DEF MoveTicket, ProblemAfter, ClosedAfter
    <3>2. \A g \in Hash : g # None
      BY IdsAssumption
    <3> QED BY <2>1, <2>4, <3>1, <3>2
  <2> QED BY <2>2, <2>3, <2>4
<1>9. TablesTyped'
  <2>1. history' \in [TicketId -> SUBSET HistoryRow]
    BY <1>3, <1>4 DEF TablesInv, TablesTyped
  <2> QED BY <1>5, <1>8, <2>1 DEF MoveTicket, ProblemAfter, ClosedAfter, TablesInv, TablesTyped
<1>10. OpenTicketLive'
  <2> SUFFICES ASSUME NEW g \in Hash, fingerprint'[g].open # None
               PROVE  LET u == fingerprint'[g].open
                      IN  /\ ticket'[u] # None /\ ticket'[u].fp = g
                          /\ ticket'[u].status \notin Terminal
    BY DEF OpenTicketLive
  <2>1. CASE fingerprint'[g].open = t
    <3>1. CASE fingerprint[g].open = t /\ ~(g = f /\ to \in Terminal)
      <4>1. f = g
        BY <3>1, IdsAssumption DEF TablesInv, OpenTicketLive
      <4> QED BY <2>1, <3>1, <4>1, <1>5, <1>6
    <3>2. CASE g = f /\ to = "reopened"
      BY <2>1, <3>2, <1>5, <1>6, WorkflowAssumption
    <3> QED BY <2>1, <1>8, <3>1, <3>2
  <2>2. CASE fingerprint'[g].open # t
    <3>1. fingerprint'[g].open = fingerprint[g].open
      BY <2>2, <1>8
    <3>2. fingerprint[g].open \in TicketId
      BY <3>1 DEF TablesInv, TablesTyped, FingerprintRow
    <3> QED BY <2>2, <3>1, <3>2, <1>5 DEF TablesInv, OpenTicketLive
  <2> QED BY <2>1, <2>2
<1>11. Persistent
  BY <1>5, <1>6 DEF MoveTicket, ProblemAfter, ClosedAfter, Persistent
<1> QED BY <1>7, <1>9, <1>10, <1>11 DEF TablesInv

(* A notification names a recipient who is a real person.                  *)
LEMMA EnqueuedTyped ==
    ASSUME NEW t \in TicketId, NEW to \in Person \cup {None}, NEW by,
           NEW seq \in Nat,
           NEW event \in {"created", "status_changed", "assigned", "user_replied"}
    PROVE  Enqueued(t, event, to, by, seq) \subseteq OutboxRow
BY DEF Enqueued, OutboxRow

(* The counters of a problem or the links of its occurrences change: only  *)
(* those rows of the tables matter to the invariant that keep their open   *)
(* ticket, their problem and their status.                                 *)
LEMMA SameTrail ==
    ASSUME TablesInv, TablesTyped', UNCHANGED history,
           \A f \in Hash : fingerprint'[f].open = fingerprint[f].open,
           \A t \in TicketId : /\ ticket'[t] = None <=> ticket[t] = None
                               /\ ticket[t] # None =>
                                     /\ ticket'[t].fp = ticket[t].fp
                                     /\ ticket'[t].status = ticket[t].status
    PROVE  TablesInv'
<1>1. OpenTicketLive'
  <2> SUFFICES ASSUME NEW g \in Hash, fingerprint'[g].open # None
               PROVE  LET u == fingerprint'[g].open
                      IN  /\ ticket'[u] # None /\ ticket'[u].fp = g
                          /\ ticket'[u].status \notin Terminal
    BY DEF OpenTicketLive
  <2>1. fingerprint[g].open \in TicketId
    BY DEF TablesInv, TablesTyped, FingerprintRow
  <2> QED BY <2>1 DEF TablesInv, OpenTicketLive
<1>2. NumberedHistory'
  BY DEF TablesInv, NumberedHistory, GaplessHistory, Sequences
<1> QED BY <1>1, <1>2 DEF TablesInv

(* A new ticket opens its own trail; its problem, if it has one, names it. *)
LEMMA OpenTicketKeepsInv ==
    ASSUME TablesInv, NEW s, NEW t \in TicketId, NEW f \in Hash \cup {None},
           NEW reporter \in Person, NEW linked \in Nat,
           OpenTicket(s, t, f, reporter, linked), TablesTyped',
           \A g \in Hash : fingerprint'[g].open =
                               IF g = f THEN t ELSE fingerprint[g].open
    PROVE  TablesInv'
<1>1. /\ ticket[t] = None
      /\ ticket'[t] = NewTicket(f, reporter, linked)
      /\ \A u \in TicketId \ {t} : ticket'[u] = ticket[u]
      /\ history'[t] = {FirstRow(reporter)}
      /\ \A u \in TicketId \ {t} : history'[u] = history[u]
  BY DEF OpenTicket, TablesInv, TablesTyped
<1>2. ticket'[t] # None /\ ticket'[t].fp = f /\ ticket'[t].status = "new"
  <2>1. NewTicket(f, reporter, linked) \in TicketRow
    BY WorkflowAssumption DEF NewTicket, TicketRow
  <2>2. /\ NewTicket(f, reporter, linked).fp = f
        /\ NewTicket(f, reporter, linked).status = "new"
    BY DEF NewTicket
  <2> QED BY <1>1, <2>1, <2>2, RowsAssumption
<1>3. OpenTicketLive'
  <2> SUFFICES ASSUME NEW g \in Hash, fingerprint'[g].open # None
               PROVE  LET u == fingerprint'[g].open
                      IN  /\ ticket'[u] # None /\ ticket'[u].fp = g
                          /\ ticket'[u].status \notin Terminal
    BY DEF OpenTicketLive
  <2>1. CASE g = f
    BY <2>1, <1>2, WorkflowAssumption
  <2>2. CASE g # f
    <3>1. fingerprint'[g].open = fingerprint[g].open /\ fingerprint[g].open \in TicketId
      BY <2>2 DEF TablesInv, TablesTyped, FingerprintRow
    <3> QED BY <3>1, <1>1 DEF TablesInv, OpenTicketLive
  <2> QED BY <2>1, <2>2
<1>4. ASSUME NEW u \in TicketId
      PROVE  /\ IsFiniteSet(history'[u])
             /\ ticket'[u] = None <=> history'[u] = {}
             /\ Sequences(u)' = 1 .. Cardinality(history'[u])
  <2>1. CASE u = t
    <3> DEFINE row == FirstRow(reporter)
    <3>1. IsFiniteSet({row}) /\ Cardinality({row}) = 1
      BY FS_Singleton
    <3>2. Sequences(t)' = {1}
      BY <1>1 DEF Sequences, FirstRow
    <3>3. history'[u] = {row}
      BY <1>1, <2>1
    <3>4. {1} = 1 .. 1
      OBVIOUS
    <3>5. ticket'[u] # None /\ history'[u] # {}
      BY <2>1, <3>3, <1>2
    <3> HIDE DEF row
    <3> QED BY <2>1, <3>1, <3>2, <3>3, <3>4, <3>5
  <2>2. CASE u # t
    BY <2>2, <1>1 DEF TablesInv, NumberedHistory, GaplessHistory, Sequences
  <2> QED BY <2>1, <2>2
<1> QED BY <1>3, <1>4 DEF TablesInv, NumberedHistory, GaplessHistory

----------------------------------------------------------------------------
(* The actions.                                                            *)

LEMMA RecordTyped ==
    ASSUME TablesTyped, NEW f \in Hash, NEW o \in OccId,
           NEW u \in Users \cup {System}, NEW t \in TicketId \cup {None},
           RecordOccurrence(f, o, u, t), occurrence[o] = None
    PROVE  /\ fingerprint' \in [Hash -> FingerprintRow]
           /\ \A g \in Hash : fingerprint'[g].open = fingerprint[g].open
           /\ occurrence' \in [OccId -> OccurrenceRow \cup {None}]
           /\ \A p \in OccId : occurrence[p] # None => occurrence'[p] = occurrence[p]
<1> DEFINE row == [fp |-> f, user |-> u, ticket |-> t]
           old == fingerprint[f]
           count == old.count + 1
           users == IF u \in Users \ UsersOf(f) THEN old.users + 1 ELSE old.users
           seen == [old EXCEPT !.count = count, !.users = users]
<1>1. row \in OccurrenceRow
  BY DEF OccurrenceRow
<1>2. count \in Nat /\ users \in Nat
  BY DEF TablesTyped, FingerprintRow
<1>3. seen \in FingerprintRow /\ seen.open = fingerprint[f].open
  <2>1. old \in FingerprintRow
    BY DEF TablesTyped
  <2> HIDE DEF count, users, old
  <2>2. seen \in FingerprintRow /\ seen.open = old.open
    BY <1>2, <2>1 DEF FingerprintRow
  <2> QED BY <2>2 DEF old
<1>4. fingerprint' = [fingerprint EXCEPT ![f] = seen]
  BY DEF RecordOccurrence
<1>5. occurrence' = [occurrence EXCEPT ![o] = row]
  BY DEF RecordOccurrence
<1> HIDE DEF seen, row
<1> QED BY <1>1, <1>3, <1>4, <1>5 DEF TablesTyped

LEMMA CaptureAttachedStep ==
    ASSUME Inv, NEW s \in Sessions, NEW f \in Hash, NEW o \in OccId,
           NEW u \in Users \cup {System}, CaptureAttached(s, f, o, u)
    PROVE  Inv' /\ Persistent
<1> DEFINE t == fingerprint[f].open
<1>1. t \in TicketId /\ ticket[t] # None /\ ticket[t] \in TicketRow
  BY DEF CaptureAttached, Inv, TablesInv, TablesTyped, FingerprintRow, OpenTicketLive
<1>2. /\ fingerprint' \in [Hash -> FingerprintRow]
      /\ \A g \in Hash : fingerprint'[g].open = fingerprint[g].open
      /\ occurrence' \in [OccId -> OccurrenceRow \cup {None}]
      /\ \A p \in OccId : occurrence[p] # None => occurrence'[p] = occurrence[p]
  BY <1>1, RecordTyped DEF CaptureAttached, Inv, TablesInv
<1>3. /\ ticket' \in [TicketId -> TicketRow \cup {None}]
      /\ \A v \in TicketId \ {t} : ticket'[v] = ticket[v]
      /\ ticket'[t] \in TicketRow /\ ticket'[t].fp = ticket[t].fp
      /\ ticket'[t].status = ticket[t].status
  <2> DEFINE grown == [ticket[t] EXCEPT !.linked = @ + 1]
  <2>1. ticket' = [ticket EXCEPT ![t] = grown]
    BY DEF CaptureAttached
  <2>2. /\ grown \in TicketRow /\ grown.fp = ticket[t].fp
        /\ grown.status = ticket[t].status
    BY <1>1 DEF TicketRow
  <2> HIDE DEF grown
  <2> QED BY <1>1, <2>1, <2>2 DEF Inv, TablesInv, TablesTyped
<1>4. TablesTyped'
  BY <1>1, <1>2, <1>3 DEF CaptureAttached, Inv, TablesInv, TablesTyped
<1>5. \A v \in TicketId : /\ ticket'[v] = None <=> ticket[v] = None
                          /\ ticket[v] # None => /\ ticket'[v].fp = ticket[v].fp
                                                  /\ ticket'[v].status = ticket[v].status
  BY <1>1, <1>3, RowsAssumption
<1>6. UNCHANGED <<history, outbox, session>>
  BY DEF CaptureAttached
<1>7. TablesInv'
  BY <1>2, <1>4, <1>5, <1>6, SameTrail DEF Inv
<1>8. Persistent
  BY <1>2, <1>5 DEF Persistent
<1> QED BY <1>6, <1>7, <1>8, AtomicKeepsInv

LEMMA CaptureUnattachedStep ==
    ASSUME Inv, NEW s \in Sessions, NEW f \in Hash, NEW o \in OccId,
           NEW u \in Users \cup {System}, CaptureUnattached(s, f, o, u)
    PROVE  Inv' /\ Persistent
<1> DEFINE c == IF fingerprint[f].triage = "muted" THEN Idle
                ELSE [Idle EXCEPT !.pc = "evaluate", !.occ = o]
<1>1. /\ fingerprint' \in [Hash -> FingerprintRow]
      /\ \A g \in Hash : fingerprint'[g].open = fingerprint[g].open
      /\ occurrence' \in [OccId -> OccurrenceRow \cup {None}]
      /\ \A p \in OccId : occurrence[p] # None => occurrence'[p] = occurrence[p]
  BY RecordTyped DEF CaptureUnattached, Inv, TablesInv
<1>2. UNCHANGED <<ticket, links, history, outbox>> /\ Goto(s, c)
  BY DEF CaptureUnattached
<1>3. TablesTyped'
  BY <1>1, <1>2 DEF Inv, TablesInv, TablesTyped
<1>4. TablesInv'
  BY <1>1, <1>2, <1>3, SameTrail DEF Inv
<1>5. Persistent
  BY <1>1, <1>2 DEF Persistent
<1>6. c \in SessionState
  BY DEF Idle, SessionState
<1>7. occurrence'[o] # None
  <2>1. occurrence'[o] = [fp |-> f, user |-> u, ticket |-> None]
    BY DEF CaptureUnattached, RecordOccurrence, Inv, TablesInv, TablesTyped
  <2>2. occurrence'[o] \in OccurrenceRow
    BY <2>1 DEF OccurrenceRow
  <2> QED BY <2>2, RowsAssumption
<1>8. Ready(s)'
  <2>1. session'[s] = c
    BY <1>2 DEF Goto, Inv, TypeOK
  <2>2. CASE fingerprint[f].triage = "muted"
    BY <2>1, <2>2 DEF Ready, Prepared, Idle
  <2>3. CASE fingerprint[f].triage # "muted"
    <3>1. c = [Idle EXCEPT !.pc = "evaluate", !.occ = o]
      BY <2>3
    <3>2. c.pc = "evaluate" /\ c.occ = o /\ c.ticket = None
      BY <3>1 DEF Idle
    <3> HIDE DEF c
    <3>3. o # None
      BY IdsAssumption
    <3> QED BY <1>7, <2>1, <3>2, <3>3 DEF Ready, Prepared
  <2> QED BY <2>2, <2>3
<1>9. outbox' \subseteq OutboxRow
  BY <1>2 DEF Inv, TypeOK
<1> QED BY <1>2, <1>4, <1>5, <1>6, <1>8, <1>9, StepKeepsInv

LEMMA CaptureSampledOutStep ==
    ASSUME Inv, NEW s \in Sessions, NEW f \in Hash, CaptureSampledOut(s, f)
    PROVE  Inv' /\ Persistent
<1> DEFINE seen == [fingerprint[f] EXCEPT !.count = @ + 1]
<1>1. fingerprint' = [fingerprint EXCEPT ![f] = seen]
  BY DEF CaptureSampledOut
<1>2. seen \in FingerprintRow /\ seen.open = fingerprint[f].open
  BY DEF Inv, TablesInv, TablesTyped, FingerprintRow
<1>3. /\ fingerprint' \in [Hash -> FingerprintRow]
      /\ \A g \in Hash : fingerprint'[g].open = fingerprint[g].open
  <2> HIDE DEF seen
  <2> QED BY <1>1, <1>2 DEF Inv, TablesInv, TablesTyped
<1>4. UNCHANGED <<occurrence, ticket, links, history, outbox, session>>
  BY DEF CaptureSampledOut
<1>5. TablesTyped'
  BY <1>3, <1>4 DEF Inv, TablesInv, TablesTyped
<1>6. TablesInv'
  BY <1>3, <1>4, <1>5, SameTrail DEF Inv
<1>7. Persistent
  BY <1>4 DEF Persistent
<1> QED BY <1>4, <1>6, <1>7, AtomicKeepsInv

LEMMA TriageStep ==
    ASSUME Inv, NEW s \in Sessions, NEW f \in Hash, NEW state \in TriageChoices,
           Triage(s, f, state)
    PROVE  Inv' /\ Persistent
<1> DEFINE set == [fingerprint[f] EXCEPT !.triage = state]
<1>1. fingerprint' = [fingerprint EXCEPT ![f] = set]
  BY DEF Triage
<1>2. set \in FingerprintRow /\ set.open = fingerprint[f].open
  BY SettingsAssumption DEF Inv, TablesInv, TablesTyped, FingerprintRow
<1>3. /\ fingerprint' \in [Hash -> FingerprintRow]
      /\ \A g \in Hash : fingerprint'[g].open = fingerprint[g].open
  <2> HIDE DEF set
  <2> QED BY <1>1, <1>2 DEF Inv, TablesInv, TablesTyped
<1>4. UNCHANGED <<occurrence, ticket, links, history, outbox, session>>
  BY DEF Triage
<1>5. TablesTyped'
  BY <1>3, <1>4 DEF Inv, TablesInv, TablesTyped
<1>6. TablesInv'
  BY <1>3, <1>4, <1>5, SameTrail DEF Inv
<1>7. Persistent
  BY <1>4 DEF Persistent
<1> QED BY <1>4, <1>6, <1>7, AtomicKeepsInv

LEMMA BackToIdle ==
    ASSUME Inv, NEW s \in Sessions, Goto(s, Idle), UNCHANGED <<tables, outbox>>
    PROVE  Inv' /\ Persistent
<1>1. Prepared(Idle)
  BY DEF Idle, Prepared
<1> QED BY <1>1, IdleTyped, SessionOnly

LEMMA CheckOpenTicketStep ==
    ASSUME Inv, NEW s \in Sessions, NEW o \in OccId, occurrence[o] # None,
           NEW by \in Users \cup {System}, CheckOpenTicket(s, o, by),
           UNCHANGED <<tables, outbox>>
    PROVE  Inv' /\ Persistent
<1> DEFINE t == fingerprint[occurrence[o].fp].open
           live == t # None /\ ticket[t].status \notin Terminal
           joins == [Idle EXCEPT !.pc = "link", !.occ = o, !.by = by, !.ticket = t]
           opens == [Idle EXCEPT !.pc = "insert", !.occ = o, !.by = by,
                                 !.ticket = None]
<1>1. o # None /\ by # None /\ by \in Person
  BY IdsAssumption DEF Person
<1>2. t \in TicketId \cup {None} /\ (t # None => ticket[t] # None)
  <2>1. occurrence[o] \in OccurrenceRow /\ occurrence[o].fp \in Hash
    BY DEF Inv, TablesInv, TablesTyped, OccurrenceRow
  <2> QED BY <2>1 DEF Inv, TablesInv, TablesTyped, FingerprintRow, OpenTicketLive
<1>3. CASE live
  <2>1. Goto(s, joins)
    BY <1>3 DEF CheckOpenTicket
  <2>2. joins \in SessionState
    BY <1>1, <1>2 DEF Idle, SessionState
  <2>3. /\ joins.pc = "link" /\ joins.occ = o /\ joins.by = by /\ joins.ticket = t
    BY DEF Idle
  <2>4. Prepared(joins)
    <3> HIDE DEF joins
    <3> QED BY <1>1, <1>2, <1>3, <2>3 DEF Prepared
  <2> QED BY <2>1, <2>2, <2>4, SessionOnly
<1>4. CASE ~live
  <2>1. Goto(s, opens)
    BY <1>4 DEF CheckOpenTicket
  <2>2. opens \in SessionState
    BY <1>1 DEF Idle, SessionState
  <2>3. opens.pc = "insert" /\ opens.occ = o /\ opens.by = by /\ opens.ticket = None
    BY DEF Idle
  <2>4. Prepared(opens)
    <3> HIDE DEF opens
    <3> QED BY <1>1, <1>2, <2>3 DEF Prepared
  <2> QED BY <2>1, <2>2, <2>4, SessionOnly
<1> QED BY <1>3, <1>4

(* What is known of the values a session remembers.                        *)
LEMMA Remembered ==
    ASSUME Inv, NEW s \in Sessions
    PROVE  LET c == session[s]
           IN  /\ c \in SessionState /\ Prepared(c)
               /\ c.ticket # None => /\ c.ticket \in TicketId
                                    /\ ticket[c.ticket] # None
                                    /\ ticket[c.ticket] \in TicketRow
               /\ c.occ # None => /\ c.occ \in OccId
                                 /\ occurrence[c.occ] # None
                                 /\ occurrence[c.occ] \in OccurrenceRow
<1> DEFINE c == session[s]
<1>1. c \in SessionState /\ Prepared(c)
  BY DEF Inv, TypeOK, SessionsReady, Ready
<1>2. c.ticket \in TicketId \cup {None} /\ c.occ \in OccId \cup {None}
  BY <1>1 DEF SessionState
<1> QED BY <1>1, <1>2 DEF Prepared, Inv, TablesInv, TablesTyped

LEMMA RuleFiresStep ==
    ASSUME Inv, NEW s \in Sessions, RuleFires(s)
    PROVE  Inv' /\ Persistent
<1>1. session[s].occ \in OccId /\ occurrence[session[s].occ] # None
  BY Remembered DEF RuleFires, At, Prepared
<1> QED BY <1>1, CheckOpenTicketStep DEF RuleFires

LEMMA ChangeStatusStep ==
    ASSUME Inv, NEW s \in Sessions, NEW t \in TicketId, NEW to \in Status,
           NEW assign \in Agents \cup {None}, NEW by \in Agents,
           ChangeStatus(s, t, to, assign, by)
    PROVE  Inv' /\ Persistent
<1> DEFINE c == [Idle EXCEPT !.pc = "apply", !.ticket = t, !.by = by, !.to = to,
                             !.from = ticket[t].status, !.assign = assign]
<1>1. ticket[t] \in TicketRow /\ ticket[t].status \in Status
  BY DEF ChangeStatus, Inv, TablesInv, TablesTyped, TicketRow
<1>2. c \in SessionState
  BY <1>1 DEF Idle, SessionState, Person
<1>3. /\ c.pc = "apply" /\ c.ticket = t /\ c.by = by /\ c.to = to /\ c.occ = None
      /\ by # None /\ to # None /\ ticket[t] # None
  BY IdsAssumption DEF Idle, Person, ChangeStatus
<1>4. Goto(s, c) /\ UNCHANGED <<tables, outbox>>
  BY DEF ChangeStatus
<1> HIDE DEF c
<1>5. Prepared(c)
  BY <1>3, IdsAssumption DEF Prepared
<1> QED BY <1>2, <1>4, <1>5, SessionOnly

LEMMA AssignStep ==
    ASSUME Inv, NEW s \in Sessions, NEW t \in TicketId,
           NEW agent \in Agents \cup {None}, NEW by \in Agents,
           Assign(s, t, agent, by)
    PROVE  Inv' /\ Persistent
<1> DEFINE c == [Idle EXCEPT !.pc = "assign", !.ticket = t, !.by = by,
                             !.from = ticket[t].status, !.assign = agent]
<1>1. ticket[t] \in TicketRow /\ ticket[t].status \in Status
  BY DEF Assign, Inv, TablesInv, TablesTyped, TicketRow
<1>2. c \in SessionState
  BY <1>1 DEF Idle, SessionState, Person
<1>3. /\ c.pc = "assign" /\ c.ticket = t /\ c.by = by /\ c.occ = None
      /\ c.from = ticket[t].status
      /\ by # None /\ ticket[t].status # None /\ ticket[t] # None
  BY <1>1, IdsAssumption DEF Idle, Person, Assign
<1>4. Goto(s, c) /\ UNCHANGED <<tables, outbox>>
  BY DEF Assign
<1> HIDE DEF c
<1>5. Prepared(c)
  BY <1>3, IdsAssumption DEF Prepared
<1> QED BY <1>2, <1>4, <1>5, SessionOnly

LEMMA AdvanceBeginStep ==
    ASSUME Inv, NEW s \in Sessions, AdvanceBegin(s)
    PROVE  Inv' /\ Persistent
<1> DEFINE old == session[s]
           now == ticket[old.ticket].status
           c == [old EXCEPT !.pc = "apply", !.to = "assigned", !.from = now]
<1>1. /\ old \in SessionState /\ Prepared(old) /\ old.pc = "advance"
      /\ ticket[old.ticket] \in TicketRow /\ ticket[old.ticket] # None
      /\ old.ticket # None
  BY Remembered DEF AdvanceBegin, At, Prepared
<1>2. now \in Status /\ "assigned" \in Status /\ "assigned" # None
  BY <1>1, WorkflowAssumption, IdsAssumption DEF TicketRow
<1>3. Goto(s, c) /\ UNCHANGED <<tables, outbox>>
  BY DEF AdvanceBegin
<1> HIDE DEF old, now
<1>4. c \in SessionState
  BY <1>1, <1>2 DEF SessionState
<1>5. /\ c.pc = "apply" /\ c.to = "assigned" /\ c.ticket = old.ticket
      /\ c.occ = old.occ /\ c.by = old.by
  BY <1>1 DEF SessionState
<1> HIDE DEF c
<1>6. Prepared(c)
  BY <1>1, <1>2, <1>5 DEF Prepared
<1> QED BY <1>3, <1>4, <1>6, SessionOnly

LEMMA AdvanceSkipStep ==
    ASSUME Inv, NEW s \in Sessions, AdvanceSkip(s)
    PROVE  Inv' /\ Persistent
<1> DEFINE old == session[s]
           c == [old EXCEPT !.pc = "notify_assigned"]
<1>1. old \in SessionState /\ Prepared(old) /\ old.pc = "advance"
  BY Remembered DEF AdvanceSkip, At
<1>2. Goto(s, c) /\ UNCHANGED <<tables, outbox>>
  BY DEF AdvanceSkip
<1> HIDE DEF old
<1>3. /\ c \in SessionState /\ c.pc = "notify_assigned" /\ c.ticket = old.ticket
      /\ c.occ = old.occ
  BY <1>1 DEF SessionState
<1> HIDE DEF c
<1>4. Prepared(c)
  BY <1>1, <1>3 DEF Prepared
<1> QED BY <1>2, <1>3, <1>4, SessionOnly

LEMMA ReplyStep ==
    ASSUME Inv, NEW s \in Sessions, NEW t \in TicketId, NEW u \in Users, Reply(s, t, u)
    PROVE  Inv' /\ Persistent
<1> DEFINE c == [Idle EXCEPT !.pc = "reply", !.ticket = t, !.by = u]
<1>1. c \in SessionState
  BY DEF Idle, SessionState, Person
<1>2. /\ c.pc = "reply" /\ c.ticket = t /\ c.by = u /\ c.occ = None
      /\ u # None /\ ticket[t] # None
  BY IdsAssumption DEF Idle, Person, Reply
<1>3. Goto(s, c) /\ UNCHANGED <<tables, outbox>>
  BY DEF Reply
<1> HIDE DEF c
<1>4. Prepared(c)
  BY <1>2, IdsAssumption DEF Prepared
<1> QED BY <1>1, <1>3, <1>4, SessionOnly

LEMMA ReplyResumeStep ==
    ASSUME Inv, NEW s \in Sessions, ReplyResume(s)
    PROVE  Inv' /\ Persistent
<1> DEFINE old == session[s]
           row == ticket[old.ticket]
           c == [old EXCEPT !.pc = "reply_apply", !.to = "in_progress",
                            !.from = row.status, !.tell = row.assignee]
<1>1. /\ old \in SessionState /\ Prepared(old) /\ old.pc = "reply"
      /\ row \in TicketRow /\ row # None /\ old.ticket # None
  BY Remembered DEF ReplyResume, At, Prepared
<1>2. "in_progress" \in Status /\ "in_progress" # None
  BY WorkflowAssumption, IdsAssumption
<1>3. Goto(s, c) /\ UNCHANGED <<tables, outbox>>
  BY DEF ReplyResume
<1>4. row.status \in Status /\ row.assignee \in Agents \cup {None}
  BY <1>1 DEF TicketRow
<1> HIDE DEF old, row
<1>5. c \in SessionState
  BY <1>1, <1>2, <1>4 DEF SessionState
<1>6. /\ c.pc = "reply_apply" /\ c.to = "in_progress" /\ c.ticket = old.ticket
      /\ c.occ = old.occ /\ c.by = old.by
  BY <1>1 DEF SessionState
<1> HIDE DEF c
<1>7. Prepared(c)
  BY <1>1, <1>2, <1>6 DEF Prepared
<1> QED BY <1>3, <1>5, <1>7, SessionOnly

(* Statements that end the procedure.                                      *)
LEMMA IdleAfter ==
    ASSUME Inv, NEW s \in Sessions, Goto(s, Idle)
    PROVE  Ready(s)'
BY DEF Goto, Idle, Ready, Prepared, Inv, TypeOK

LEMMA LinkToExistingStep ==
    ASSUME Inv, NEW s \in Sessions, LinkToExisting(s)
    PROVE  Inv' /\ Persistent
<1> DEFINE o == session[s].occ
           t == session[s].ticket
           grown == [ticket[t] EXCEPT !.linked = @ + 1]
           joined == [occurrence[o] EXCEPT !.ticket = t]
<1>1. /\ t \in TicketId /\ ticket[t] # None /\ ticket[t] \in TicketRow
      /\ o \in OccId /\ occurrence[o] # None /\ occurrence[o] \in OccurrenceRow
  BY Remembered DEF LinkToExisting, At, Prepared
<1>2. /\ grown \in TicketRow /\ grown.fp = ticket[t].fp
      /\ grown.status = ticket[t].status
  BY <1>1 DEF TicketRow
<1>3. joined \in OccurrenceRow /\ joined.fp = occurrence[o].fp
  BY <1>1 DEF OccurrenceRow
<1>4. /\ ticket' \in {ticket, [ticket EXCEPT ![t] = grown]}
      /\ occurrence' = [occurrence EXCEPT ![o] = joined]
      /\ links' = links \cup {<<t, o>>}
      /\ Goto(s, Idle)
      /\ UNCHANGED <<fingerprint, history, outbox>>
  BY DEF LinkToExisting
<1> HIDE DEF grown, joined, o, t
<1>5. \A v \in TicketId : /\ ticket'[v] = None <=> ticket[v] = None
                          /\ ticket[v] # None => /\ ticket'[v].fp = ticket[v].fp
                                                  /\ ticket'[v].status = ticket[v].status
  BY <1>1, <1>2, <1>4, RowsAssumption DEF Inv, TablesInv, TablesTyped
<1>6. TablesTyped'
  BY <1>1, <1>2, <1>3, <1>4 DEF Inv, TablesInv, TablesTyped
<1>7. TablesInv'
  BY <1>4, <1>5, <1>6, SameTrail DEF Inv
<1>8. \A p \in OccId : occurrence[p] # None =>
            occurrence'[p] # None /\ occurrence'[p].fp = occurrence[p].fp
  BY <1>1, <1>3, <1>4, RowsAssumption DEF Inv, TablesInv, TablesTyped
<1>9. Persistent
  BY <1>5, <1>8 DEF Persistent
<1>10. Ready(s)' /\ outbox' \subseteq OutboxRow
  BY <1>4, IdleAfter DEF Inv, TypeOK
<1> QED BY <1>4, <1>7, <1>9, <1>10, IdleTyped, StepKeepsInv

(* Where usp_Ticket_Create and usp_Ticket_CreateManual leave their session. *)
LEMMA OpenedSession ==
    ASSUME Inv, NEW s \in Sessions, NEW t \in TicketId,
           NEW f \in Hash \cup {None}, NEW reporter \in Person, NEW linked \in Nat,
           OpenTicket(s, t, f, reporter, linked)
    PROVE  /\ \E c \in SessionState : Goto(s, c)
           /\ Ready(s)'
           /\ ticket' \in [TicketId -> TicketRow \cup {None}]
           /\ history' \in [TicketId -> SUBSET HistoryRow]
           /\ ticket[t] = None
           /\ ticket'[t] # None /\ ticket'[t].fp = f
           /\ \A u \in TicketId \ {t} : ticket'[u] = ticket[u]
<1> DEFINE c == [Idle EXCEPT !.pc = "notify_created", !.ticket = t, !.seq = 1]
           new == NewTicket(f, reporter, linked)
           first == FirstRow(reporter)
<1>1. c \in SessionState
  BY DEF Idle, SessionState
<1>2. c.pc = "notify_created" /\ c.ticket = t /\ c.occ = None /\ t # None
  BY IdsAssumption DEF Idle
<1>3. new \in TicketRow /\ new.fp = f
  BY WorkflowAssumption DEF NewTicket, TicketRow
<1>4. first \in HistoryRow
  BY WorkflowAssumption DEF FirstRow, HistoryRow
<1>5. /\ Goto(s, c) /\ ticket[t] = None
      /\ ticket' = [ticket EXCEPT ![t] = new]
      /\ history' = [history EXCEPT ![t] = {first}]
  BY DEF OpenTicket
<1> HIDE DEF c, new, first
<1>6. /\ ticket' \in [TicketId -> TicketRow \cup {None}]
      /\ history' \in [TicketId -> SUBSET HistoryRow]
      /\ ticket'[t] = new
      /\ \A u \in TicketId \ {t} : ticket'[u] = ticket[u]
  BY <1>3, <1>4, <1>5 DEF Inv, TablesInv, TablesTyped
<1>7. ticket'[t] # None /\ ticket'[t].fp = f
  BY <1>3, <1>6, RowsAssumption
<1>8. Ready(s)'
  BY <1>2, <1>5, <1>7 DEF Ready, Prepared, Goto, Inv, TypeOK
<1> QED BY <1>1, <1>5, <1>6, <1>7, <1>8

LEMMA InsertTicketStep ==
    ASSUME Inv, NEW s \in Sessions, NEW t \in TicketId, InsertTicket(s, t)
    PROVE  Inv' /\ Persistent
<1> DEFINE o == session[s].occ
           f == occurrence[o].fp
           by == session[s].by
           triaged == [fingerprint[f] EXCEPT !.open = t,
                          !.triage = IF @ = "new" THEN "acknowledged" ELSE @]
           joined == [occurrence[o] EXCEPT !.ticket = t]
<1>1. /\ o \in OccId /\ occurrence[o] # None /\ occurrence[o] \in OccurrenceRow
      /\ by \in Person
  BY Remembered DEF InsertTicket, At, Prepared, SessionState
<1>2. f \in Hash
  BY <1>1 DEF OccurrenceRow
<1>3. OpenTicket(s, t, f, by, 1)
  BY DEF InsertTicket
<1>4. triaged \in FingerprintRow /\ triaged.open = t
  <2>1. fingerprint[f] \in FingerprintRow
    BY <1>2 DEF Inv, TablesInv, TablesTyped
  <2> QED BY <2>1 DEF FingerprintRow, TriageState
<1>5. joined \in OccurrenceRow /\ joined.fp = f
  BY <1>1 DEF OccurrenceRow
<1>6. /\ fingerprint' = [fingerprint EXCEPT ![f] = triaged]
      /\ occurrence' = [occurrence EXCEPT ![o] = joined]
      /\ links' = links \cup {<<t, o>>}
      /\ UNCHANGED outbox
  BY DEF InsertTicket
<1>7. /\ \E c \in SessionState : Goto(s, c)
      /\ Ready(s)'
      /\ ticket' \in [TicketId -> TicketRow \cup {None}]
      /\ history' \in [TicketId -> SUBSET HistoryRow]
      /\ ticket[t] = None
      /\ \A u \in TicketId \ {t} : ticket'[u] = ticket[u]
  BY <1>1, <1>2, <1>3, OpenedSession
<1> HIDE DEF triaged, joined, by
<1>8. /\ \A g \in Hash : fingerprint'[g].open =
                             IF g = f THEN t ELSE fingerprint[g].open
      /\ fingerprint' \in [Hash -> FingerprintRow]
  BY <1>2, <1>4, <1>6 DEF Inv, TablesInv, TablesTyped
<1>9. /\ occurrence' \in [OccId -> OccurrenceRow \cup {None}]
      /\ \A p \in OccId : occurrence[p] # None =>
            occurrence'[p] # None /\ occurrence'[p].fp = occurrence[p].fp
  <2> HIDE DEF o
  <2> QED BY <1>1, <1>5, <1>6, RowsAssumption DEF Inv, TablesInv, TablesTyped
<1>10. TablesTyped'
  BY <1>1, <1>6, <1>7, <1>8, <1>9 DEF Inv, TablesInv, TablesTyped
<1>11. TablesInv'
  <2> HIDE DEF f
  <2> QED BY <1>1, <1>2, <1>3, <1>8, <1>10, OpenTicketKeepsInv DEF Inv
<1>12. Persistent
  BY <1>7, <1>9 DEF Persistent
<1>13. outbox' \subseteq OutboxRow
  BY <1>6 DEF Inv, TypeOK
<1> QED BY <1>7, <1>11, <1>12, <1>13, StepKeepsInv

LEMMA CreateManualStep ==
    ASSUME Inv, NEW s \in Sessions, NEW t \in TicketId, NEW u \in Users,
           CreateManual(s, t, u)
    PROVE  Inv' /\ Persistent
<1>1. u \in Person /\ OpenTicket(s, t, None, u, 0)
  BY DEF CreateManual, Person
<1>2. UNCHANGED <<fingerprint, occurrence, links, outbox>>
  BY DEF CreateManual
<1>3. /\ \E c \in SessionState : Goto(s, c)
      /\ Ready(s)'
      /\ ticket' \in [TicketId -> TicketRow \cup {None}]
      /\ history' \in [TicketId -> SUBSET HistoryRow]
      /\ ticket[t] = None
      /\ \A v \in TicketId \ {t} : ticket'[v] = ticket[v]
  BY <1>1, OpenedSession
<1>4. TablesTyped'
  BY <1>2, <1>3 DEF Inv, TablesInv, TablesTyped
<1>5. \A g \in Hash : g # None
  BY IdsAssumption
<1>6. TablesInv'
  BY <1>1, <1>2, <1>4, <1>5, OpenTicketKeepsInv DEF Inv
<1>7. Persistent
  BY <1>2, <1>3 DEF Persistent
<1>8. outbox' \subseteq OutboxRow
  BY <1>2 DEF Inv, TypeOK
<1> QED BY <1>3, <1>6, <1>7, <1>8, StepKeepsInv

(* The statements after the COMMIT: a row in the outbox, nothing else.     *)
LEMMA NotifyStep ==
    ASSUME Inv, NEW s \in Sessions,
           NotifyCreated(s) \/ NotifyStatus(s) \/ NotifyAssigned(s) \/ ReplyCommit(s)
    PROVE  Inv' /\ Persistent
<1> DEFINE old == session[s]
           t == old.ticket
<1>1. /\ t \in TicketId /\ ticket[t] # None /\ ticket[t] \in TicketRow
      /\ old \in SessionState
  BY Remembered DEF NotifyCreated, NotifyStatus, NotifyAssigned, ReplyCommit, At, Prepared
<1>2. /\ ticket[t].reporter \in Person /\ ticket[t].assignee \in Person \cup {None}
      /\ old.tell \in Person \cup {None} /\ old.seq \in Nat
  BY <1>1 DEF TicketRow, SessionState, Person
<1>3. TablesInv' /\ Persistent
  BY TablesKept DEF NotifyCreated, NotifyStatus, NotifyAssigned, ReplyCommit
<1>4. outbox' \subseteq OutboxRow
  <2>1. CASE NotifyCreated(s)
    <3>1. Enqueued(t, "created", ticket[t].reporter, None, old.seq) \subseteq OutboxRow
      BY <1>1, <1>2, EnqueuedTyped
    <3> QED BY <2>1, <3>1 DEF NotifyCreated, Inv, TypeOK
  <2>2. CASE NotifyStatus(s)
    <3>1. Enqueued(t, "status_changed", ticket[t].reporter, old.by, old.seq)
              \subseteq OutboxRow
      BY <1>1, <1>2, EnqueuedTyped
    <3> QED BY <2>2, <3>1 DEF NotifyStatus, Inv, TypeOK
  <2>3. CASE NotifyAssigned(s)
    <3>1. Enqueued(t, "assigned", old.tell, old.by, old.seq) \subseteq OutboxRow
      BY <1>1, <1>2, EnqueuedTyped
    <3> QED BY <2>3, <3>1 DEF NotifyAssigned, Inv, TypeOK
  <2>4. CASE ReplyCommit(s)
    <3>1. Enqueued(t, "user_replied", ticket[t].assignee, old.by, 0) \subseteq OutboxRow
      BY <1>1, <1>2, EnqueuedTyped
    <3> QED BY <2>4, <3>1 DEF ReplyCommit, Inv, TypeOK
  <2> QED BY <2>1, <2>2, <2>3, <2>4
<1>5. CASE Goto(s, Idle)
  BY <1>3, <1>4, <1>5, IdleTyped, IdleAfter, StepKeepsInv
<1>6. CASE NotifyStatus(s) /\ old.tell # None
  <2> DEFINE c == [Idle EXCEPT !.pc = "notify_assigned", !.by = old.by, !.ticket = t,
                               !.tell = old.tell, !.seq = old.seq]
  <2>1. Goto(s, c)
    BY <1>6 DEF NotifyStatus
  <2>2. c \in SessionState
    BY <1>1 DEF Idle, SessionState
  <2>3. c.pc = "notify_assigned" /\ c.ticket = t /\ c.occ = None /\ t # None
    BY <1>1, IdsAssumption DEF Idle
  <2>4. ticket' = ticket
    BY <1>6 DEF NotifyStatus, tables
  <2> HIDE DEF c
  <2>5. Ready(s)'
    BY <1>1, <2>1, <2>3, <2>4 DEF Ready, Prepared, Goto, Inv, TypeOK
  <2> QED BY <1>3, <1>4, <2>1, <2>2, <2>5, StepKeepsInv
<1> QED BY <1>5, <1>6 DEF NotifyCreated, NotifyStatus, NotifyAssigned, ReplyCommit

LEMMA ApplyStatusStep ==
    ASSUME Inv, NEW s \in Sessions, ApplyStatus(s)
    PROVE  Inv' /\ Persistent
<1> DEFINE old == session[s]
           t == old.ticket
           c == [Idle EXCEPT !.pc = "notify_status", !.ticket = t, !.by = old.by,
                             !.tell = old.tell, !.seq = NextSequenceNo(t)]
<1>1. /\ t \in TicketId /\ ticket[t] # None /\ old \in SessionState
      /\ old.by # None /\ old.to # None
  BY Remembered DEF ApplyStatus, At, Prepared
<1>2. /\ old.by \in Person /\ old.to \in Status /\ old.from \in Status \cup {None}
      /\ old.assign \in Agents \cup {None} /\ old.tell \in Agents \cup {None}
  BY <1>1 DEF SessionState
<1>3. /\ MoveTicket(t, old.from, old.to, old.assign, old.by) /\ Goto(s, c)
      /\ UNCHANGED outbox
  BY DEF ApplyStatus
<1>4. TablesInv' /\ Persistent
  BY <1>1, <1>2, <1>3, MoveTicketKeepsInv DEF Inv
<1>5. NextSequenceNo(t) \in Nat
  BY <1>1, NextSequence DEF Inv, TablesInv
<1>6. c \in SessionState
  BY <1>1, <1>2, <1>5 DEF Idle, SessionState
<1>7. c.pc = "notify_status" /\ c.ticket = t /\ c.occ = None /\ t # None
  BY <1>1, IdsAssumption DEF Idle
<1> HIDE DEF c
<1>8. Ready(s)'
  <2>1. ticket'[t] # None
    BY <1>1, <1>4 DEF Persistent
  <2> QED BY <1>3, <1>7, <2>1 DEF Ready, Prepared, Goto, Inv, TypeOK
<1>9. outbox' \subseteq OutboxRow
  BY <1>3 DEF Inv, TypeOK
<1> QED BY <1>3, <1>4, <1>6, <1>8, <1>9, StepKeepsInv

LEMMA ReplyApplyStep ==
    ASSUME Inv, NEW s \in Sessions, ReplyApply(s)
    PROVE  Inv' /\ Persistent
<1> DEFINE old == session[s]
           t == old.ticket
<1>1. /\ t \in TicketId /\ ticket[t] # None /\ ticket[t] \in TicketRow
      /\ old \in SessionState /\ old.by # None /\ old.to # None
  BY Remembered DEF ReplyApply, At, Prepared
<1>2. /\ old.by \in Person /\ old.to \in Status /\ old.from \in Status \cup {None}
      /\ old.tell \in Person \cup {None} /\ ticket[t].reporter \in Person \cup {None}
      /\ None \in Agents \cup {None}
  BY <1>1 DEF SessionState, TicketRow, Person
<1>3. MoveTicket(t, old.from, old.to, None, old.by) /\ Goto(s, Idle)
  BY DEF ReplyApply
<1>4. TablesInv' /\ Persistent
  BY <1>1, <1>2, <1>3, MoveTicketKeepsInv DEF Inv
<1>5. NextSequenceNo(t) \in Nat
  BY <1>1, NextSequence DEF Inv, TablesInv
<1>6. outbox' \subseteq OutboxRow
  <2>1. Enqueued(t, "user_replied", old.tell, old.by, 0) \subseteq OutboxRow
    BY <1>1, <1>2, EnqueuedTyped
  <2>2. Enqueued(t, "status_changed", ticket[t].reporter, old.by, NextSequenceNo(t))
            \subseteq OutboxRow
    BY <1>1, <1>2, <1>5, EnqueuedTyped
  <2> QED BY <2>1, <2>2 DEF ReplyApply, Inv, TypeOK
<1> QED BY <1>3, <1>4, <1>6, IdleTyped, IdleAfter, StepKeepsInv

LEMMA AssignCommitStep ==
    ASSUME Inv, NEW s \in Sessions, AssignCommit(s)
    PROVE  Inv' /\ Persistent
<1> DEFINE old == session[s]
           t == old.ticket
           n == NextSequenceNo(t)
           row == [seq |-> n, from |-> old.from, to |-> old.from,
                   kind |-> "assignment", by |-> old.by]
           owned == [ticket[t] EXCEPT !.assignee = old.assign]
           c == [old EXCEPT !.pc = "advance", !.tell = old.assign, !.seq = n]
<1>1. /\ t \in TicketId /\ ticket[t] # None /\ ticket[t] \in TicketRow
      /\ old \in SessionState /\ Prepared(old) /\ old.by # None /\ old.from # None
      /\ old.pc = "assign"
  BY Remembered DEF AssignCommit, At, Prepared
<1>2. /\ old.by \in Person /\ old.from \in Status
      /\ old.assign \in Agents \cup {None} /\ n \in Nat
  BY <1>1, NextSequence DEF SessionState, Inv, TablesInv
<1>3. row \in HistoryRow /\ row.seq = NextSequenceNo(t)
  BY <1>2 DEF HistoryRow
<1>4. owned \in TicketRow /\ owned.fp = ticket[t].fp /\ owned.status = ticket[t].status
  BY <1>1, <1>2 DEF TicketRow
<1>5. /\ ticket' = [ticket EXCEPT ![t] = owned]
      /\ history' = [history EXCEPT ![t] = @ \cup {row}]
      /\ Goto(s, IF old.assign = None THEN Idle ELSE c)
      /\ UNCHANGED <<fingerprint, occurrence, links, outbox>>
  BY DEF AssignCommit
<1> HIDE DEF row, owned, n
<1>6. \A v \in TicketId : /\ ticket'[v] = None <=> ticket[v] = None
                          /\ ticket[v] # None => /\ ticket'[v].fp = ticket[v].fp
                                                  /\ ticket'[v].status = ticket[v].status
  BY <1>1, <1>4, <1>5, RowsAssumption DEF Inv, TablesInv, TablesTyped
<1>7. NumberedHistory'
  <2>1. \A u \in TicketId : ticket'[u] = None <=> ticket[u] = None
    BY <1>6
  <2>2. TablesInv
    BY DEF Inv
  <2>3. history' = [history EXCEPT ![t] = history[t] \cup {row}]
    BY <1>5
  <2> QED BY <1>1, <1>3, <2>1, <2>2, <2>3, AppendRow
<1>8. TablesTyped'
  BY <1>1, <1>3, <1>4, <1>5 DEF Inv, TablesInv, TablesTyped
<1>9. OpenTicketLive'
  <2> SUFFICES ASSUME NEW g \in Hash, fingerprint'[g].open # None
               PROVE  LET u == fingerprint'[g].open
                      IN  /\ ticket'[u] # None /\ ticket'[u].fp = g
                          /\ ticket'[u].status \notin Terminal
    BY DEF OpenTicketLive
  <2>1. fingerprint'[g].open = fingerprint[g].open /\ fingerprint[g].open \in TicketId
    BY <1>5 DEF Inv, TablesInv, TablesTyped, FingerprintRow
  <2> QED BY <2>1, <1>6 DEF Inv, TablesInv, OpenTicketLive
<1>10. TablesInv' /\ Persistent
  BY <1>5, <1>6, <1>7, <1>8, <1>9 DEF TablesInv, Persistent
<1>11. outbox' \subseteq OutboxRow
  BY <1>5 DEF Inv, TypeOK
<1>12. CASE old.assign = None
  BY <1>5, <1>10, <1>11, <1>12, IdleTyped, IdleAfter, StepKeepsInv
<1>13. CASE old.assign # None
  <2>1. /\ c \in SessionState /\ c.pc = "advance" /\ c.ticket = t /\ c.occ = old.occ
        /\ c.by = old.by /\ c.from = old.from
    <3> HIDE DEF old
    <3> QED BY <1>1, <1>2, <1>13 DEF SessionState
  <2>2. Goto(s, c)
    BY <1>5, <1>13
  <2>3. occurrence' = occurrence /\ ticket'[t] # None
    BY <1>1, <1>5, <1>10 DEF Persistent
  <2> HIDE DEF c
  <2>4. Ready(s)'
    <3>1. session'[s] = c
      BY <2>2 DEF Goto, Inv, TypeOK
    <3> QED BY <1>1, <2>1, <2>3, <3>1 DEF Ready, Prepared
  <2> QED BY <1>10, <1>11, <2>1, <2>2, <2>4, StepKeepsInv
<1> QED BY <1>12, <1>13

----------------------------------------------------------------------------
(* The invariant, and what follows from it.                                *)

LEMMA StepInv ==
    ASSUME Inv, NEW s \in Sessions, Step(s)
    PROVE  Inv' /\ Persistent
<1>1. CASE \E f \in Hash, o \in OccId, u \in Users \cup {System} :
               CaptureAttached(s, f, o, u) \/ CaptureUnattached(s, f, o, u)
  BY <1>1, CaptureAttachedStep, CaptureUnattachedStep
<1>2. CASE \E f \in Hash : CaptureSampledOut(s, f)
  BY <1>2, CaptureSampledOutStep
<1>3. CASE RuleFires(s)
  BY <1>3, RuleFiresStep
<1>4. CASE NoRuleFires(s) \/ Crash(s)
  BY <1>4, BackToIdle DEF NoRuleFires, Crash
<1>5. CASE \E o \in OccId, u \in Users \cup {System} : ReportIssue(s, o, u)
  BY <1>5, CheckOpenTicketStep DEF ReportIssue
<1>6. CASE LinkToExisting(s)
  BY <1>6, LinkToExistingStep
<1>7. CASE \E t \in TicketId : InsertTicket(s, t)
  BY <1>7, InsertTicketStep
<1>8. CASE \E t \in TicketId, u \in Users : CreateManual(s, t, u) \/ Reply(s, t, u)
  BY <1>8, CreateManualStep, ReplyStep
<1>9. CASE NotifyCreated(s) \/ NotifyStatus(s) \/ NotifyAssigned(s) \/ ReplyCommit(s)
  BY <1>9, NotifyStep
<1>10. CASE \E t \in TicketId, to \in Status, assign \in Agents \cup {None}, by \in Agents :
               ChangeStatus(s, t, to, assign, by)
  BY <1>10, ChangeStatusStep
<1>11. CASE ApplyStatus(s)
  BY <1>11, ApplyStatusStep
<1>12. CASE \E t \in TicketId, agent \in Agents \cup {None}, by \in Agents :
               Assign(s, t, agent, by)
  BY <1>12, AssignStep
<1>13. CASE AssignCommit(s)
  BY <1>13, AssignCommitStep
<1>14. CASE AdvanceBegin(s)
  BY <1>14, AdvanceBeginStep
<1>15. CASE AdvanceSkip(s)
  BY <1>15, AdvanceSkipStep
<1>16. CASE ReplyResume(s)
  BY <1>16, ReplyResumeStep
<1>17. CASE ReplyApply(s)
  BY <1>17, ReplyApplyStep
<1>18. CASE \E f \in Hash, state \in TriageChoices : Triage(s, f, state)
  BY <1>18, TriageStep
<1> QED BY <1>1, <1>2, <1>3, <1>4, <1>5, <1>6, <1>7, <1>8, <1>9, <1>10, <1>11, <1>12,
           <1>13, <1>14, <1>15, <1>16, <1>17, <1>18 DEF Step

LEMMA StutterInv ==
    ASSUME Inv, UNCHANGED vars
    PROVE  Inv'
<1>1. TablesInv' /\ Persistent /\ UNCHANGED <<outbox, session>>
  BY TablesKept DEF vars, tables
<1> QED BY <1>1, AtomicKeepsInv

(* The inductive invariant holds in every reachable state.                 *)
THEOREM Invariance == Spec => []Inv
<1>1. Inv /\ [Next]_vars => Inv'
  BY StepInv, StutterInv DEF Next
<1> QED BY <1>1, InitInv, PTL DEF Spec

(* Every row the procedures write and every value they carry from one      *)
(* statement to the next is of its declared type.                          *)
THEOREM TypeCorrect == Spec => []TypeOK
<1>1. Inv => TypeOK
  BY DEF Inv
<1> QED BY <1>1, Invariance, PTL

(* The OpenTicketID that usp_Error_Capture trusts without a look names a   *)
(* live ticket of the captured problem.                                    *)
THEOREM OpenTicketCorrect == Spec => []OpenTicketLive
<1>1. Inv => OpenTicketLive
  BY DEF Inv, TablesInv
<1> QED BY <1>1, Invariance, PTL

(* usp_Ticket_ChangeStatus, usp_Ticket_Assign and the two procedures that  *)
(* open tickets number the audit trail 1, 2, 3 ... together.               *)
THEOREM HistoryNumbered == Spec => []GaplessHistory
<1>1. Inv => GaplessHistory
  BY DEF Inv, TablesInv, NumberedHistory
<1> QED BY <1>1, Invariance, PTL

----------------------------------------------------------------------------
(* Deduplication.                                                          *)

(* A session about to link an occurrence found a ticket of its problem.    *)
LinkMatches ==
    \A s \in Sessions : session[s].pc = "link" =>
        ticket[session[s].ticket].fp = occurrence[session[s].occ].fp

SameInv == SameProblem /\ LinkMatches

(* A session that neither moves nor reaches the linking statement.         *)
LEMMA MatchesPersist ==
    ASSUME Inv, LinkMatches, Persistent, NEW s \in Sessions,
           \A r \in Sessions \ {s} : session'[r] = session[r],
           \/ session'[s] = session[s]
           \/ session'[s].pc # "link"
           \/ ticket'[session'[s].ticket].fp = occurrence'[session'[s].occ].fp
    PROVE  LinkMatches'
<1> SUFFICES ASSUME NEW r \in Sessions, session'[r].pc = "link"
             PROVE  ticket'[session'[r].ticket].fp = occurrence'[session'[r].occ].fp
  BY DEF LinkMatches
<1>1. CASE session'[r] = session[r]
  <2>1. /\ session[r].ticket \in TicketId /\ ticket[session[r].ticket] # None
        /\ session[r].occ \in OccId /\ occurrence[session[r].occ] # None
    BY <1>1, Remembered DEF Prepared
  <2> QED BY <1>1, <2>1 DEF LinkMatches, Persistent
<1>2. CASE session'[r] # session[r]
  BY <1>2
<1> QED BY <1>1, <1>2

LEMMA LinksPersist ==
    ASSUME Inv, SameProblem, Persistent, UNCHANGED <<links, occurrence>>
    PROVE  SameProblem'
BY DEF SameProblem, Persistent, Inv, TablesInv, TablesTyped

(* Recording or joining an occurrence: a link to a ticket of its problem,  *)
(* and the occurrence names no ticket but that one.                        *)
LEMMA JoinKeepsSame ==
    ASSUME Inv, SameProblem, Persistent, NEW o \in OccId, NEW t,
           \A p \in OccId \ {o} : occurrence'[p] = occurrence[p],
           occurrence'[o] # None,
           \/ links' = links /\ occurrence'[o].ticket = None
           \/ /\ links' = links \cup {<<t, o>>} /\ occurrence'[o].ticket = t
              /\ t \in TicketId /\ ticket'[t] # None
              /\ ticket'[t].fp = occurrence'[o].fp
    PROVE  SameProblem'
<1>1. ASSUME NEW u \in TicketId, NEW p \in OccId, <<u, p>> \in links'
      PROVE  /\ ticket'[u] # None /\ occurrence'[p] # None
             /\ ticket'[u].fp = occurrence'[p].fp
  <2>1. CASE <<u, p>> \in links
    BY <2>1 DEF SameProblem, Persistent
  <2>2. CASE <<u, p>> \notin links
    <3>1. u = t /\ p = o
      BY <1>1, <2>2
    <3> QED BY <1>1, <2>2, <3>1
  <2> QED BY <2>1, <2>2
<1>2. ASSUME NEW p \in OccId, occurrence'[p] # None, occurrence'[p].ticket # None
      PROVE  <<occurrence'[p].ticket, p>> \in links'
  <2>1. CASE p = o
    BY <1>2, <2>1
  <2>2. CASE p # o
    BY <1>2, <2>2 DEF SameProblem
  <2> QED BY <2>1, <2>2
<1> QED BY <1>1, <1>2 DEF SameProblem

LEMMA CaptureSame ==
    ASSUME Inv, SameInv, Persistent, NEW s \in Sessions, NEW f \in Hash,
           NEW o \in OccId, NEW u \in Users \cup {System},
           CaptureAttached(s, f, o, u) \/ CaptureUnattached(s, f, o, u)
    PROVE  SameInv'
<1> DEFINE t == IF CaptureAttached(s, f, o, u) THEN fingerprint[f].open ELSE None
           row == [fp |-> f, user |-> u, ticket |-> t]
<1>1. t = None \/ (t \in TicketId /\ ticket[t] # None /\ ticket[t].fp = f)
  BY DEF Inv, TablesInv, TablesTyped, FingerprintRow, OpenTicketLive
<1>2. row \in OccurrenceRow /\ row.ticket = t /\ row.fp = f
  BY <1>1 DEF OccurrenceRow
<1>3. /\ occurrence' = [occurrence EXCEPT ![o] = row]
      /\ links' = IF CaptureAttached(s, f, o, u) THEN links \cup {<<t, o>>} ELSE links
  BY DEF CaptureAttached, CaptureUnattached, RecordOccurrence
<1>4. CaptureAttached(s, f, o, u) => t # None
  BY DEF CaptureAttached
<1>5. ~CaptureAttached(s, f, o, u) => t = None
  OBVIOUS
<1> HIDE DEF row, t
<1>6. SameProblem'
  <2>1. /\ \A p \in OccId \ {o} : occurrence'[p] = occurrence[p]
        /\ occurrence'[o] = row /\ row # None
    BY <1>2, <1>3, RowsAssumption DEF Inv, TablesInv, TablesTyped
  <2>2. t # None => ticket'[t] # None /\ ticket'[t].fp = f
    BY <1>1 DEF Persistent
  <2> QED BY <1>1, <1>2, <1>3, <1>4, <1>5, <2>1, <2>2, JoinKeepsSame DEF SameInv
<1>7. LinkMatches'
  <2>1. CASE CaptureAttached(s, f, o, u)
    BY <2>1, MatchesPersist DEF CaptureAttached, SameInv
  <2>2. CASE CaptureUnattached(s, f, o, u)
    <3>1. session'[s].pc # "link" /\ \A r \in Sessions \ {s} : session'[r] = session[r]
      BY <2>2 DEF CaptureUnattached, Goto, Idle, Inv, TypeOK
    <3> QED BY <3>1, MatchesPersist DEF SameInv
  <2> QED BY <2>1, <2>2
<1> QED BY <1>6, <1>7 DEF SameInv

LEMMA CheckSame ==
    ASSUME Inv, SameInv, Persistent, NEW s \in Sessions, NEW o \in OccId,
           occurrence[o] # None, NEW by, CheckOpenTicket(s, o, by),
           UNCHANGED <<tables, outbox>>
    PROVE  SameInv'
<1> DEFINE t == fingerprint[occurrence[o].fp].open
           live == t # None /\ ticket[t].status \notin Terminal
           joins == [Idle EXCEPT !.pc = "link", !.occ = o, !.by = by, !.ticket = t]
           opens == [Idle EXCEPT !.pc = "insert", !.occ = o, !.by = by,
                                 !.ticket = None]
<1>1. SameProblem'
  BY LinksPersist DEF tables, SameInv
<1>2. session' = [session EXCEPT ![s] = IF live THEN joins ELSE opens]
  BY DEF CheckOpenTicket, Goto
<1>3. \A r \in Sessions \ {s} : session'[r] = session[r]
  BY <1>2 DEF Inv, TypeOK
<1>4. CASE live
  <2>1. session'[s] = joins
    BY <1>2, <1>4 DEF Inv, TypeOK
  <2>2. joins.occ = o /\ joins.ticket = t
    BY DEF Idle
  <2>3. occurrence[o] \in OccurrenceRow /\ occurrence[o].fp \in Hash
    BY DEF Inv, TablesInv, TablesTyped, OccurrenceRow
  <2>4. ticket[t].fp = occurrence[o].fp
    BY <1>4, <2>3 DEF Inv, TablesInv, OpenTicketLive
  <2>5. ticket'[session'[s].ticket].fp = occurrence'[session'[s].occ].fp
    <3> HIDE DEF joins, t
    <3> QED BY <2>1, <2>2, <2>4 DEF tables
  <2> QED BY <1>1, <1>3, <2>5, MatchesPersist DEF SameInv
<1>5. CASE ~live
  <2>1. session'[s] = opens
    BY <1>2, <1>5 DEF Inv, TypeOK
  <2>2. session'[s].pc # "link"
    BY <2>1 DEF Idle
  <2> QED BY <1>1, <1>3, <2>2, MatchesPersist DEF SameInv
<1> QED BY <1>4, <1>5

LEMMA LinkSame ==
    ASSUME Inv, SameInv, Persistent, NEW s \in Sessions, LinkToExisting(s)
    PROVE  SameInv'
<1> DEFINE o == session[s].occ
           t == session[s].ticket
           joined == [occurrence[o] EXCEPT !.ticket = t]
<1>1. /\ t \in TicketId /\ ticket[t] # None
      /\ o \in OccId /\ occurrence[o] \in OccurrenceRow /\ occurrence[o] # None
      /\ ticket[t].fp = occurrence[o].fp
  BY Remembered DEF LinkToExisting, At, Prepared, SameInv, LinkMatches
<1>2. joined \in OccurrenceRow /\ joined.fp = occurrence[o].fp /\ joined.ticket = t
  BY <1>1 DEF OccurrenceRow
<1>3. /\ occurrence' = [occurrence EXCEPT ![o] = joined]
      /\ links' = links \cup {<<t, o>>}
      /\ Goto(s, Idle)
  BY DEF LinkToExisting
<1> HIDE DEF joined, o, t
<1>4. /\ \A p \in OccId \ {o} : occurrence'[p] = occurrence[p]
      /\ occurrence'[o] = joined /\ joined # None
      /\ ticket'[t] # None /\ ticket'[t].fp = ticket[t].fp
  BY <1>1, <1>2, <1>3, RowsAssumption DEF Inv, TablesInv, TablesTyped, Persistent
<1>5. SameProblem'
  BY <1>1, <1>2, <1>3, <1>4, JoinKeepsSame DEF SameInv
<1>6. session'[s].pc # "link" /\ \A r \in Sessions \ {s} : session'[r] = session[r]
  BY <1>3 DEF Goto, Idle, Inv, TypeOK
<1> QED BY <1>5, <1>6, MatchesPersist DEF SameInv

LEMMA InsertSame ==
    ASSUME Inv, SameInv, Persistent, NEW s \in Sessions, NEW t \in TicketId,
           InsertTicket(s, t)
    PROVE  SameInv'
<1> DEFINE o == session[s].occ
           f == occurrence[o].fp
           joined == [occurrence[o] EXCEPT !.ticket = t]
<1>1. /\ o \in OccId /\ occurrence[o] # None /\ occurrence[o] \in OccurrenceRow
      /\ session[s].by \in Person
  BY Remembered DEF InsertTicket, At, Prepared, SessionState
<1>2. joined \in OccurrenceRow /\ joined.fp = f /\ joined.ticket = t /\ f \in Hash
  BY <1>1 DEF OccurrenceRow
<1>3. /\ occurrence' = [occurrence EXCEPT ![o] = joined]
      /\ links' = links \cup {<<t, o>>}
      /\ OpenTicket(s, t, f, session[s].by, 1)
  BY DEF InsertTicket
<1>4. ticket'[t] # None /\ ticket'[t].fp = f
  BY <1>1, <1>2, <1>3, OpenedSession
<1>5. session'[s].pc # "link" /\ \A r \in Sessions \ {s} : session'[r] = session[r]
  BY <1>3 DEF OpenTicket, Goto, Idle, Inv, TypeOK
<1> HIDE DEF joined, o, f
<1>6. /\ \A p \in OccId \ {o} : occurrence'[p] = occurrence[p]
      /\ occurrence'[o] = joined /\ joined # None
  BY <1>1, <1>2, <1>3, RowsAssumption DEF Inv, TablesInv, TablesTyped
<1>7. SameProblem'
  BY <1>1, <1>2, <1>3, <1>4, <1>6, JoinKeepsSame DEF SameInv
<1> QED BY <1>5, <1>7, MatchesPersist DEF SameInv

(* The other procedures link nothing and reach no linking statement.       *)
LEMMA OtherSame ==
    ASSUME Inv, SameInv, Persistent, NEW s \in Sessions,
           UNCHANGED <<links, occurrence>>,
           \/ UNCHANGED session
           \/ /\ session'[s].pc # "link"
              /\ \A r \in Sessions \ {s} : session'[r] = session[r]
    PROVE  SameInv'
<1>1. SameProblem'
  BY LinksPersist DEF SameInv
<1> QED BY <1>1, MatchesPersist DEF SameInv

LEMMA StepSame ==
    ASSUME Inv, SameInv, NEW s \in Sessions, Step(s)
    PROVE  SameInv'
<1>0. Persistent
  BY StepInv
<1>1. CASE \E f \in Hash, o \in OccId, u \in Users \cup {System} :
               CaptureAttached(s, f, o, u) \/ CaptureUnattached(s, f, o, u)
  BY <1>0, <1>1, CaptureSame
<1>2. CASE RuleFires(s)
  <2>1. session[s].occ \in OccId /\ occurrence[session[s].occ] # None
    BY <1>2, Remembered DEF RuleFires, At, Prepared
  <2> QED BY <1>0, <1>2, <2>1, CheckSame DEF RuleFires
<1>3. CASE \E o \in OccId, u \in Users \cup {System} : ReportIssue(s, o, u)
  BY <1>0, <1>3, CheckSame DEF ReportIssue
<1>4. CASE LinkToExisting(s)
  BY <1>0, <1>4, LinkSame
<1>5. CASE \E t \in TicketId : InsertTicket(s, t)
  BY <1>0, <1>5, InsertSame
<1>6. CASE \/ \E f \in Hash : CaptureSampledOut(s, f)
           \/ \E f \in Hash, state \in TriageChoices : Triage(s, f, state)
  BY <1>0, <1>6, OtherSame DEF CaptureSampledOut, Triage
<1>7. CASE NoRuleFires(s) \/ NotifyCreated(s) \/ NotifyAssigned(s) \/ ReplyCommit(s) \/ Crash(s)
  <2>1. session'[s].pc # "link" /\ \A r \in Sessions \ {s} : session'[r] = session[r]
    BY <1>7 DEF NoRuleFires, NotifyCreated, NotifyAssigned, ReplyCommit, Crash,
                Goto, Idle, Inv, TypeOK
  <2> QED BY <1>0, <1>7, <2>1, OtherSame
          DEF NoRuleFires, NotifyCreated, NotifyAssigned, ReplyCommit, Crash, tables
<1>8. CASE NotifyStatus(s)
  <2>1. session'[s].pc # "link" /\ \A r \in Sessions \ {s} : session'[r] = session[r]
    BY <1>8 DEF NotifyStatus, Goto, Idle, Inv, TypeOK
  <2> QED BY <1>0, <1>8, <2>1, OtherSame DEF NotifyStatus, tables
<1>9. CASE \E t \in TicketId, u \in Users : CreateManual(s, t, u) \/ Reply(s, t, u)
  <2>1. session'[s].pc # "link" /\ \A r \in Sessions \ {s} : session'[r] = session[r]
    <3>1. CASE \E t \in TicketId, u \in Users : CreateManual(s, t, u)
      BY <3>1 DEF CreateManual, OpenTicket, Goto, Idle, Inv, TypeOK
    <3>2. CASE \E t \in TicketId, u \in Users : Reply(s, t, u)
      BY <3>2 DEF Reply, Goto, Idle, Inv, TypeOK
    <3> QED BY <1>9, <3>1, <3>2
  <2> QED BY <1>0, <1>9, <2>1, OtherSame DEF CreateManual, Reply, tables
<1>10. CASE \E t \in TicketId, to \in Status, assign \in Agents \cup {None}, by \in Agents :
               ChangeStatus(s, t, to, assign, by)
  <2>1. session'[s].pc # "link" /\ \A r \in Sessions \ {s} : session'[r] = session[r]
    BY <1>10 DEF ChangeStatus, Goto, Idle, Inv, TypeOK
  <2> QED BY <1>0, <1>10, <2>1, OtherSame DEF ChangeStatus, tables
<1>11. CASE \E t \in TicketId, agent \in Agents \cup {None}, by \in Agents :
               Assign(s, t, agent, by)
  <2>1. session'[s].pc # "link" /\ \A r \in Sessions \ {s} : session'[r] = session[r]
    BY <1>11 DEF Assign, Goto, Idle, Inv, TypeOK
  <2> QED BY <1>0, <1>11, <2>1, OtherSame DEF Assign, tables
<1>12. CASE ApplyStatus(s) \/ ReplyApply(s)
  <2>1. session'[s].pc # "link" /\ \A r \in Sessions \ {s} : session'[r] = session[r]
    <3>1. CASE ApplyStatus(s)
      BY <3>1 DEF ApplyStatus, Goto, Idle, Inv, TypeOK
    <3>2. CASE ReplyApply(s)
      BY <3>2 DEF ReplyApply, Goto, Idle, Inv, TypeOK
    <3> QED BY <1>12, <3>1, <3>2
  <2> QED BY <1>0, <1>12, <2>1, OtherSame DEF ApplyStatus, ReplyApply, MoveTicket, ProblemAfter
<1>13. CASE AssignCommit(s) \/ AdvanceBegin(s) \/ AdvanceSkip(s) \/ ReplyResume(s)
  <2>1. session[s] \in SessionState
    BY Remembered
  <2>2. session'[s].pc # "link" /\ \A r \in Sessions \ {s} : session'[r] = session[r]
    <3>1. CASE AssignCommit(s)
      BY <2>1, <3>1 DEF AssignCommit, Goto, Idle, SessionState, Inv, TypeOK
    <3>2. CASE AdvanceBegin(s)
      BY <2>1, <3>2 DEF AdvanceBegin, Goto, SessionState, Inv, TypeOK
    <3>3. CASE AdvanceSkip(s)
      BY <2>1, <3>3 DEF AdvanceSkip, Goto, SessionState, Inv, TypeOK
    <3>4. CASE ReplyResume(s)
      BY <2>1, <3>4 DEF ReplyResume, Goto, SessionState, Inv, TypeOK
    <3> QED BY <1>13, <3>1, <3>2, <3>3, <3>4
  <2> QED BY <1>0, <1>13, <2>2, OtherSame
          DEF AssignCommit, AdvanceBegin, AdvanceSkip, ReplyResume, tables
<1> QED BY <1>1, <1>2, <1>3, <1>4, <1>5, <1>6, <1>7, <1>8, <1>9, <1>10, <1>11, <1>12,
           <1>13 DEF Step

(* Deduplication and attachment never merge two problems: a ticket's       *)
(* linked occurrences are occurrences of its problem.                      *)
THEOREM DeduplicationSafe == Spec => []SameProblem
<1>1. Init => SameInv
  BY DEF Init, SameInv, SameProblem, LinkMatches, Idle
<1>2. Inv /\ SameInv /\ [Next]_vars => SameInv'
  <2>1. ASSUME Inv, SameInv, UNCHANGED vars PROVE SameInv'
    BY <2>1 DEF vars, SameInv, SameProblem, LinkMatches
  <2> QED BY <2>1, StepSame DEF Next
<1>3. SameInv => SameProblem
  BY DEF SameInv
<1> QED BY <1>1, <1>2, <1>3, Invariance, PTL DEF Spec

=============================================================================
