--------------------------- MODULE TicketLifecycle ---------------------------
(***************************************************************************)
(* The ticket core of the ERM schema: captured errors, the problems        *)
(* (fingerprints) they collapse into, the tickets raised for them and the  *)
(* audit trail of every ticket, as written by the stored procedures        *)
(*                                                                         *)
(*   usp_Error_Capture, usp_Ticket_Create, usp_Ticket_ChangeStatus and     *)
(*   usp_Fingerprint_Triage            db/004_programmability.sql          *)
(*   usp_Ticket_AddUserComment         db/007_end_user_ticket_access.sql   *)
(*   usp_Ticket_Assign, usp_Ticket_CreateManual   db/011_support_access... *)
(*   usp_Notification_Enqueue          db/012_notifications.sql            *)
(*                                                                         *)
(* A procedure reads and validates before it opens its transaction, writes *)
(* inside it, and queues its notification after the COMMIT.  Each of those *)
(* stretches is one action of the session (database connection) running    *)
(* it, so that every interleaving the engine allows between them is a      *)
(* behaviour.  A transaction is one step: its writes become visible        *)
(* together, and what a validation read may have changed before they do.   *)
(***************************************************************************)
EXTENDS Naturals, FiniteSets

CONSTANTS
    Sessions,          \* database connections executing procedures
    Hash,              \* fingerprint hashes: the distinct problems
    OccId,             \* identities of ERM_ErrorOccurrence rows
    TicketId,          \* identities of ERM_Ticket rows
    Users,             \* ERP users (UserProfileID > 0) who hit and report errors
    Agents,            \* active, assignable members of the support roster
    System,            \* the non-user value -1: anonymous callers, auto rules
    None,              \* SQL NULL
    Status,            \* codes of ERM_TicketStatus
    Terminal,          \* those flagged IsTerminal
    Paused,            \* those flagged IsPaused
    Transitions,       \* active <<from, to>> rows of ERM_TicketStatusTransition
    NeedsAssignee,     \* those of them with RequiresAssignee = 1
    AttachRecurrence,  \* the setting ticket.attachRecurrenceToOpen
    RuleThreshold,     \* MinOccurrences of the auto-ticket rule
    TriageChoices,     \* triage states an administrator sets by hand
    MaxSightings,      \* bound: captures of one problem
    MaxHistory,        \* bound: history rows of one ticket
    Crashes            \* whether sessions may die between two statements

Person == Users \cup Agents \cup {System}

ASSUME IdsAssumption ==
    /\ IsFiniteSet(OccId) /\ IsFiniteSet(Users)
    /\ None \notin TicketId \cup OccId \cup Hash \cup Person \cup Status
    /\ System \notin Users \cup Agents

ASSUME WorkflowAssumption ==
    /\ {"new", "assigned", "in_progress", "resolved", "reopened"} \subseteq Status
    /\ Terminal \subseteq Status /\ Paused \subseteq Status
    /\ "new" \notin Terminal /\ "reopened" \notin Terminal
    /\ Transitions \subseteq Status \X Status
    /\ NeedsAssignee \subseteq Transitions

TriageState == {"new", "acknowledged", "known_issue", "muted", "resolved"}

ASSUME SettingsAssumption ==
    /\ AttachRecurrence \in BOOLEAN /\ Crashes \in BOOLEAN
    /\ RuleThreshold \in Nat /\ MaxSightings \in Nat /\ MaxHistory \in Nat
    /\ TriageChoices \subseteq TriageState

VARIABLES
    fingerprint,  \* [Hash -> row]: count, users, triage state, OpenTicketID
    occurrence,   \* [OccId -> row or None]: its problem, user and ERM_TicketID
    ticket,       \* [TicketId -> row or None]
    links,        \* ERM_TicketOccurrenceLink: pairs <<ticket, occurrence>>
    history,      \* [TicketId -> set of ERM_TicketStatusHistory rows]
    outbox,       \* ERM_NotificationOutbox
    session       \* [Sessions -> where the procedure it runs has got to]

tables == <<fingerprint, occurrence, ticket, links, history>>
vars == <<fingerprint, occurrence, ticket, links, history, outbox, session>>

----------------------------------------------------------------------------
(* Rows and session states.                                                *)

FingerprintRow == [count : Nat, users : Nat, triage : TriageState,
                   open : TicketId \cup {None}]

OccurrenceRow == [fp : Hash, user : Users \cup {System},
                  ticket : TicketId \cup {None}]

TicketRow == [fp : Hash \cup {None}, status : Status, reporter : Person,
              assignee : Agents \cup {None}, linked : Nat, reopens : Nat,
              resolved : BOOLEAN, closed : BOOLEAN]

HistoryRow == [seq : Nat, from : Status \cup {None}, to : Status,
               kind : {"status", "assignment"}, by : Person]

\* A row is never NULL.
ASSUME RowsAssumption == None \notin TicketRow \cup OccurrenceRow

\* seq names the history row the notification tells of (0: a reply, none).
OutboxRow == [ticket : TicketId, event : {"created", "status_changed", "assigned",
                                          "user_replied"},
              to : Person, seq : Nat]

(* What a session remembers between two statements: where it is, and the   *)
(* local variables (the values READ earlier) its next statement will use.  *)
SessionState ==
    [pc : {"idle", "evaluate", "link", "insert", "apply", "assign", "advance",
           "reply", "reply_apply", "notify_created", "notify_status",
           "notify_assigned"},
     occ : OccId \cup {None}, ticket : TicketId \cup {None},
     from : Status \cup {None}, to : Status \cup {None},
     by : Person \cup {None}, assign : Agents \cup {None},
     tell : Agents \cup {None}, seq : Nat]

Idle == [pc |-> "idle", occ |-> None, ticket |-> None, from |-> None, to |-> None,
         by |-> None, assign |-> None, tell |-> None, seq |-> 0]

Goto(s, state) == session' = [session EXCEPT ![s] = state]

At(s, pc) == session[s].pc = pc

----------------------------------------------------------------------------
(* Helpers on the tables.                                                  *)

OccurrencesOf(f) ==
    {o \in OccId : occurrence[o] # None /\ occurrence[o].fp = f}

UsersOf(f) == {u \in Users : \E o \in OccurrencesOf(f) : occurrence[o].user = u}

LinkedTo(t) == {o \in OccId : <<t, o>> \in links}

Sequences(t) == {r.seq : r \in history[t]}

\* Mutation: the last number again, not the next.
NextSequenceNoRepeats(t) == IF history[t] = {} THEN 1 ELSE Cardinality(history[t])

\* SELECT ISNULL(MAX(SequenceNo), 0) + 1 under UPDLOCK, HOLDLOCK.
NextSequenceNo(t) ==
    IF history[t] = {} THEN 1
    ELSE (CHOOSE n \in Sequences(t) : \A m \in Sequences(t) : m <= n) + 1

\* Mutation: no check for a NULL recipient.
EnqueuedToNobody(t, event, to, by, seq) ==
    {n \in {[ticket |-> t, event |-> event, to |-> to, seq |-> seq]} : to # by}

\* usp_Notification_Enqueue: the row it inserts, or nothing for a recipient
\* who is nobody or who caused the event.
Enqueued(t, event, to, by, seq) ==
    {n \in {[ticket |-> t, event |-> event, to |-> to, seq |-> seq]} :
        to \notin {None, System} /\ to # by}

\* Mutation: the workflow is not consulted.
PermittedAnywhere(t, to, assign) ==
    /\ ticket[t].status # to
    /\ <<ticket[t].status, to>> \in NeedsAssignee =>
            assign # None \/ ticket[t].assignee # None

\* The checks usp_Ticket_ChangeStatus makes before its transaction. A comment
\* the workflow requires is taken as supplied: without it nothing happens.
Permitted(t, to, assign) ==
    LET move == <<ticket[t].status, to>>
    IN  /\ ticket[t].status # to
        /\ move \in Transitions
        /\ move \in NeedsAssignee => assign # None \/ ticket[t].assignee # None

----------------------------------------------------------------------------
Init ==
    /\ fingerprint = [f \in Hash |->
            [count |-> 0, users |-> 0, triage |-> "new", open |-> None]]
    /\ occurrence = [o \in OccId |-> None]
    /\ ticket = [t \in TicketId |-> None]
    /\ links = {}
    /\ history = [t \in TicketId |-> {}]
    /\ outbox = {}
    /\ session = [s \in Sessions |-> Idle]

----------------------------------------------------------------------------
(* usp_Error_Capture.                                                      *)

\* Mutation: every sighting counts a user.
RecordOccurrenceRecounts(f, o, u, t) ==
    /\ fingerprint' = [fingerprint EXCEPT
            ![f].count = @ + 1, ![f].users = IF u \in Users THEN @ + 1 ELSE @]
    /\ occurrence' = [occurrence EXCEPT
            ![o] = [fp |-> f, user |-> u, ticket |-> t]]

\* The fingerprint upsert and the occurrence row; OpenTicketID is read under the
\* lock the MERGE holds, and t is the ticket the occurrence is attached to.
RecordOccurrence(f, o, u, t) ==
    /\ fingerprint' = [fingerprint EXCEPT
            ![f].count = @ + 1,
            ![f].users = IF u \in Users \ UsersOf(f) THEN @ + 1 ELSE @]
    /\ occurrence' = [occurrence EXCEPT
            ![o] = [fp |-> f, user |-> u, ticket |-> t]]

\* An open ticket exists: the transaction attaches the occurrence to it, without
\* looking at its status, and no rule is evaluated.
CaptureAttached(s, f, o, u) ==
    LET t == fingerprint[f].open
    IN  /\ session[s] = Idle
        /\ occurrence[o] = None /\ fingerprint[f].count < MaxSightings
        /\ AttachRecurrence /\ t # None
        /\ RecordOccurrence(f, o, u, t)
        /\ links' = links \cup {<<t, o>>}
        /\ ticket' = [ticket EXCEPT ![t].linked = @ + 1]
        /\ UNCHANGED <<history, outbox, session>>

\* No open ticket (or attaching is switched off): unless the problem is muted,
\* the session goes on to the auto-ticket rules, outside the transaction.
CaptureUnattached(s, f, o, u) ==
    /\ session[s] = Idle
    /\ occurrence[o] = None /\ fingerprint[f].count < MaxSightings
    /\ ~AttachRecurrence \/ fingerprint[f].open = None
    /\ RecordOccurrence(f, o, u, None)
    /\ Goto(s, IF fingerprint[f].triage = "muted" THEN Idle
               ELSE [Idle EXCEPT !.pc = "evaluate", !.occ = o])
    /\ UNCHANGED <<ticket, links, history, outbox>>

\* Info noise that the sampling drops: counted on the problem, no row.
CaptureSampledOut(s, f) ==
    /\ session[s] = Idle
    /\ fingerprint[f].count < MaxSightings
    /\ fingerprint' = [fingerprint EXCEPT ![f].count = @ + 1]
    /\ UNCHANGED <<occurrence, ticket, links, history, outbox, session>>

----------------------------------------------------------------------------
(* usp_Ticket_Create: from the error dialog, or EXECuted by a rule.        *)

\* Mutation: the look-up forgets whose open ticket it is after.
CheckOpenTicketOfAny(s, o, by) ==
    \E f \in Hash :
        LET t == fingerprint[f].open
        IN  IF t # None
            THEN Goto(s, [Idle EXCEPT !.pc = "link", !.occ = o, !.by = by, !.ticket = t])
            ELSE Goto(s, [Idle EXCEPT !.pc = "insert", !.occ = o, !.by = by])

\* The look-up of an open ticket, before any transaction.
CheckOpenTicket(s, o, by) ==
    LET t == fingerprint[occurrence[o].fp].open
        live == t # None /\ ticket[t].status \notin Terminal
    IN  Goto(s, [Idle EXCEPT !.pc = IF live THEN "link" ELSE "insert",
                             !.occ = o, !.by = by,
                             !.ticket = IF live THEN t ELSE None])

\* A rule fires when enough occurrences fall in its window; the window only
\* hides rows, so at least that many exist.
RuleFires(s) ==
    /\ At(s, "evaluate")
    /\ Cardinality(OccurrencesOf(occurrence[session[s].occ].fp)) >= RuleThreshold
    /\ CheckOpenTicket(s, session[s].occ, System)
    /\ UNCHANGED <<tables, outbox>>

NoRuleFires(s) ==
    /\ At(s, "evaluate")
    /\ Goto(s, Idle)
    /\ UNCHANGED <<tables, outbox>>

ReportIssue(s, o, u) ==
    /\ session[s] = Idle
    /\ occurrence[o] # None
    /\ CheckOpenTicket(s, o, u)
    /\ UNCHANGED <<tables, outbox>>

\* Mutation: a link that is there already is counted again.
LinkToExistingRecounts(s) ==
    LET o == session[s].occ
        t == session[s].ticket
    IN  /\ At(s, "link")
        /\ links' = links \cup {<<t, o>>}
        /\ ticket' = [ticket EXCEPT ![t].linked = @ + 1]
        /\ occurrence' = [occurrence EXCEPT ![o].ticket = t]
        /\ Goto(s, Idle)
        /\ UNCHANGED <<fingerprint, history, outbox>>

\* Deduplicated: the occurrence joins the ticket the check found.
LinkToExisting(s) ==
    LET o == session[s].occ
        t == session[s].ticket
    IN  /\ At(s, "link")
        /\ links' = links \cup {<<t, o>>}
        /\ ticket' = IF <<t, o>> \in links THEN ticket
                     ELSE [ticket EXCEPT ![t].linked = @ + 1]
        /\ occurrence' = [occurrence EXCEPT ![o].ticket = t]
        /\ Goto(s, Idle)
        /\ UNCHANGED <<fingerprint, history, outbox>>

\* Mutation: the seeded status is not found.
NewTicketWithoutStatus(f, reporter, linked) ==
    [fp |-> f, status |-> None, reporter |-> reporter, assignee |-> None,
     linked |-> linked, reopens |-> 0, resolved |-> FALSE, closed |-> FALSE]

NewTicket(f, reporter, linked) ==
    [fp |-> f, status |-> "new", reporter |-> reporter, assignee |-> None,
     linked |-> linked, reopens |-> 0, resolved |-> FALSE, closed |-> FALSE]

FirstRow(by) ==
    [seq |-> 1, from |-> None, to |-> "new", kind |-> "status", by |-> by]

\* The rows a new ticket needs, and the notification that follows the COMMIT.
OpenTicket(s, t, f, reporter, linked) ==
    /\ ticket[t] = None
    /\ ticket' = [ticket EXCEPT ![t] = NewTicket(f, reporter, linked)]
    /\ history' = [history EXCEPT ![t] = {FirstRow(reporter)}]
    /\ Goto(s, [Idle EXCEPT !.pc = "notify_created", !.ticket = t, !.seq = 1])

InsertTicket(s, t) ==
    LET o == session[s].occ
        f == occurrence[o].fp
    IN  /\ At(s, "insert")
        /\ OpenTicket(s, t, f, session[s].by, 1)
        /\ links' = links \cup {<<t, o>>}
        /\ occurrence' = [occurrence EXCEPT ![o].ticket = t]
        /\ fingerprint' = [fingerprint EXCEPT
                ![f].open = t,
                ![f].triage = IF @ = "new" THEN "acknowledged" ELSE @]
        /\ UNCHANGED outbox

\* usp_Ticket_CreateManual: no error behind it, never deduplicated.
CreateManual(s, t, u) ==
    /\ session[s] = Idle
    /\ OpenTicket(s, t, None, u, 0)
    /\ UNCHANGED <<fingerprint, occurrence, links, outbox>>

NotifyCreated(s) ==
    LET t == session[s].ticket
    IN  /\ At(s, "notify_created")
        /\ outbox' = outbox \cup Enqueued(t, "created", ticket[t].reporter, None,
                                          session[s].seq)
        /\ Goto(s, Idle)
        /\ UNCHANGED tables

----------------------------------------------------------------------------
(* usp_Ticket_ChangeStatus.                                                *)

ChangeStatus(s, t, to, assign, by) ==
    /\ session[s] = Idle
    /\ ticket[t] # None /\ Permitted(t, to, assign)
    /\ Goto(s, [Idle EXCEPT !.pc = "apply", !.ticket = t, !.by = by, !.to = to,
                            !.from = ticket[t].status, !.assign = assign])
    /\ UNCHANGED <<tables, outbox>>

\* Mutation: the problem keeps the ticket that dies.
ProblemAfterKeepsDead(t, to) ==
    IF ticket[t].fp # None /\ to = "reopened"
    THEN [fingerprint EXCEPT ![ticket[t].fp].open = t] ELSE fingerprint

\* The problem of a ticket that moves: its OpenTicketID is cleared when that
\* ticket dies, and set when it comes back.
ProblemAfter(t, to) ==
    LET f == ticket[t].fp
    IN  IF f # None /\ to \in Terminal /\ fingerprint[f].open = t
        THEN [fingerprint EXCEPT
                 ![f].open = None,
                 ![f].triage = IF @ \in {"new", "acknowledged"}
                               THEN "resolved" ELSE @]
        ELSE IF f # None /\ to = "reopened"
        THEN [fingerprint EXCEPT ![f].open = t, ![f].triage = "acknowledged"]
        ELSE fingerprint

\* Mutation: a reopening leaves ClosedUtc.
ClosedAfterSticks(t, to) == to \in Terminal \/ ticket[t].closed

\* ClosedUtc: set by a terminal status, cleared by a reopening.
ClosedAfter(t, to) == to \in Terminal \/ (ticket[t].closed /\ to # "reopened")

\* The transaction: the history row from the values read earlier, the ticket and
\* its problem.
MoveTicket(t, from, to, assign, by) ==
    /\ Cardinality(history[t]) < MaxHistory
    /\ history' = [history EXCEPT ![t] = @ \cup
            {[seq |-> NextSequenceNo(t), from |-> from, to |-> to,
              kind |-> "status", by |-> by]}]
    /\ ticket' = [ticket EXCEPT
            ![t].status = to,
            ![t].assignee = IF assign # None THEN assign ELSE @,
            ![t].reopens = IF to = "reopened" THEN @ + 1 ELSE @,
            ![t].resolved = to = "resolved" \/ (@ /\ to # "reopened"),
            ![t].closed = ClosedAfter(t, to)]
    /\ fingerprint' = ProblemAfter(t, to)
    /\ UNCHANGED <<occurrence, links>>

ApplyStatus(s) ==
    LET c == session[s]
    IN  /\ At(s, "apply")
        /\ MoveTicket(c.ticket, c.from, c.to, c.assign, c.by)
        /\ Goto(s, [Idle EXCEPT !.pc = "notify_status", !.ticket = c.ticket,
                                !.by = c.by, !.tell = c.tell,
                                !.seq = NextSequenceNo(c.ticket)])
        /\ UNCHANGED outbox

\* Mutation: a nested change of status tells nobody.
NotifyStatusUnlessNested(s) ==
    LET c == session[s]
    IN  /\ At(s, "notify_status")
        /\ outbox' = IF c.tell # None THEN outbox
                     ELSE outbox \cup Enqueued(c.ticket, "status_changed",
                                ticket[c.ticket].reporter, c.by, c.seq)
        /\ Goto(s, IF c.tell = None THEN Idle
                   ELSE [Idle EXCEPT !.pc = "notify_assigned", !.by = c.by,
                            !.ticket = c.ticket, !.tell = c.tell, !.seq = c.seq])
        /\ UNCHANGED tables

\* The caller of the nested call still has to tell the new assignee.
NotifyStatus(s) ==
    LET c == session[s]
    IN  /\ At(s, "notify_status")
        /\ outbox' = outbox \cup Enqueued(c.ticket, "status_changed",
                                ticket[c.ticket].reporter, c.by, c.seq)
        /\ Goto(s, IF c.tell = None THEN Idle
                   ELSE [Idle EXCEPT !.pc = "notify_assigned", !.by = c.by,
                            !.ticket = c.ticket, !.tell = c.tell, !.seq = c.seq])
        /\ UNCHANGED tables

----------------------------------------------------------------------------
(* usp_Ticket_Assign; agent = None unassigns.                              *)

Assign(s, t, agent, by) ==
    /\ session[s] = Idle
    /\ ticket[t] # None
    /\ Goto(s, [Idle EXCEPT !.pc = "assign", !.ticket = t, !.by = by,
                            !.from = ticket[t].status, !.assign = agent])
    /\ UNCHANGED <<tables, outbox>>

\* Mutation: the assignment sets the status itself, past the workflow.
AssignCommitMoves(s) ==
    LET c == session[s]
        t == c.ticket
    IN  /\ At(s, "assign")
        /\ Cardinality(history[t]) < MaxHistory
        /\ ticket' = [ticket EXCEPT ![t].assignee = c.assign, ![t].status = "assigned"]
        /\ history' = [history EXCEPT ![t] = @ \cup
                {[seq |-> NextSequenceNo(t), from |-> c.from, to |-> c.from,
                  kind |-> "assignment", by |-> c.by]}]
        /\ Goto(s, [c EXCEPT !.pc = "notify_assigned", !.tell = c.assign,
                              !.seq = NextSequenceNo(t)])
        /\ UNCHANGED <<fingerprint, occurrence, links, outbox>>

\* The history row carries, on both sides, the status read before.
AssignCommit(s) ==
    LET c == session[s]
        t == c.ticket
    IN  /\ At(s, "assign")
        /\ Cardinality(history[t]) < MaxHistory
        /\ ticket' = [ticket EXCEPT ![t].assignee = c.assign]
        /\ history' = [history EXCEPT ![t] = @ \cup
                {[seq |-> NextSequenceNo(t), from |-> c.from, to |-> c.from,
                  kind |-> "assignment", by |-> c.by]}]
        /\ Goto(s, IF c.assign = None THEN Idle
                   ELSE [c EXCEPT !.pc = "advance", !.tell = c.assign,
                                  !.seq = NextSequenceNo(t)])
        /\ UNCHANGED <<fingerprint, occurrence, links, outbox>>

\* The nested ChangeStatus to 'assigned': guarded by the status read before the
\* transaction, validated again against the status of now.
AdvanceBegin(s) ==
    LET c == session[s]
    IN  /\ At(s, "advance")
        /\ c.from # "assigned" /\ <<c.from, "assigned">> \in Transitions
        /\ Permitted(c.ticket, "assigned", c.assign)
        /\ Goto(s, [c EXCEPT !.pc = "apply", !.to = "assigned",
                             !.from = ticket[c.ticket].status])
        /\ UNCHANGED <<tables, outbox>>

\* The caller passed @AdvanceStatus = 0, or the workflow refuses the move.
AdvanceSkip(s) ==
    /\ At(s, "advance")
    /\ Goto(s, [session[s] EXCEPT !.pc = "notify_assigned"])
    /\ UNCHANGED <<tables, outbox>>

NotifyAssigned(s) ==
    LET c == session[s]
    IN  /\ At(s, "notify_assigned")
        /\ outbox' = outbox \cup Enqueued(c.ticket, "assigned", c.tell, c.by, c.seq)
        /\ Goto(s, Idle)
        /\ UNCHANGED tables

----------------------------------------------------------------------------
(* usp_Ticket_AddUserComment: the reporter's reply.                        *)

Reply(s, t, u) ==
    /\ session[s] = Idle
    /\ ticket[t] # None
    /\ ticket[t].reporter = u /\ ticket[t].status \notin Terminal
    /\ Goto(s, [Idle EXCEPT !.pc = "reply", !.ticket = t, !.by = u])
    /\ UNCHANGED <<tables, outbox>>

Resumable(t) == ticket[t].status \in Paused /\ Permitted(t, "in_progress", None)

\* Not waiting for the user: comment and notification commit on their own.
ReplyCommit(s) ==
    LET t == session[s].ticket
    IN  /\ At(s, "reply")
        /\ ~Resumable(t)
        /\ outbox' = outbox \cup Enqueued(t, "user_replied", ticket[t].assignee,
                                          session[s].by, 0)
        /\ Goto(s, Idle)
        /\ UNCHANGED tables

\* Waiting: usp_Ticket_ChangeStatus is EXECuted inside the same transaction.  What
\* the transaction has written so far stays in the session until its COMMIT.
ReplyResume(s) ==
    LET t == session[s].ticket
    IN  /\ At(s, "reply")
        /\ Resumable(t)
        /\ Goto(s, [session[s] EXCEPT !.pc = "reply_apply", !.to = "in_progress",
                        !.from = ticket[t].status, !.tell = ticket[t].assignee])
        /\ UNCHANGED <<tables, outbox>>

ReplyApply(s) ==
    LET c == session[s]
    IN  /\ At(s, "reply_apply")
        /\ MoveTicket(c.ticket, c.from, c.to, None, c.by)
        /\ outbox' = outbox
                \cup Enqueued(c.ticket, "user_replied", c.tell, c.by, 0)
                \cup Enqueued(c.ticket, "status_changed", ticket[c.ticket].reporter,
                              c.by, NextSequenceNo(c.ticket))
        /\ Goto(s, Idle)

----------------------------------------------------------------------------
\* usp_Fingerprint_Triage.
Triage(s, f, state) ==
    /\ session[s] = Idle
    /\ fingerprint[f].count > 0
    /\ fingerprint' = [fingerprint EXCEPT ![f].triage = state]
    /\ UNCHANGED <<occurrence, ticket, links, history, outbox, session>>

\* The connection or the process dies between two statements; the engine rolls
\* back a transaction still open, and nobody resumes the procedure.
Crash(s) ==
    /\ Crashes /\ session[s] # Idle
    /\ Goto(s, Idle)
    /\ UNCHANGED <<tables, outbox>>

Step(s) ==
    \/ \E f \in Hash, o \in OccId, u \in Users \cup {System} :
            CaptureAttached(s, f, o, u) \/ CaptureUnattached(s, f, o, u)
    \/ \E f \in Hash : CaptureSampledOut(s, f)
    \/ RuleFires(s)
    \/ NoRuleFires(s)
    \/ \E o \in OccId, u \in Users \cup {System} : ReportIssue(s, o, u)
    \/ LinkToExisting(s)
    \/ \E t \in TicketId : InsertTicket(s, t)
    \/ \E t \in TicketId, u \in Users : CreateManual(s, t, u) \/ Reply(s, t, u)
    \/ NotifyCreated(s)
    \/ \E t \in TicketId, to \in Status, assign \in Agents \cup {None}, by \in Agents :
            ChangeStatus(s, t, to, assign, by)
    \/ ApplyStatus(s)
    \/ NotifyStatus(s)
    \/ \E t \in TicketId, agent \in Agents \cup {None}, by \in Agents :
            Assign(s, t, agent, by)
    \/ AssignCommit(s)
    \/ AdvanceBegin(s)
    \/ AdvanceSkip(s)
    \/ NotifyAssigned(s)
    \/ ReplyCommit(s)
    \/ ReplyResume(s)
    \/ ReplyApply(s)
    \/ \E f \in Hash, state \in TriageChoices : Triage(s, f, state)
    \/ Crash(s)

Next == \E s \in Sessions : Step(s)

Spec == Init /\ [][Next]_vars

----------------------------------------------------------------------------
(* Properties that hold whatever sessions interleave and wherever one dies. *)

(* Every row and every session state is of its declared type.              *)
TypeOK ==
    /\ fingerprint \in [Hash -> FingerprintRow]
    /\ occurrence \in [OccId -> OccurrenceRow \cup {None}]
    /\ ticket \in [TicketId -> TicketRow \cup {None}]
    /\ links \subseteq TicketId \X OccId
    /\ history \in [TicketId -> SUBSET HistoryRow]
    /\ outbox \subseteq OutboxRow
    /\ session \in [Sessions -> SessionState]

(* The OpenTicketID a capture attaches to without looking at the ticket is *)
(* always a ticket of that very problem which has not been closed or       *)
(* cancelled - also when several status changes were validated against a   *)
(* status that has moved on since.                                         *)
OpenTicketLive ==
    \A f \in Hash : LET t == fingerprint[f].open
                    IN  t # None => /\ ticket[t] # None
                                    /\ ticket[t].fp = f
                                    /\ ticket[t].status \notin Terminal

(* Deduplication never merges two unrelated problems: every occurrence     *)
(* linked to a ticket is an occurrence of the ticket's problem, and the    *)
(* ticket an occurrence names (ERM_TicketID) is one it is linked to.       *)
SameProblem ==
    /\ \A t \in TicketId, o \in OccId : <<t, o>> \in links =>
            /\ ticket[t] # None /\ occurrence[o] # None
            /\ ticket[t].fp = occurrence[o].fp
    /\ \A o \in OccId : occurrence[o] # None =>
            (occurrence[o].ticket # None => <<occurrence[o].ticket, o>> \in links)

(* The counters the procedures keep by increments are what a COUNT over    *)
(* the rows would give: LinkedOccurrenceCount and DistinctUserCount; and   *)
(* OccurrenceCount is never behind the rows (sampling keeps it ahead).     *)
CountersExact ==
    /\ \A t \in TicketId :
            ticket[t] # None => ticket[t].linked = Cardinality(LinkedTo(t))
    /\ \A f \in Hash : /\ fingerprint[f].users = Cardinality(UsersOf(f))
                       /\ fingerprint[f].count >= Cardinality(OccurrencesOf(f))

StatusRows(t) == {r \in history[t] : r.kind = "status"}

(* The audit trail of a ticket is numbered 1, 2, 3 ... without a gap.      *)
GaplessHistory ==
    \A t \in TicketId :
        /\ ticket[t] = None <=> history[t] = {}
        /\ Sequences(t) = 1 .. Cardinality(history[t])

(* The ticket is in the status its latest status row moved it to, and was  *)
(* reopened as often as its rows say, whatever assignments came between.   *)
HistoryTellsStatus ==
    \A t \in TicketId : ticket[t] # None =>
        /\ \E r \in StatusRows(t) :
              /\ r.to = ticket[t].status
              /\ \A q \in StatusRows(t) : q.seq <= r.seq
        /\ ticket[t].reopens = Cardinality({r \in StatusRows(t) : r.to = "reopened"})

----------------------------------------------------------------------------
(* Properties of a serial client: one session, each procedure run to its   *)
(* end (or to its death) before the next begins.                           *)

(* A ticket's status only moves along a row of the configured workflow.    *)
LegalMoves ==
    [][\A t \in TicketId :
          (ticket[t] # None /\ ticket'[t].status # ticket[t].status) =>
              <<ticket[t].status, ticket'[t].status>> \in Transitions]_vars

(* Each status row of the audit trail starts where the one before it ended, *)
(* and an assignment row shows the status the ticket had at that point.    *)
HistoryIsAChain ==
    \A t \in TicketId : \A r \in history[t] : r.seq > 1 =>
        \E q \in history[t] : q.seq = r.seq - 1 /\ q.to = r.from

(* ClosedUtc is set exactly in the terminal statuses, and ResolvedUtc in   *)
(* none but 'resolved' and what may follow it directly: the stamps the     *)
(* retention job and the SLA report read agree with the status.            *)
StampsMatchStatus ==
    \A t \in TicketId : ticket[t] # None =>
        /\ ticket[t].closed <=> ticket[t].status \in Terminal
        /\ ticket[t].status = "resolved" => ticket[t].resolved
        /\ ticket[t].resolved => ticket[t].status \in {"resolved", "closed"}

(* Every status row whose reporter is a real person other than the one who *)
(* wrote it has its notification in the outbox, or its session is about to *)
(* queue it.  usp_Notification_Enqueue is EXECuted after the COMMIT.       *)
EveryChangeQueued ==
    \A t \in TicketId : \A r \in StatusRows(t) :
        (ticket[t].reporter # System /\ (r.seq = 1 \/ r.by # ticket[t].reporter)) =>
            \/ \E n \in outbox : /\ n.ticket = t /\ n.seq = r.seq
                                 /\ n.to = ticket[t].reporter
            \/ \E s \in Sessions : /\ session[s].ticket = t /\ session[s].seq = r.seq
                                   /\ session[s].pc \in {"notify_created", "notify_status"}

----------------------------------------------------------------------------
(* The abstract specification.                                             *)

Serial == \A r, s \in Sessions : r = s

StatusOf(t) == IF ticket[t] = None THEN None ELSE ticket[t].status

\* The rows of a ticket's trail in the order of their numbers.
TrailOf(t) ==
    [n \in 1 .. Cardinality(history[t]) |->
        LET r == CHOOSE x \in {y \in history[t] : y.seq = n} : TRUE
        IN  [kind |-> r.kind, from |-> r.from, to |-> r.to]]

P == INSTANCE TicketPromise WITH status <- [t \in TicketId |-> StatusOf(t)],
                                 trail <- [t \in TicketId |-> TrailOf(t)],
                                 Alone <- Serial

(* Whatever sessions interleave and wherever one dies, tickets and their   *)
(* trails change as TicketPromise says: together, by one entry at the end, *)
(* along the workflow from a status the ticket had; from the one it has if *)
(* the client is serial.                                                   *)
KeepsPromise == P!Promise

----------------------------------------------------------------------------
(* What the schema's comments promise and the procedures do not keep.      *)

(* db/002: "... collapse to a single row here - and to at most one open    *)
(* ticket".                                                                *)
AtMostOneOpenTicket ==
    \A t, u \in TicketId :
        (/\ ticket[t] # None /\ ticket[u] # None /\ t # u
         /\ ticket[t].fp # None /\ ticket[t].fp = ticket[u].fp)
        => ticket[t].status \in Terminal \/ ticket[u].status \in Terminal

=============================================================================
