-------------------------- MODULE NotificationOutbox --------------------------
(***************************************************************************)
(* Delivery of ERM_NotificationOutbox. Two kinds of dispatcher take rows    *)
(* from it, and a site may run either, or both, as often as it likes:       *)
(*   the mailers   application processes, each repeating                   *)
(*                 NotificationDispatcher.RunOnceAsync over                *)
(*                 usp_Notification_ReleaseStale, _Claim and _MarkResult   *)
(*                 (db/013, NotificationDelivery.cs)                       *)
(*   the jobs      sessions that run usp_Notification_Dispatch, from SQL   *)
(*                 Agent or from an API's timer (db/012)                   *)
(*                                                                         *)
(* Time is counted in units of one delivery of a mailer: the time SendAsync *)
(* may take (SmtpNotificationOptions.TimeoutSeconds) and the report after   *)
(* it. A row ages while it is 'sending'. Nothing is known of how long an    *)
(* adapter takes.                                                          *)
(*                                                                         *)
(* exposed and overlaps are history: nothing reads them but the properties. *)
(***************************************************************************)
EXTENDS Naturals, FiniteSets

CONSTANTS
    Rows,          \* rows the ticket procedures may queue
    Mailers,       \* application processes that dispatch
    Jobs,          \* sessions that run usp_Notification_Dispatch
    None,
    BatchSize,     \* rows claimed by one pass of a mailer (50)
    JobBatch,      \* rows read by one run of a job (200)
    MaxAttempts,   \* reported failures after which a row is given up (5)
    StaleWindow,   \* age beyond which a 'sending' row is released (15 min = 45)
    MaxFaults      \* bound: crashes, lost answers and lost reports

ASSUME OutboxAssumption ==
    /\ IsFiniteSet(Rows) /\ None \notin Rows
    /\ IsFiniteSet(Mailers \cup Jobs) /\ Mailers \cap Jobs = {}
    /\ BatchSize \in Nat \ {0} /\ JobBatch \in Nat \ {0} /\ MaxAttempts \in Nat \ {0}
    /\ StaleWindow \in Nat /\ MaxFaults \in Nat

VARIABLES
    row,       \* [Rows -> DeliveryState, AttemptCount and the age of the claim]
    received,  \* [Rows -> how often the recipient got it]
    pass,      \* [dispatcher -> where its pass has got to]
    exposed,   \* history: held rows that a claim does not protect
    overlaps,  \* history: [Rows -> how often it was taken while another held it]
    faults     \* faults so far

vars == <<row, received, pass, exposed, overlaps, faults>>

Dispatchers == Mailers \cup Jobs

Row == [state : {"absent", "pending", "sending", "sent", "failed"},
        attempts : Nat, age : Nat]

Pass == [pc : {"idle", "claim", "send", "report"}, batch : SUBSET Rows,
         current : Rows \cup {None}, ok : BOOLEAN, busy : {0, 1}]

Idle == [pc |-> "idle", batch |-> {}, current |-> None, ok |-> FALSE, busy |-> 0]

\* The rows of S are still to be dealt with, r now.
Working(S, r) == [pc |-> "send", batch |-> S, current |-> r, ok |-> FALSE, busy |-> 0]

\* The rows a pass has still to deal with, the current one included.
Held(d) == pass[d].batch

HeldBeside(d) == UNION {Held(e) : e \in Dispatchers \ {d}}

Queued(r) == row[r].state \in {"pending", "sending"}

\* Mutation: whatever has not failed is up for delivery.
PendingUnlessFailed ==
    {r \in Rows : /\ row[r].state \in {"pending", "sent"}
                  /\ row[r].attempts < MaxAttempts}

Pending == {r \in Rows : row[r].state = "pending" /\ row[r].attempts < MaxAttempts}

\* What TOP (n) takes. The order in which rows were queued is not kept here, so
\* any n of the waiting rows may come first.
Batches(n) == {S \in SUBSET Pending :
                  \/ S = Pending /\ Cardinality(S) <= n
                  \/ Cardinality(S) = n}

\* Row r in state s, its attempts as they were, its claim's age reset.
As(r, s) == [state |-> s, attempts |-> row[r].attempts, age |-> 0]

Fault == faults < MaxFaults /\ faults' = faults + 1

Init ==
    /\ row = [r \in Rows |-> [state |-> "absent", attempts |-> 0, age |-> 0]]
    /\ received = [r \in Rows |-> 0]
    /\ pass = [d \in Dispatchers |-> Idle]
    /\ exposed = {} /\ overlaps = [r \in Rows |-> 0]
    /\ faults = 0

\* Mutation: a DeliveryState that nothing else knows.
EnqueueAsQueued(r) ==
    /\ row[r].state = "absent"
    /\ row' = [row EXCEPT ![r].state = "queued"]
    /\ UNCHANGED <<received, pass, exposed, overlaps, faults>>

\* usp_Notification_Enqueue.
Enqueue(r) ==
    /\ row[r].state = "absent"
    /\ row' = [row EXCEPT ![r].state = "pending"]
    /\ UNCHANGED <<received, pass, exposed, overlaps, faults>>

\* Mutation: a row is released on reaching the window, not beyond it.
ReleaseStaleEarly(d) ==
    /\ d \in Mailers /\ pass[d] = Idle
    /\ row' = [r \in Rows |->
            IF row[r].state = "sending" /\ row[r].age >= StaleWindow
            THEN As(r, "pending") ELSE row[r]]
    /\ pass' = [pass EXCEPT ![d].pc = "claim"]
    /\ UNCHANGED <<received, exposed, overlaps, faults>>

\* usp_Notification_ReleaseStale: the attempt is not counted.
ReleaseStale(d) ==
    /\ d \in Mailers /\ pass[d] = Idle
    /\ row' = [r \in Rows |->
            IF row[r].state = "sending" /\ row[r].age > StaleWindow
            THEN As(r, "pending") ELSE row[r]]
    /\ pass' = [pass EXCEPT ![d].pc = "claim"]
    /\ UNCHANGED <<received, exposed, overlaps, faults>>

Marked(S) == [r \in Rows |-> IF r \in S THEN As(r, "sending") ELSE row[r]]

\* d goes on with the rows of S, in any order; a row nobody holds any longer is
\* no longer exposed.
Continue(d, S) ==
    /\ IF S = {} THEN pass' = [pass EXCEPT ![d] = Idle]
                 ELSE \E r \in S : pass' = [pass EXCEPT ![d] = Working(S, r)]
    /\ exposed' = exposed \cap (S \cup HeldBeside(d))
    /\ UNCHANGED overlaps

\* d takes the rows of S. Those rows are exposed that a job takes, or that a
\* mailer claims with more than it can send within the window.
TakeUp(d, S) ==
    /\ IF S = {} THEN pass' = [pass EXCEPT ![d] = Idle]
                 ELSE \E r \in S : pass' = [pass EXCEPT ![d] = Working(S, r)]
    /\ exposed' = exposed \cup {r \in S : d \in Jobs \/ Cardinality(S) > StaleWindow}
    /\ overlaps' = [r \in Rows |-> IF r \in S \cap HeldBeside(d)
                                   THEN overlaps[r] + 1 ELSE overlaps[r]]

\* usp_Notification_Claim.
Claim(d) ==
    /\ pass[d].pc = "claim"
    /\ \E S \in Batches(BatchSize) : row' = Marked(S) /\ TakeUp(d, S)
    /\ UNCHANGED <<received, faults>>

\* The claim committed, its answer was lost: the pass ends in the outer catch.
ClaimLost(d) ==
    /\ pass[d].pc = "claim" /\ Fault
    /\ \E S \in Batches(BatchSize) : row' = Marked(S)
    /\ pass' = [pass EXCEPT ![d] = Idle]
    /\ UNCHANGED <<received, exposed, overlaps>>

\* usp_Notification_Dispatch reads its batch and marks nothing.
SelectPending(d) ==
    /\ d \in Jobs /\ pass[d] = Idle
    /\ \E S \in Batches(JobBatch) : S # {} /\ TakeUp(d, S)
    /\ UNCHANGED <<row, received, faults>>

Answered(d, ok) == pass' = [pass EXCEPT ![d].pc = "report", ![d].ok = ok]

\* SendAsync, or the adapter: delivered, or not for a reason it gives.
Send(d, ok) ==
    /\ pass[d].pc = "send"
    /\ received' = IF ok THEN [received EXCEPT ![pass[d].current] = @ + 1] ELSE received
    /\ Answered(d, ok)
    /\ UNCHANGED <<row, exposed, overlaps, faults>>

\* Delivered, but the sender's answer was lost: reported as a failure.
SendUnsure(d) ==
    /\ pass[d].pc = "send" /\ Fault
    /\ received' = [received EXCEPT ![pass[d].current] = @ + 1]
    /\ Answered(d, FALSE)
    /\ UNCHANGED <<row, exposed, overlaps>>

\* Mutation: whatever was attempted counts as sent.
MarkResultAlwaysSent(r, ok) ==
    row' = [row EXCEPT ![r] =
        [state |-> "sent", attempts |-> @.attempts + 1, age |-> 0]]

\* Mutation: one attempt more before a row is given up.
MarkResultOneMore(r, ok) ==
    row' = [row EXCEPT ![r] =
        [state |-> IF ok THEN "sent"
                   ELSE IF @.attempts + 1 > MaxAttempts THEN "failed" ELSE "pending",
         attempts |-> @.attempts + 1, age |-> 0]]

\* usp_Notification_MarkResult and the UPDATE of usp_Notification_Dispatch: by
\* the row's identity alone, whatever its state and whoever holds it by now.
MarkResult(r, ok) ==
    row' = [row EXCEPT ![r] =
        [state |-> IF ok THEN "sent"
                   ELSE IF @.attempts + 1 >= MaxAttempts THEN "failed" ELSE "pending",
         attempts |-> @.attempts + 1, age |-> 0]]

Report(d) ==
    /\ pass[d].pc = "report"
    /\ MarkResult(pass[d].current, pass[d].ok)
    /\ Continue(d, Held(d) \ {pass[d].current})
    /\ UNCHANGED <<received, faults>>

\* The report throws (before or after it took effect): the outer catch abandons
\* the rest of the batch.
ReportThrows(d) ==
    /\ pass[d].pc = "report" /\ Fault
    /\ MarkResult(pass[d].current, pass[d].ok) \/ UNCHANGED row
    /\ Continue(d, {})
    /\ UNCHANGED received

\* The process is killed, or recycled, in mid-pass.
Crash(d) ==
    /\ pass[d] # Idle /\ Fault
    /\ Continue(d, {})
    /\ UNCHANGED <<row, received>>

\* One delivery of a mailer takes at most one unit. Ages past the window are
\* all alike.
Tick ==
    /\ \A d \in Mailers : pass[d].busy = 0
    /\ row' = [r \in Rows |->
            IF row[r].state = "sending" /\ row[r].age <= StaleWindow
            THEN [row[r] EXCEPT !.age = @ + 1] ELSE row[r]]
    /\ pass' = [d \in Dispatchers |->
            IF d \in Mailers /\ pass[d].pc \in {"send", "report"}
            THEN [pass[d] EXCEPT !.busy = 1] ELSE pass[d]]
    /\ UNCHANGED <<received, exposed, overlaps, faults>>

PassStep(d) ==
    \/ ReleaseStale(d) \/ Claim(d) \/ SelectPending(d)
    \/ \E ok \in BOOLEAN : Send(d, ok)
    \/ Report(d)

PassFault(d) == ClaimLost(d) \/ SendUnsure(d) \/ ReportThrows(d) \/ Crash(d)

Next ==
    \/ \E r \in Rows : Enqueue(r)
    \/ \E d \in Dispatchers : PassStep(d) \/ PassFault(d)
    \/ Tick

Spec == Init /\ [][Next]_vars

\* The schedule starts pass after pass, every statement and every send of a pass
\* comes to an end, and time passes.
FairSpec == Spec /\ WF_vars(Tick) /\ \A d \in Dispatchers : WF_vars(PassStep(d))

----------------------------------------------------------------------------
(* Properties.                                                             *)

(* TypeOK: every variable stays in its domain.                             *)
TypeOK ==
    /\ row \in [Rows -> Row]
    /\ received \in [Rows -> Nat]
    /\ pass \in [Dispatchers -> Pass]
    /\ exposed \subseteq Rows
    /\ overlaps \in [Rows -> Nat]
    /\ faults \in Nat

(* A claim protects a row: two dispatchers hold the same row only if a job  *)
(* took it, which marks nothing, or a mailer claimed it with more rows than *)
(* it can send within the stale window. Dispatchers that died included,     *)
(* whose rows come back only through the stale sweep.                      *)
OneHolder ==
    \A d, e \in Dispatchers : d # e => Held(d) \cap Held(e) \subseteq exposed

(* What the outbox says about delivery is true: a row marked sent reached   *)
(* its recipient, a row given up was attempted MaxAttempts times at least,  *)
(* and it is attempted more often only as often as it was taken up while    *)
(* another dispatcher held it.                                              *)
OutboxTruthful ==
    \A r \in Rows : /\ row[r].state = "sent" => received[r] > 0
                    /\ row[r].state = "failed" => row[r].attempts >= MaxAttempts
                    /\ row[r].attempts <= MaxAttempts + overlaps[r]

(* Each fault, and each time a row is taken up while another dispatcher     *)
(* holds it, costs the recipient at most one copy more: with neither,       *)
(* nobody is notified twice.                                                *)
DuplicatesBounded == \A r \in Rows : received[r] <= 1 + faults + overlaps[r]

(* The outbox keeps its promise (NotificationPromise), whichever dispatcher *)
(* runs and whatever fails: strictly for every row that is not exposed.     *)
StatusOf(r) == IF Queued(r) THEN "queued" ELSE row[r].state

P == INSTANCE NotificationPromise WITH status <- [r \in Rows |-> StatusOf(r)],
                                       shared <- exposed

KeepsPromise == P!Promise

(* Every notification is eventually sent or given up, also when the         *)
(* dispatcher that had claimed it died: the stale sweep brings it back.     *)
EventuallySettled == P!Decided

=============================================================================
