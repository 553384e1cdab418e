---------------------------- MODULE ErrorTransport ----------------------------
(* The way of an error from the browser to the capture endpoint:            *)
(* ErpErrorReporterService.report, the queue of ErpErrorTransportService    *)
(* with its batches, retries, unload beacon and localStorage copy, and      *)
(* ErrorManagementController.CaptureErrors / CaptureBeacon as it sees them. *)
(*                                                                          *)
(* JavaScript runs one callback at a time, so an action is one callback up  *)
(* to its await: a report, a timer, an answer, an unload event.  Several    *)
(* tabs of the ERP share one localStorage key.  An error is its number in   *)
(* the order in which the errors were raised.                               *)
EXTENDS Integers, Sequences, SequencesExt, FiniteSetsExt

CONSTANTS
    Tabs,           \* browser tabs of one user
    None,
    MaxQueue,       \* maxQueueSize, 200 by default
    BatchSize,      \* batchSize, 10 by default
    MaxStored,      \* what persistQueue keeps, 50
    ServerTake,     \* what the endpoint accepts of one request, 50
    MaxRaised,      \* bound: errors raised
    MaxMishaps,     \* bound: mishaps in all
    MaxUnstored     \* bound: writes to localStorage that fail

\* A page is "overtaken" when it is hidden with a request out.
Mishap == {"unanswered", "refused", "lost", "hidden", "overtaken", "closed", "crashed", "shared"}

ASSUME SizesAssumption ==
    /\ MaxQueue \in Nat \ {0} /\ BatchSize \in Nat \ {0}
    /\ MaxStored \in Nat \ {0} /\ ServerTake \in Nat \ {0}
ASSUME BoundsAssumption == MaxRaised \in Nat /\ MaxMishaps \in Nat /\ MaxUnstored \in Nat
ASSUME NoneAssumption == None \notin Nat \cup Seq(Nat \cup {None})
ASSUME TabsAssumption == IsFiniteSet(Tabs)

VARIABLES
    tab,        \* tab -> its page: queue, request, timer, the awaited report
    stored,     \* the queue under the localStorage key
    wire,       \* requests no page waits for: beacons, abandoned posts
    raised,     \* number of errors raised
    accepted,   \* the errors that entered a queue
    recorded,   \* error -> number of occurrences the server recorded of it
    told,       \* <<error, reference>> as given to the caller of report
    mishaps,    \* mishap -> how often it happened
    unstored    \* how often the queue could not be stored

vars == <<tab, stored, wire, raised, accepted, recorded, told, mishaps, unstored>>
server == <<raised, accepted, recorded, told>>
storage == <<stored, unstored>>

Error == 1 .. MaxRaised

Page == [up : BOOLEAN,
         queue : Seq(Error),
         batch : Seq(Error),                    \* <<>> iff not sending
         reply : Seq(Error \cup {None}) \cup {None},
         timer : BOOLEAN,                       \* flushTimer is set
         waiting : Error \cup {None}]           \* reporting, and for which error

NoPage == [up |-> FALSE, queue |-> <<>>, batch |-> <<>>, reply |-> None,
           timer |-> FALSE, waiting |-> None]

Elements(q) == {q[i] : i \in DOMAIN q}
Smaller(m, n) == IF m <= n THEN m ELSE n
First(n, q) == SubSeq(q, 1, Smaller(n, Len(q)))

\* Mutation: the cap on what goes to localStorage is forgotten.
PersistedWhole(q) == q

\* queue.slice(-50).
Persisted(q) ==
    SubSeq(q, IF Len(q) <= MaxStored THEN 1 ELSE Len(q) - MaxStored + 1, Len(q))

\* persistQueue: a write that fails (the quota, a private window) leaves what was
\* stored before.  With persistQueue off no write gets through.
Stores(q) ==
    \/ stored' = Persisted(q) /\ UNCHANGED unstored
    \/ unstored < MaxUnstored /\ unstored' = unstored + 1 /\ UNCHANGED stored

Happens(kind) ==
    /\ MapThenSumSet(LAMBDA k : mishaps[k], Mishap) < MaxMishaps
    /\ mishaps' = [mishaps EXCEPT ![kind] = @ + 1]

\* The page of tab t afterwards.
Becomes(t, page) == tab' = [tab EXCEPT ![t] = page]

Init ==
    /\ tab = [t \in Tabs |-> NoPage]
    /\ stored = <<>> /\ wire = <<>>
    /\ raised = 0 /\ accepted = {}
    /\ recorded = [e \in Error |-> 0]
    /\ told = {}
    /\ mishaps = [k \in Mishap |-> 0] /\ unstored = 0

-----------------------------------------------------------------------------
(* ErpErrorReporterService.report and enqueue.                             *)

\* The oldest goes when the queue is full.
Enqueued(q, e) == Append(IF Len(q) >= MaxQueue THEN Tail(q) ELSE q, e)

\* Mutation: the flag is reset when enqueue returns, not when its promise settles.
ReportUnguarded(t) ==
    LET e == raised + 1
        q == Enqueued(tab[t].queue, e)
    IN  /\ tab[t].up
        /\ raised < MaxRaised
        /\ raised' = e /\ accepted' = accepted \cup {e}
        /\ Becomes(t, [tab[t] EXCEPT !.queue = q, !.waiting = e, !.timer = TRUE])
        /\ Stores(q)
        /\ UNCHANGED <<wire, recorded, told, mishaps>>

Report(t) ==
    LET e == raised + 1
        q == Enqueued(tab[t].queue, e)
    IN  /\ tab[t].up /\ tab[t].waiting = None
        /\ raised < MaxRaised
        /\ raised' = e /\ accepted' = accepted \cup {e}
        /\ Becomes(t, [tab[t] EXCEPT !.queue = q, !.waiting = e, !.timer = TRUE])
        /\ Stores(q)
        /\ UNCHANGED <<wire, recorded, told, mishaps>>

\* The re-entrancy flag stays set across the await.
ReportIgnored(t) ==
    /\ tab[t].up /\ tab[t].waiting # None
    /\ raised < MaxRaised
    /\ raised' = raised + 1
    /\ UNCHANGED <<tab, storage, wire, accepted, recorded, told, mishaps>>

-----------------------------------------------------------------------------
(* flush: the timer, the request, and the two ways it ends.                *)

\* A timer that fires while a request is out, or on an empty queue, is spent.
TimerFires(t) ==
    /\ tab[t].up /\ tab[t].timer
    /\ Becomes(t, [tab[t] EXCEPT !.timer = FALSE,
                      !.batch = IF @ # <<>> THEN @ ELSE First(BatchSize, tab[t].queue)])
    /\ UNCHANGED <<storage, wire, server, mishaps>>

\* What the endpoint does with a request of which it takes InFull entries, the
\* throttle lets n through, and it manages to record those at places ok. Slots
\* are filled in order, all of them when the throttle lets nothing through.
InFull(body) == Smaller(Len(body), ServerTake)
RecordedOf(body, n, ok) == {body[i] : i \in ok \cap 1 .. n}
Results(body, n, ok) ==
    [i \in 1 .. (IF n = 0 THEN InFull(body) ELSE n) |->
        IF i \in ok \cap 1 .. n THEN body[i] ELSE None]

Record(body, n, ok) ==
    /\ recorded' = [e \in Error |-> recorded[e] + (IF e \in RecordedOf(body, n, ok) THEN 1 ELSE 0)]
    /\ UNCHANGED <<raised, accepted, told>>

\* Short of the service at its best: a throttled or failed capture.
Grudging(body, n, ok) ==
    /\ n \in 0 .. InFull(body) /\ ok \subseteq 1 .. n
    /\ ok # 1 .. InFull(body)

Asked(t) == tab[t].batch # <<>> /\ tab[t].reply = None

Serve(t) ==
    LET body == tab[t].batch
        n == InFull(body)
    IN  /\ Asked(t)
        /\ Record(body, n, 1 .. n)
        /\ Becomes(t, [tab[t] EXCEPT !.reply = Results(body, n, 1 .. n)])
        /\ UNCHANGED <<storage, wire, mishaps>>

ServeInPart(t) ==
    LET body == tab[t].batch
    IN  /\ Asked(t)
        /\ \E n \in 0 .. InFull(body) : \E ok \in SUBSET (1 .. n) :
              /\ Grudging(body, n, ok)
              /\ Record(body, n, ok)
              /\ Becomes(t, [tab[t] EXCEPT !.reply = Results(body, n, ok)])
        /\ Happens("refused")
        /\ UNCHANGED <<storage, wire>>

\* Mutation: the first result goes to whoever waits.
ResultForFirst(e, body, results) == {results[1]} \ {None}

\* What the awaited report returns, its result being looked up by position.
ResultFor(e, body, results) ==
    {results[i] : i \in {j \in DOMAIN body \cap DOMAIN results : body[j] = e}} \ {None}

\* Mutation: only a result releases the caller.
ReleasedByResult(page) ==
    IF page.reply # None /\ ResultFor(page.waiting, page.batch, page.reply) # {}
    THEN None ELSE page.waiting

\* settle, for each entry of the batch.
Released(page) == IF page.waiting \in Elements(page.batch) THEN None ELSE page.waiting

\* Mutations: one entry too few, or a whole batch's worth, is taken off.
BehindByOne(page) == SubSeq(page.queue, Len(page.batch), Len(page.queue))
BehindBatchSize(page) == SubSeq(page.queue, BatchSize + 1, Len(page.queue))

\* The part of the queue behind the batch: splice(0, batch.length).
Behind(page) == SubSeq(page.queue, Len(page.batch) + 1, Len(page.queue))

\* Mutation: what was queued during the request is left to its own timer.
AnswerWithoutTimer(t) ==
    LET page == tab[t]
        rest == Behind(page)
    IN  /\ page.batch # <<>> /\ page.reply # None
        /\ Becomes(t, [page EXCEPT !.queue = rest, !.batch = <<>>, !.reply = None,
                                   !.waiting = Released(page)])
        /\ Stores(rest)
        /\ told' = told \cup ({page.waiting} \X
                       ResultFor(page.waiting, page.batch, page.reply))
        /\ UNCHANGED <<wire, raised, accepted, recorded, mishaps>>

Answer(t) ==
    LET page == tab[t]
        rest == Behind(page)
    IN  /\ page.batch # <<>> /\ page.reply # None
        /\ Becomes(t, [page EXCEPT !.queue = rest, !.batch = <<>>, !.reply = None,
                                   !.timer = @ \/ rest # <<>>, !.waiting = Released(page)])
        /\ Stores(rest)
        /\ told' = told \cup ({page.waiting} \X
                       ResultFor(page.waiting, page.batch, page.reply))
        /\ UNCHANGED <<wire, raised, accepted, recorded, mishaps>>

\* A request the page stops waiting for may still reach the server.
Abandoned(page, w) ==
    IF page.batch # <<>> /\ page.reply = None THEN {w, Append(w, page.batch)} ELSE {w}

\* Mutation: a failed batch is kept but not scheduled again.
NoAnswerGivesUp(t) ==
    LET page == tab[t]
    IN  /\ page.batch # <<>>
        /\ Becomes(t, [page EXCEPT !.batch = <<>>, !.reply = None,
                                   !.waiting = Released(page)])
        /\ wire' \in Abandoned(page, wire)
        /\ Happens("unanswered")
        /\ UNCHANGED <<storage, server>>

\* No connection, an error status, a 204, or 20 seconds without an answer.
NoAnswer(t) ==
    LET page == tab[t]
    IN  /\ page.batch # <<>>
        /\ Becomes(t, [page EXCEPT !.batch = <<>>, !.reply = None,
                                   !.timer = TRUE, !.waiting = Released(page)])
        /\ wire' \in Abandoned(page, wire)
        /\ Happens("unanswered")
        /\ UNCHANGED <<storage, server>>

-----------------------------------------------------------------------------
(* The page's life: restoreQueue, the unload beacon, the end of the page.  *)

\* Restored entries have no caller that waits for them.  A second tab takes
\* over what another one stored for itself.
Load(t) ==
    LET q == First(MaxQueue, stored)
    IN  /\ ~tab[t].up
        /\ Becomes(t, [NoPage EXCEPT !.up = TRUE, !.queue = q, !.timer = (q # <<>>)])
        /\ stored' = <<>> /\ UNCHANGED unstored
        /\ IF q # <<>> /\ \E u \in Tabs : tab[u].up THEN Happens("shared") ELSE UNCHANGED mishaps
        /\ UNCHANGED <<wire, server>>

\* sendBeacon takes the whole queue, or refuses and the queue is stored.
BeaconTaken(t) == tab[t].queue # <<>> /\ Stores(<<>>)
BeaconRefused(t) == IF tab[t].queue = <<>> THEN UNCHANGED storage ELSE Stores(tab[t].queue)

\* visibilitychange, or a page that goes into the back-forward cache.
Hide(t) ==
    /\ tab[t].up /\ tab[t].queue # <<>>
    /\ Happens(IF tab[t].batch = <<>> THEN "hidden" ELSE "overtaken")
    /\ \/ /\ BeaconTaken(t)
          /\ Becomes(t, [tab[t] EXCEPT !.queue = <<>>])
          /\ wire' = Append(wire, tab[t].queue)
       \/ /\ BeaconRefused(t)
          /\ UNCHANGED <<tab, wire>>
    /\ UNCHANGED server

Close(t) ==
    /\ tab[t].up
    /\ Happens("closed")
    /\ Becomes(t, NoPage)
    /\ \/ /\ BeaconTaken(t)
          /\ wire' \in Abandoned(tab[t], Append(wire, tab[t].queue))
       \/ /\ BeaconRefused(t)
          /\ wire' \in Abandoned(tab[t], wire)
    /\ UNCHANGED server

\* The tab dies without an unload event.
Crash(t) ==
    /\ tab[t].up
    /\ Happens("crashed")
    /\ Becomes(t, NoPage)
    /\ wire' \in Abandoned(tab[t], wire)
    /\ UNCHANGED <<storage, server>>

-----------------------------------------------------------------------------
(* CaptureBeacon, and posts whose page has gone.                           *)

ServeWire ==
    \E i \in DOMAIN wire :
        /\ Record(wire[i], InFull(wire[i]), 1 .. InFull(wire[i]))
        /\ wire' = RemoveAt(wire, i)
        /\ UNCHANGED <<tab, storage, mishaps>>

\* It gets lost, or part of it is throttled or not captured.
LoseWire ==
    \E i \in DOMAIN wire : \E ok \in SUBSET (1 .. InFull(wire[i])) :
        /\ Grudging(wire[i], InFull(wire[i]), ok)
        /\ Record(wire[i], InFull(wire[i]), ok)
        /\ wire' = RemoveAt(wire, i)
        /\ Happens("lost")
        /\ UNCHANGED <<tab, storage>>

-----------------------------------------------------------------------------

Next ==
    \/ \E t \in Tabs : \/ Report(t) \/ ReportIgnored(t)
                       \/ TimerFires(t) \/ Serve(t) \/ ServeInPart(t)
                       \/ Answer(t) \/ NoAnswer(t)
                       \/ Load(t) \/ Hide(t) \/ Close(t) \/ Crash(t)
    \/ ServeWire \/ LoseWire

Spec == Init /\ [][Next]_vars

\* Timers fire, the server answers what reaches it, and the user comes back.
FairSpec ==
    /\ Spec
    /\ \A t \in Tabs : WF_vars(TimerFires(t)) /\ WF_vars(Serve(t))
                       /\ WF_vars(Answer(t)) /\ WF_vars(Load(t))
    /\ WF_vars(ServeWire)

-----------------------------------------------------------------------------
(* Properties.                                                             *)

(* TypeOK: every variable stays in its domain.                             *)
TypeOK ==
    /\ tab \in [Tabs -> Page]
    /\ stored \in Seq(Error) /\ Len(stored) <= MaxStored
    /\ wire \in Seq(Seq(Error))
    /\ raised \in 0 .. MaxRaised /\ accepted \subseteq 1 .. raised
    /\ recorded \in [Error -> Nat]
    /\ told \subseteq Error \X Error
    /\ mishaps \in [Mishap -> Nat] /\ unstored \in Nat

Larger(m, n) == IF m >= n THEN m ELSE n

(* BacklogBounded: the reporter waits for one report at a time and a       *)
(* report only returns once its entry was in a batch, so however long the  *)
(* server is down the queue holds at most one entry more than a restored   *)
(* queue or a batch.  With the default sizes enqueue never has to drop the *)
(* oldest entry.                                                           *)
BacklogBounded ==
    \A t \in Tabs : Len(tab[t].queue) <= Larger(MaxStored, BatchSize) + 1

(* NeverStalls: a queue that is not empty has a timer set or a request out *)
(* that will set one, though a timer that fires during a request is spent  *)
(* and a beacon or an answer may change the queue in between.              *)
NeverStalls ==
    \A t \in Tabs : tab[t].queue # <<>> => tab[t].timer \/ tab[t].batch # <<>>

(* OwnReference: the reference number a report returns is that of its own  *)
(* error, whatever was recorded of the batch, and the server has it.       *)
OwnReference ==
    \A e, ref \in Error : <<e, ref>> \in told => ref = e /\ recorded[e] > 0

(* CopiesBounded: an error is recorded once, and once more at most for     *)
(* each answer that got lost, page that was hidden with a request out or   *)
(* died, second tab that took over the stored queue, and write that failed *)
(* and left an older copy of the queue to be restored.                     *)
CopiesBounded ==
    \A e \in Error :
        recorded[e] <= 1 + mishaps["unanswered"] + mishaps["overtaken"] + mishaps["closed"]
                         + mishaps["crashed"] + mishaps["shared"] + unstored

Kept(e) ==
    \/ recorded[e] > 0
    \/ e \in Elements(stored)
    \/ \E t \in Tabs : e \in Elements(tab[t].queue)
    \/ \E i \in DOMAIN wire : e \in Elements(wire[i])

\* Nothing happened that may cost an entry: neither a refusal of the server,
\* a beacon that got lost, a page hidden during a request, nor a page that
\* died, unless it was the only tab, had not been restored before and had every
\* write to localStorage go through; and the errors are no more than a queue,
\* the stored copy and a request hold.
Harmless ==
    LET died == mishaps["closed"] + mishaps["crashed"]
    IN  /\ \A k \in {"refused", "lost", "overtaken"} : mishaps[k] = 0
        /\ \/ died = 0
           \/ /\ Cardinality(Tabs) = 1 /\ unstored = 0
              /\ mishaps["crashed"] = 0 \/ died = 1
        /\ Cardinality(accepted) <= Smaller(MaxQueue, Smaller(MaxStored, ServerTake))

(* NothingLost: short of that an accepted error is recorded, queued, on    *)
(* its way or stored: through an unreachable server, late answers, pages   *)
(* hidden between requests, and, if the storage took every write, the one  *)
(* crash of a tab that localStorage is there for.                          *)
NothingLost == Harmless => \A e \in accepted : Kept(e)

(* EventuallyRecorded: and it is recorded in the end.  The storage may     *)
(* fail as it likes while no page dies: the queue is kept in memory.       *)
EventuallyRecorded ==
    \A e \in Error : e \in accepted ~> (recorded[e] > 0 \/ ~Harmless)

(* ReportsReturn: while no page is hidden every report returns, also when  *)
(* the server is unreachable for a time.                                   *)
ReportsReturn ==
    \A t \in Tabs : tab[t].waiting # None ~>
                        (tab[t].waiting = None \/ mishaps["hidden"] + mishaps["overtaken"] > 0)

(* EveryReportReturns: the promise of enqueue resolves with the capture    *)
(* result, or with null when the envelope was buffered, dropped or not     *)
(* sent: every report returns.                                             *)
EveryReportReturns == \A t \in Tabs : tab[t].waiting # None ~> tab[t].waiting = None

=============================================================================
