----------------------------- MODULE ErrorDialog -----------------------------
(* What the user of the ERP sees of a failure: the hooks that catch it (the *)
(* HTTP interceptors, ErpGlobalErrorHandler, the window listeners, the      *)
(* helpers for handled failures), ErpErrorReporterService.report with its   *)
(* re-entrancy flag, ErpErrorNotificationService, the dialog, and the       *)
(* ticket it raises.  ErrorTransport is what happens to a report on its     *)
(* way; here it comes back with a result or with null.                      *)
(*                                                                          *)
(* JavaScript runs one callback at a time and a promise's continuation      *)
(* before the next event, so an action is an event with its continuations.  *)
EXTENDS Integers, Sequences, FiniteSets

CONSTANTS
    Problems,       \* the fingerprints the server tells apart
    Ignored,        \* those shouldIgnore or the host's beforeSend discards
    None,
    Silent,         \* notificationMode = 'silent'
    Window,         \* duplicateDialogSuppressionMs, 20 s
    KeepFor,        \* age at which pruning forgets an entry, 4 windows
    MapLimit,       \* entries from which on the map is pruned, 200
    MaxFailures,    \* bound: failures of the application
    MaxTime         \* bound: time

ASSUME ProblemsAssumption == Ignored \subseteq Problems
ASSUME NoneAssumption == None \notin Problems /\ None \notin Nat
ASSUME TimesAssumption ==
    /\ Window \in Nat /\ KeepFor \in Nat /\ MapLimit \in Nat
    /\ Window <= KeepFor
ASSUME DialogBounds == MaxFailures \in Nat /\ MaxTime \in Nat
ASSUME SilentAssumption == Silent \in BOOLEAN

Failure == 1 .. MaxFailures
Hook == {"interceptor", "handler", "window", "helper"}

VARIABLES
    now,            \* the clock
    failure,        \* the problems of the failures, numbered as they happen
    due,            \* <<f, hook>>: uncaught failures on their way to a hook
    report,         \* the report in flight, while `reporting` is set
    muted,          \* failures the server said not to notify of
    dialog,         \* `current`
    opened,         \* dialogs opened so far
    lastShown,      \* lastShownByFingerprint
    lastOpened,     \* history: when a dialog with a reference was opened for a problem
    ticketCalls     \* createTicket calls in flight

vars == <<now, failure, due, report, muted, dialog, opened, lastShown, lastOpened, ticketCalls>>
screen == <<dialog, opened, lastShown, lastOpened>>

Report == [of : Failure, hook : Hook]
Dialog == [n : Nat, of : Failure,
           reference : BOOLEAN,         \* result.errorReference is there
           state : {"prompt", "submitting", "submitted", "failed"},
           ticket : Problems \cup {None}]
Call == [n : Nat, of : Failure]

Init ==
    /\ now = 0 /\ failure = << >> /\ due = {}
    /\ report = None
    /\ muted = {}
    /\ dialog = None /\ opened = 0
    /\ lastShown = [p \in Problems |-> None]
    /\ lastOpened = [p \in Problems |-> None]
    /\ ticketCalls = {}

-----------------------------------------------------------------------------
(* ErpErrorNotificationService: show, attach, prune, dismiss.              *)

Suppressed(p) == lastShown[p] # None /\ now - lastShown[p] < Window

\* Mutation: everything but the newest entry is forgotten.
PrunedToNow(seen) ==
    IF Cardinality({p \in Problems : seen[p] # None}) < MapLimit THEN seen
    ELSE [p \in Problems |-> IF seen[p] # None /\ seen[p] < now THEN None ELSE seen[p]]

Pruned(seen) ==
    IF Cardinality({p \in Problems : seen[p] # None}) < MapLimit THEN seen
    ELSE [p \in Problems |-> IF seen[p] # None /\ seen[p] < now - KeepFor THEN None ELSE seen[p]]

Attach(f, reference) ==
    /\ dialog' = [n |-> opened + 1, of |-> f, reference |-> reference,
                  state |-> "prompt", ticket |-> None]
    /\ opened' = opened + 1

\* A result without a fingerprint is neither suppressed nor remembered.
ShowPlain(f) ==
    IF Silent \/ dialog # None THEN UNCHANGED screen
    ELSE Attach(f, FALSE) /\ UNCHANGED <<lastShown, lastOpened>>

ShowResult(f, p) ==
    IF Silent \/ dialog # None \/ Suppressed(p) THEN UNCHANGED screen
    ELSE /\ lastShown' = Pruned([lastShown EXCEPT ![p] = now])
         /\ lastOpened' = [lastOpened EXCEPT ![p] = now]
         /\ Attach(f, TRUE)

\* Dismiss and Close between them serve every state, the backdrop all but one;
\* dismiss() destroys the component whatever it waits for.
Dismiss ==
    /\ dialog # None
    /\ dialog' = None
    /\ UNCHANGED <<now, failure, due, report, muted,
                   opened, lastShown, lastOpened, ticketCalls>>

-----------------------------------------------------------------------------
(* ErpErrorReporterService.report and the hooks that call it.              *)

\* null at once: a report is under way, or there is no envelope.
Declined(p) == report # None \/ p \in Ignored

\* report from a hook that does nothing with what it returns before the answer.
ReportFrom(hook, f, p) ==
    report' = IF Declined(p) THEN report ELSE [of |-> f, hook |-> hook]

\* Where an error nobody catches surfaces: the ErrorHandler, a window listener
\* if it happened outside the zone, or both if it is a promise's rejection.
Surfaces(f) == {{<<f, "handler">>}, {<<f, "window">>}, {<<f, "handler">>, <<f, "window">>}}

\* The interceptor reports unless the error is to be ignored, and rethrows: the
\* page's subscription handles the error or leaves it to the hooks above.
RequestFails(p) ==
    LET f == Len(failure) + 1
    IN  /\ f \in Failure /\ failure' = Append(failure, p)
        /\ ReportFrom("interceptor", f, p)
        /\ due' \in {due \cup s : s \in {{}} \cup Surfaces(f)}
        /\ UNCHANGED <<now, muted, screen, ticketCalls>>

\* A component, a promise or a third-party script throws.
Throw(p) ==
    LET f == Len(failure) + 1
    IN  /\ f \in Failure /\ failure' = Append(failure, p)
        /\ due' \in {due \cup s : s \in Surfaces(f)}
        /\ UNCHANGED <<now, report, muted, screen, ticketCalls>>

\* erpReportIf, erpReportIfEmpty, erpReportHandled, erpReportFailedResult,
\* erpReportBusinessRule, erpCatchAndRecover, erpObserveAsync (whose callers
\* handle what it rethrows) and the form service: the page has dealt with it.
HandledFailure(p) ==
    LET f == Len(failure) + 1
    IN  /\ f \in Failure /\ failure' = Append(failure, p)
        /\ ReportFrom("helper", f, p)
        /\ UNCHANGED <<now, due, muted, screen, ticketCalls>>

\* Mutation: null is taken for "nothing to show".
HandleErrorQuietly(f) ==
    /\ <<f, "handler">> \in due
    /\ due' = due \ {<<f, "handler">>}
    /\ ReportFrom("handler", f, failure[f])
    /\ UNCHANGED <<now, failure, muted, screen, ticketCalls>>

\* ErpGlobalErrorHandler.handleError: null means a dialog without a reference.
HandleError(f) ==
    /\ <<f, "handler">> \in due
    /\ due' = due \ {<<f, "handler">>}
    /\ IF Declined(failure[f])
       THEN ShowPlain(f) /\ UNCHANGED report
       ELSE report' = [of |-> f, hook |-> "handler"] /\ UNCHANGED screen
    /\ UNCHANGED <<now, failure, muted, ticketCalls>>

\* The 'error' and 'unhandledrejection' listeners report and show nothing.
WindowEvent(f) ==
    /\ <<f, "window">> \in due
    /\ due' = due \ {<<f, "window">>}
    /\ ReportFrom("window", f, failure[f])
    /\ UNCHANGED <<now, failure, muted, screen, ticketCalls>>

-----------------------------------------------------------------------------
(* The report comes back, and the hook's continuation runs.                *)

\* The endpoint did not answer, or not for this envelope.
ReportUnanswered ==
    /\ report # None /\ report' = None
    /\ IF report.hook = "handler" THEN ShowPlain(report.of) ELSE UNCHANGED screen
    /\ UNCHANGED <<now, failure, due, muted, ticketCalls>>

ReportAnswered ==
    /\ report # None /\ report' = None
    /\ IF report.hook \in {"interceptor", "handler"}
       THEN ShowResult(report.of, failure[report.of]) ELSE UNCHANGED screen
    /\ UNCHANGED <<now, failure, due, muted, ticketCalls>>

\* shouldNotifyUser is false: the problem is muted or the occurrence sampled out.
ReportMuted ==
    /\ report # None /\ report' = None
    /\ muted' = muted \cup {report.of}
    /\ UNCHANGED <<now, failure, due, screen, ticketCalls>>

-----------------------------------------------------------------------------
(* The dialog's ticket.                                                    *)

\* "Report issue" is offered with a reference and while nothing was submitted.
Offered == dialog # None /\ dialog.reference /\ dialog.state = "prompt"

Submit ==
    /\ Offered
    /\ dialog' = [dialog EXCEPT !.state = "submitting"]
    /\ ticketCalls' = ticketCalls \cup {[n |-> dialog.n, of |-> dialog.of]}
    /\ UNCHANGED <<now, failure, due, report, muted,
                   opened, lastShown, lastOpened>>

\* Mutation: the answer goes to the dialog that is open now.
GivenToCurrent(n, ticket) ==
    IF dialog = None THEN dialog
    ELSE [dialog EXCEPT !.ticket = ticket,
                        !.state = IF ticket # None THEN "submitted" ELSE "failed"]

\* setTicketResult on the dialog that asked, which may be gone.
Given(n, ticket) ==
    IF dialog = None \/ dialog.n # n THEN dialog
    ELSE [dialog EXCEPT !.ticket = ticket,
                        !.state = IF ticket # None THEN "submitted" ELSE "failed"]

TicketAnswered(c) ==
    /\ c \in ticketCalls
    /\ ticketCalls' = ticketCalls \ {c}
    /\ dialog' = Given(c.n, failure[c.of])
    /\ UNCHANGED <<now, failure, due, report, muted,
                   opened, lastShown, lastOpened>>

\* An error or 15 seconds without an answer become null; the server may have
\* made the ticket all the same.
TicketUnanswered(c) ==
    /\ c \in ticketCalls
    /\ ticketCalls' = ticketCalls \ {c}
    /\ dialog' = Given(c.n, None)
    /\ UNCHANGED <<now, failure, due, report, muted,
                   opened, lastShown, lastOpened>>

-----------------------------------------------------------------------------

Tick ==
    /\ now < MaxTime /\ now' = now + 1
    /\ UNCHANGED <<failure, due, report, muted, screen, ticketCalls>>

Next ==
    \/ \E p \in Problems :
          RequestFails(p) \/ Throw(p) \/ HandledFailure(p)
    \/ \E f \in Failure : HandleError(f) \/ WindowEvent(f)
    \/ ReportUnanswered \/ ReportAnswered \/ ReportMuted
    \/ Dismiss \/ Submit
    \/ \E c \in ticketCalls : TicketAnswered(c) \/ TicketUnanswered(c)
    \/ Tick

Spec == Init /\ [][Next]_vars

\* Uncaught errors surface.  That a report returns is not assumed: one that never
\* does (ErrorTransport, a page hidden while it is sent) keeps `reporting` set.
FairSpec == Spec /\ \A f \in Failure : WF_vars(HandleError(f))

-----------------------------------------------------------------------------
(* Properties.                                                             *)

(* TypeOK: every variable stays in its domain.                             *)
TypeOK ==
    /\ now \in 0 .. MaxTime
    /\ failure \in Seq(Problems) /\ Len(failure) <= MaxFailures
    /\ due \subseteq (DOMAIN failure) \X {"handler", "window"}
    /\ report \in Report \cup {None} /\ (report # None => report.of \in DOMAIN failure)
    /\ muted \subseteq DOMAIN failure
    /\ dialog \in Dialog \cup {None} /\ (dialog # None => dialog.of \in DOMAIN failure)
    /\ opened \in Nat
    /\ lastShown \in [Problems -> 0 .. MaxTime \cup {None}]
    /\ lastOpened \in [Problems -> 0 .. MaxTime \cup {None}]
    /\ ticketCalls \subseteq Call /\ (\A c \in ticketCalls : c.of \in DOMAIN failure)

(* TicketOfItsDialog: the ticket number a dialog thanks the user for is    *)
(* one the server made for the error whose reference it shows, though the  *)
(* answer may arrive after that dialog was dismissed and another opened.   *)
TicketOfItsDialog ==
    dialog # None =>
        /\ dialog.state = "submitted" => dialog.ticket = failure[dialog.of]
        /\ dialog.state = "submitting" => \E c \in ticketCalls : c.n = dialog.n
        /\ dialog.state # "prompt" => dialog.reference

Awaited(f) == report # None /\ report.of = f /\ report.hook = "handler"

\* The global handler has nothing to show of f but that it happened: its report is
\* declined, or comes back without an answer.
NoAnswerFor(f) ==
    \/ <<f, "handler">> \in due /\ Declined(failure[f])
    \/ Awaited(f)

(* RepromptsArePlain: within the window of a dialog with a reference no      *)
(* second one with a reference opens for its problem, whatever the pruning   *)
(* of the map has forgotten.  A dialog that does open for it that soon is a  *)
(* plain one, for an error at the global handler that got no answer: those   *)
(* have no fingerprint, so that the service neither holds them back nor      *)
(* remembers them.                                                           *)
RepromptsArePlain ==
    [][\A p \in Problems :
          (/\ opened' # opened /\ failure[dialog'.of] = p
           /\ lastOpened[p] # None /\ now - lastOpened[p] < Window)
              => ~dialog'.reference /\ NoAnswerFor(dialog'.of)]_vars

\* Something on the screen, something shown of it recently, or told not to.
Told(f) ==
    \/ dialog # None
    \/ f \in DOMAIN failure /\ Suppressed(failure[f])
    \/ f \in muted \/ Silent

(* UserIsTold: an error that reaches the global handler ends in a dialog,    *)
(* unless one is open or was open for its problem a moment ago, or the       *)
(* server said not to notify, or the handler's report of it never comes      *)
(* back, which nothing in the reporter bounds.  The errors behind such a     *)
(* report are not lost to the user: they are declined, and shown without a   *)
(* reference.                                                                *)
UserIsTold ==
    \A f \in Failure : [](<<f, "handler">> \in due => <>(Told(f) \/ []Awaited(f)))

=============================================================================
