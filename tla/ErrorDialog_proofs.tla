-------------------------- MODULE ErrorDialog_proofs --------------------------
(***************************************************************************)
(* Theorems about what the user is shown, for any number of problems and   *)
(* failures and any window, pruning age and map size.                      *)
(*                                                                         *)
(* Besides the types the inductive invariant says what the suppression map *)
(* remembers (Remembers): the last time a problem was shown, unless that   *)
(* is longer ago than pruning spares, which is longer than the window; and *)
(* that a ticket request and a dialog of one number are of one failure     *)
(* (CallsNumbered), because numbers are given to dialogs in turn.          *)
(***************************************************************************)
EXTENDS ErrorDialog, TLAPS

Remembers ==
    \A p \in Problems :
        /\ lastOpened[p] = None => lastShown[p] = None
        /\ lastOpened[p] # None =>
              /\ lastOpened[p] <= now
              /\ \/ lastShown[p] = lastOpened[p]
                 \/ lastShown[p] = None /\ now - lastOpened[p] > KeepFor

CallsNumbered ==
    /\ dialog # None => dialog.n = opened
    /\ \A c \in ticketCalls :
          /\ c.n <= opened
          /\ (dialog # None /\ c.n = dialog.n) => c.of = dialog.of /\ dialog.reference

DialogInv == TypeOK /\ Remembers /\ CallsNumbered /\ TicketOfItsDialog

LEMMA PrunedKeeps ==
    ASSUME now \in 0 .. MaxTime,
           NEW seen \in [Problems -> 0 .. MaxTime \cup {None}]
    PROVE  /\ Pruned(seen) \in [Problems -> 0 .. MaxTime \cup {None}]
           /\ \A p \in Problems :
                 \/ Pruned(seen)[p] = seen[p]
                 \/ Pruned(seen)[p] = None /\ seen[p] # None /\ now - seen[p] > KeepFor
<1>1. CASE Cardinality({p \in Problems : seen[p] # None}) < MapLimit
  BY <1>1 DEF Pruned
<1>2. CASE ~(Cardinality({p \in Problems : seen[p] # None}) < MapLimit)
  <2>1. Pruned(seen) = [p \in Problems |->
            IF seen[p] # None /\ seen[p] < now - KeepFor THEN None ELSE seen[p]]
    BY <1>2 DEF Pruned
  <2>2. ASSUME NEW p \in Problems
        PROVE  /\ Pruned(seen)[p] \in 0 .. MaxTime \cup {None}
               /\ \/ Pruned(seen)[p] = seen[p]
                  \/ Pruned(seen)[p] = None /\ seen[p] # None /\ now - seen[p] > KeepFor
    BY <2>1, NoneAssumption, TimesAssumption, DialogBounds
  <2> QED BY <2>1, <2>2
<1> QED BY <1>1, <1>2

(* A failure of the application: the trail of failures grows, the screen   *)
(* stays.                                                                  *)
LEMMA FailureKeeps ==
    ASSUME DialogInv, NEW p \in Problems, Len(failure) + 1 \in Failure,
           failure' = Append(failure, p),
           due' \subseteq due \cup {Len(failure) + 1} \X {"handler", "window"},
           report' = report \/ \E h \in Hook : report' = [of |-> Len(failure) + 1, hook |-> h],
           UNCHANGED <<now, muted, screen, ticketCalls>>
    PROVE  DialogInv'
<1> DEFINE f == Len(failure) + 1
<1>1. /\ failure \in Seq(Problems) /\ Len(failure) \in Nat
      /\ failure' \in Seq(Problems) /\ Len(failure') = f
      /\ f <= MaxFailures
      /\ f \in DOMAIN failure' /\ DOMAIN failure \subseteq DOMAIN failure'
      /\ \A g \in DOMAIN failure : failure'[g] = failure[g]
  BY DialogBounds DEF DialogInv, TypeOK, Failure
<1>2. TypeOK'
  BY <1>1 DEF DialogInv, TypeOK, screen, Report
<1>3. Remembers' /\ CallsNumbered'
  BY DEF DialogInv, Remembers, CallsNumbered, screen
<1>4. TicketOfItsDialog'
  BY <1>1 DEF DialogInv, TypeOK, TicketOfItsDialog, screen
<1> QED BY <1>2, <1>3, <1>4 DEF DialogInv

(* Steps after which the same failures are known and the clock stands.     *)
LEMMA SameScreen ==
    ASSUME DialogInv, UNCHANGED <<now, failure, screen, ticketCalls>>,
           due' \subseteq due,
           report' \in Report \cup {None}, report' # None => report'.of \in DOMAIN failure,
           muted' \subseteq DOMAIN failure
    PROVE  DialogInv'
<1>1. TypeOK'
  BY DEF DialogInv, TypeOK, screen
<1>2. Remembers' /\ CallsNumbered' /\ TicketOfItsDialog'
  BY DEF DialogInv, Remembers, CallsNumbered, TicketOfItsDialog, screen
<1> QED BY <1>1, <1>2 DEF DialogInv

(* A dialog is opened.                                                     *)
LEMMA AttachKeeps ==
    ASSUME DialogInv, NEW f \in DOMAIN failure, NEW reference \in BOOLEAN,
           Attach(f, reference), UNCHANGED <<failure, ticketCalls>>
    PROVE  /\ dialog' \in Dialog /\ dialog'.of = f /\ dialog'.reference = reference
           /\ opened' \in Nat
           /\ CallsNumbered' /\ TicketOfItsDialog'
<1>1. f \in Failure
  BY DialogBounds DEF DialogInv, TypeOK, Failure
<1>2. /\ dialog' = [n |-> opened + 1, of |-> f, reference |-> reference,
                    state |-> "prompt", ticket |-> None]
      /\ opened' = opened + 1 /\ opened \in Nat
  BY DEF Attach, DialogInv, TypeOK
<1>3. dialog' \in Dialog /\ dialog'.of = f /\ dialog'.reference = reference
  BY <1>1, <1>2 DEF Dialog
<1>4. \A c \in ticketCalls : c.n \in Nat /\ c.n <= opened
  BY DEF DialogInv, TypeOK, Call, CallsNumbered
<1>5. CallsNumbered'
  BY <1>2, <1>4 DEF CallsNumbered
<1>6. TicketOfItsDialog'
  BY <1>2 DEF TicketOfItsDialog
<1> QED BY <1>2, <1>3, <1>5, <1>6

LEMMA ShowPlainKeeps ==
    ASSUME DialogInv, NEW f \in DOMAIN failure, ShowPlain(f),
           UNCHANGED <<now, failure, muted, ticketCalls>>,
           due' \subseteq due,
           report' \in Report \cup {None}, report' # None => report'.of \in DOMAIN failure
    PROVE  DialogInv'
<1>1. CASE UNCHANGED screen
  BY <1>1, SameScreen DEF DialogInv, TypeOK
<1>2. CASE Attach(f, FALSE) /\ UNCHANGED <<lastShown, lastOpened>>
  <2>1. /\ dialog' \in Dialog /\ dialog'.of = f /\ opened' \in Nat
        /\ CallsNumbered' /\ TicketOfItsDialog'
    BY <1>2, AttachKeeps
  <2>2. TypeOK'
    BY <1>2, <2>1 DEF DialogInv, TypeOK
  <2>3. Remembers'
    BY <1>2 DEF DialogInv, Remembers
  <2> QED BY <2>1, <2>2, <2>3 DEF DialogInv
<1> QED BY <1>1, <1>2 DEF ShowPlain

LEMMA ShowResultKeeps ==
    ASSUME DialogInv, NEW f \in DOMAIN failure, ShowResult(f, failure[f]),
           UNCHANGED <<now, failure, due, muted, ticketCalls>>,
           report' = None
    PROVE  DialogInv'
<1> DEFINE p == failure[f]
           seen == [lastShown EXCEPT ![p] = now]
<1>1. CASE UNCHANGED screen
  BY <1>1, SameScreen DEF DialogInv, TypeOK
<1>2. CASE /\ lastShown' = Pruned(seen)
           /\ lastOpened' = [lastOpened EXCEPT ![p] = now]
           /\ Attach(f, TRUE)
  <2>1. /\ dialog' \in Dialog /\ dialog'.of = f /\ opened' \in Nat
        /\ CallsNumbered' /\ TicketOfItsDialog'
    BY <1>2, AttachKeeps
  <2>2. /\ p \in Problems /\ now \in 0 .. MaxTime
        /\ lastShown \in [Problems -> 0 .. MaxTime \cup {None}]
        /\ lastOpened \in [Problems -> 0 .. MaxTime \cup {None}]
    BY DEF DialogInv, TypeOK
  <2>3. seen \in [Problems -> 0 .. MaxTime \cup {None}]
    BY <2>2
  <2>4. lastOpened' \in [Problems -> 0 .. MaxTime \cup {None}]
    BY <1>2, <2>2
  <2>5. /\ lastShown' \in [Problems -> 0 .. MaxTime \cup {None}]
        /\ \A q \in Problems :
              \/ lastShown'[q] = seen[q]
              \/ lastShown'[q] = None /\ seen[q] # None /\ now - seen[q] > KeepFor
    <3> HIDE DEF seen
    <3> QED BY <1>2, <2>2, <2>3, PrunedKeeps
  <2>6. TypeOK'
    BY <2>1, <2>4, <2>5 DEF DialogInv, TypeOK
  <2>7. ASSUME NEW q \in Problems
        PROVE  /\ lastOpened'[q] = None => lastShown'[q] = None
               /\ lastOpened'[q] # None =>
                     /\ lastOpened'[q] <= now
                     /\ \/ lastShown'[q] = lastOpened'[q]
                        \/ lastShown'[q] = None /\ now - lastOpened'[q] > KeepFor
    <3>1. CASE q = p
      <4>1. seen[q] = now /\ lastOpened'[q] = now
        BY <1>2, <2>2, <3>1
      <4>2. lastShown'[q] = now
        BY <2>2, <2>5, <4>1, TimesAssumption, DialogBounds
      <4> QED BY <2>2, <4>1, <4>2, NoneAssumption, DialogBounds
    <3>2. CASE q # p
      <4>1. seen[q] = lastShown[q] /\ lastOpened'[q] = lastOpened[q]
        BY <1>2, <2>2, <3>2
      <4>2. lastOpened[q] = None => lastShown[q] = None
        BY DEF DialogInv, Remembers
      <4>3. lastOpened[q] # None =>
                     /\ lastOpened[q] <= now
                     /\ \/ lastShown[q] = lastOpened[q]
                        \/ lastShown[q] = None /\ now - lastOpened[q] > KeepFor
        BY DEF DialogInv, Remembers
      <4>4. \/ lastShown'[q] = lastShown[q]
            \/ lastShown'[q] = None /\ lastShown[q] # None /\ now - lastShown[q] > KeepFor
        BY <2>5, <4>1
      <4> QED BY <4>1, <4>2, <4>3, <4>4
    <3> QED BY <3>1, <3>2
  <2>8. Remembers'
    BY <2>7 DEF Remembers
  <2> QED BY <2>1, <2>6, <2>8 DEF DialogInv
<1> QED BY <1>1, <1>2 DEF ShowResult

LEMMA DismissKeeps == ASSUME DialogInv, Dismiss PROVE DialogInv'
<1>1. /\ dialog' = None
      /\ UNCHANGED <<now, failure, due, report, muted,
                     opened, lastShown, lastOpened, ticketCalls>>
  BY DEF Dismiss
<1>2. TypeOK'
  BY <1>1 DEF DialogInv, TypeOK
<1>3. Remembers' /\ CallsNumbered' /\ TicketOfItsDialog'
  BY <1>1 DEF DialogInv, Remembers, CallsNumbered, TicketOfItsDialog
<1> QED BY <1>2, <1>3 DEF DialogInv

LEMMA SubmitKeeps == ASSUME DialogInv, Submit PROVE DialogInv'
<1> DEFINE call == [n |-> dialog.n, of |-> dialog.of]
           asking == [dialog EXCEPT !.state = "submitting"]
<1>1. dialog \in Dialog /\ dialog # None /\ dialog.reference /\ dialog.n = opened
  BY DEF Submit, Offered, DialogInv, TypeOK, CallsNumbered
<1>2. /\ asking \in Dialog /\ asking.n = dialog.n /\ asking.of = dialog.of
      /\ asking.reference /\ asking.state = "submitting"
      /\ call \in Call /\ call.n = dialog.n /\ call.of = dialog.of
  BY <1>1 DEF Dialog, Call
<1>3. /\ dialog' = asking /\ ticketCalls' = ticketCalls \cup {call}
      /\ UNCHANGED <<now, failure, due, report, muted, opened, lastShown, lastOpened>>
  BY DEF Submit
<1> HIDE DEF asking, call
<1>4. TypeOK'
  BY <1>1, <1>2, <1>3 DEF DialogInv, TypeOK
<1>5. opened \in Nat
  BY DEF DialogInv, TypeOK
<1>6. Remembers'
  BY <1>3 DEF DialogInv, Remembers
<1>7. CallsNumbered'
  BY <1>1, <1>2, <1>3, <1>5 DEF DialogInv, CallsNumbered
<1>8. TicketOfItsDialog'
  BY <1>2, <1>3 DEF TicketOfItsDialog
<1> QED BY <1>4, <1>6, <1>7, <1>8 DEF DialogInv

(* The answer to a ticket request reaches its dialog or none.              *)
LEMMA AnswerKeeps ==
    ASSUME DialogInv, NEW c \in ticketCalls, NEW ticket \in {failure[c.of], None},
           ticketCalls' = ticketCalls \ {c}, dialog' = Given(c.n, ticket),
           UNCHANGED <<now, failure, due, report, muted, opened, lastShown, lastOpened>>
    PROVE  DialogInv'
<1> DEFINE state == IF ticket # None THEN "submitted" ELSE "failed"
           answered == [dialog EXCEPT !.ticket = ticket, !.state = state]
<1>1. c \in Call /\ c.of \in DOMAIN failure /\ failure[c.of] \in Problems
  BY DEF DialogInv, TypeOK
<1>2. CASE dialog = None \/ dialog.n # c.n
  <2>1. dialog' = dialog
    BY <1>2 DEF Given
  <2>2. TypeOK' /\ Remembers' /\ CallsNumbered'
    BY <2>1 DEF DialogInv, TypeOK, Remembers, CallsNumbered
  <2>3. TicketOfItsDialog'
    BY <1>2, <2>1 DEF DialogInv, TicketOfItsDialog
  <2> QED BY <2>2, <2>3 DEF DialogInv
<1>3. CASE dialog # None /\ dialog.n = c.n
  <2>1. dialog' = answered
    BY <1>3 DEF Given
  <2>2. dialog \in Dialog /\ c.of = dialog.of /\ dialog.reference
    BY <1>3 DEF DialogInv, TypeOK, CallsNumbered
  <2>3. state \in {"submitted", "failed"} /\ (state = "submitted" => ticket = failure[c.of])
    OBVIOUS
  <2>4. ticket \in Problems \cup {None}
    BY <1>1
  <2> HIDE DEF state
  <2>5. /\ answered \in Dialog /\ answered.n = dialog.n /\ answered.of = dialog.of
        /\ answered.reference = dialog.reference
        /\ answered.state = state /\ answered.ticket = ticket
    BY <2>2, <2>3, <2>4 DEF Dialog
  <2> HIDE DEF answered
  <2>6. TypeOK'
    BY <2>1, <2>5, <1>3 DEF DialogInv, TypeOK
  <2>7. Remembers' /\ CallsNumbered'
    BY <1>3, <2>1, <2>5 DEF DialogInv, Remembers, CallsNumbered
  <2>8. TicketOfItsDialog'
    BY <2>1, <2>2, <2>3, <2>5 DEF TicketOfItsDialog
  <2> QED BY <2>6, <2>7, <2>8 DEF DialogInv
<1> QED BY <1>2, <1>3

LEMMA TickKeeps == ASSUME DialogInv, Tick PROVE DialogInv'
<1>1. /\ now \in 0 .. MaxTime /\ now < MaxTime /\ now' = now + 1
      /\ UNCHANGED <<failure, due, report, muted, dialog, opened, lastShown, lastOpened,
                     ticketCalls>>
  BY DEF Tick, screen, DialogInv, TypeOK
<1>2. TypeOK'
  BY <1>1, DialogBounds DEF DialogInv, TypeOK
<1>3. Remembers'
  <2> SUFFICES ASSUME NEW p \in Problems
               PROVE  /\ lastOpened[p] = None => lastShown[p] = None
                      /\ lastOpened[p] # None =>
                            /\ lastOpened[p] <= now'
                            /\ \/ lastShown[p] = lastOpened[p]
                               \/ lastShown[p] = None /\ now' - lastOpened[p] > KeepFor
    BY <1>1 DEF Remembers
  <2>1. lastOpened[p] \in 0 .. MaxTime \cup {None}
    BY DEF DialogInv, TypeOK
  <2> QED BY <1>1, <2>1, TimesAssumption, DialogBounds DEF DialogInv, Remembers
<1>4. CallsNumbered' /\ TicketOfItsDialog'
  BY <1>1 DEF DialogInv, CallsNumbered, TicketOfItsDialog
<1> QED BY <1>2, <1>3, <1>4 DEF DialogInv

(* What the hooks make of a failure.                                       *)
LEMMA HooksKeep ==
    ASSUME DialogInv, NEW p \in Problems,
           RequestFails(p) \/ Throw(p) \/ HandledFailure(p)
    PROVE  DialogInv'
<1> DEFINE f == Len(failure) + 1
<1>1. /\ f \in Failure /\ failure' = Append(failure, p)
      /\ UNCHANGED <<now, muted, screen, ticketCalls>>
  BY DEF RequestFails, Throw, HandledFailure
<1>2. due' \subseteq due \cup {f} \X {"handler", "window"}
  BY DEF RequestFails, Throw, HandledFailure, Surfaces
<1>3. report' = report \/ \E h \in Hook : report' = [of |-> f, hook |-> h]
  BY DEF RequestFails, Throw, HandledFailure, ReportFrom, Hook
<1> QED BY <1>1, <1>2, <1>3, FailureKeeps

LEMMA SurfaceKeeps ==
    ASSUME DialogInv, NEW f \in Failure, HandleError(f) \/ WindowEvent(f)
    PROVE  DialogInv'
<1>1. f \in DOMAIN failure
  BY DEF HandleError, WindowEvent, DialogInv, TypeOK
<1>2. \A h \in Hook : [of |-> f, hook |-> h] \in Report
  BY DEF Report
<1>3. /\ due' \subseteq due
      /\ report' = report \/ \E h \in Hook : report' = [of |-> f, hook |-> h]
      /\ UNCHANGED <<now, failure, muted, ticketCalls>>
  BY DEF HandleError, WindowEvent, ReportFrom, Hook
<1>4. report' \in Report \cup {None} /\ (report' # None => report'.of \in DOMAIN failure)
  BY <1>1, <1>2, <1>3 DEF DialogInv, TypeOK
<1>5. ShowPlain(f) \/ UNCHANGED screen
  BY DEF HandleError, WindowEvent
<1> QED BY <1>1, <1>3, <1>4, <1>5, ShowPlainKeeps, SameScreen DEF DialogInv, TypeOK

LEMMA ReturnKeeps ==
    ASSUME DialogInv, ReportUnanswered \/ ReportAnswered \/ ReportMuted
    PROVE  DialogInv'
<1>1. report # None /\ report' = None /\ report.of \in DOMAIN failure
  BY DEF ReportUnanswered, ReportAnswered, ReportMuted, DialogInv, TypeOK
<1>2. CASE ReportUnanswered
  BY <1>1, <1>2, ShowPlainKeeps, SameScreen DEF ReportUnanswered, DialogInv, TypeOK
<1>3. CASE ReportAnswered
  BY <1>1, <1>3, ShowResultKeeps, SameScreen DEF ReportAnswered, DialogInv, TypeOK
<1>4. CASE ReportMuted
  <2>1. /\ muted' \subseteq DOMAIN failure
        /\ UNCHANGED <<now, failure, due, screen, ticketCalls>>
    BY <1>1, <1>4 DEF ReportMuted, DialogInv, TypeOK
  <2> QED BY <1>1, <2>1, SameScreen
<1> QED BY <1>2, <1>3, <1>4

LEMMA NextKeeps == ASSUME DialogInv, Next PROVE DialogInv'
<1>1. CASE \E p \in Problems : RequestFails(p) \/ Throw(p) \/ HandledFailure(p)
  BY <1>1, HooksKeep
<1>2. CASE \E f \in Failure : HandleError(f) \/ WindowEvent(f)
  BY <1>2, SurfaceKeeps
<1>3. CASE ReportUnanswered \/ ReportAnswered \/ ReportMuted
  BY <1>3, ReturnKeeps
<1>4. CASE \E c \in ticketCalls : TicketAnswered(c) \/ TicketUnanswered(c)
  BY <1>4, AnswerKeeps DEF TicketAnswered, TicketUnanswered
<1> QED BY <1>1, <1>2, <1>3, <1>4, DismissKeeps, SubmitKeeps, TickKeeps DEF Next

LEMMA InitKeeps == Init => DialogInv
<1> SUFFICES ASSUME Init PROVE DialogInv
  OBVIOUS
<1>1. failure \in Seq(Problems) /\ Len(failure) = 0
  BY DEF Init
<1>2. TypeOK
  BY <1>1, DialogBounds DEF Init, TypeOK
<1>3. Remembers /\ CallsNumbered /\ TicketOfItsDialog
  BY DEF Init, Remembers, CallsNumbered, TicketOfItsDialog
<1> QED BY <1>2, <1>3 DEF DialogInv

(* The inductive invariant holds in every reachable state.                 *)
THEOREM DialogInvariance == Spec => []DialogInv
<1>1. DialogInv /\ UNCHANGED vars => DialogInv'
  BY DEF vars, DialogInv, TypeOK, Remembers, CallsNumbered, TicketOfItsDialog
<1>2. DialogInv /\ [Next]_vars => DialogInv'
  BY <1>1, NextKeeps
<1> QED BY <1>2, InitKeeps, PTL DEF Spec

(* The hooks, the service and the dialog keep every variable in its domain. *)
THEOREM DialogTyped == Spec => []TypeOK
<1>1. DialogInv => TypeOK
  BY DEF DialogInv
<1> QED BY <1>1, DialogInvariance, PTL

(* A dialog shows the ticket of its own error, however late the answers to *)
(* dialogs that were dismissed come (erp-error-notification.service.ts).   *)
THEOREM TicketsFindTheirDialog == Spec => []TicketOfItsDialog
<1>1. DialogInv => TicketOfItsDialog
  BY DEF DialogInv
<1> QED BY <1>1, DialogInvariance, PTL

(* A dialog opens for an error the global handler got no answer for, plain,  *)
(* or for an answered report, with a reference.                              *)
LEMMA OpensFor ==
    ASSUME DialogInv, Next, opened' # opened
    PROVE  \/ \E f \in DOMAIN failure :
                 /\ ShowPlain(f) /\ NoAnswerFor(f)
                 /\ UNCHANGED <<failure, ticketCalls>>
           \/ ReportAnswered /\ ShowResult(report.of, failure[report.of])
<1>1. UNCHANGED opened => FALSE
  OBVIOUS
<1>2. ASSUME NEW f \in Failure, HandleError(f)
      PROVE  \E g \in DOMAIN failure :
                 /\ ShowPlain(g) /\ NoAnswerFor(g)
                 /\ UNCHANGED <<failure, ticketCalls>>
  <2>1. f \in DOMAIN failure
    BY <1>2 DEF HandleError, DialogInv, TypeOK
  <2> QED
    BY <1>1, <1>2, <2>1 DEF HandleError, NoAnswerFor, screen
<1>3. ASSUME ReportUnanswered
      PROVE  \E g \in DOMAIN failure :
                 /\ ShowPlain(g) /\ NoAnswerFor(g)
                 /\ UNCHANGED <<failure, ticketCalls>>
  BY <1>1, <1>3 DEF ReportUnanswered, NoAnswerFor, Awaited, screen, DialogInv, TypeOK
<1>4. ASSUME ReportAnswered
      PROVE  ShowResult(report.of, failure[report.of])
  BY <1>1, <1>4 DEF ReportAnswered, screen
<1> QED
  BY <1>1, <1>2, <1>3, <1>4
     DEF Next, RequestFails, Throw, HandledFailure, WindowEvent, ReportMuted,
         Dismiss, Submit, TicketAnswered, TicketUnanswered, Tick, screen

(* Within the window of a dialog with a reference only a plain one opens.    *)
LEMMA OpensPlain ==
    ASSUME DialogInv, Next, NEW p \in Problems,
           opened' # opened, failure[dialog'.of] = p,
           lastOpened[p] # None, now - lastOpened[p] < Window
    PROVE  ~dialog'.reference /\ NoAnswerFor(dialog'.of)
<1>1. ASSUME NEW f \in DOMAIN failure, ShowPlain(f), NoAnswerFor(f),
             UNCHANGED <<failure, ticketCalls>>
      PROVE  ~dialog'.reference /\ NoAnswerFor(dialog'.of)
  BY <1>1, AttachKeeps DEF ShowPlain, screen
<1>2. ASSUME ReportAnswered, ShowResult(report.of, failure[report.of])
      PROVE  FALSE
  <2>1. report.of \in DOMAIN failure /\ ~Suppressed(failure[report.of])
        /\ Attach(report.of, TRUE)
    BY <1>2 DEF ShowResult, ReportAnswered, screen, DialogInv, TypeOK
  <2>2. failure[report.of] = p
    BY <1>2, <2>1, AttachKeeps DEF ReportAnswered
  <2>3. lastShown[p] = None \/ ~(now - lastShown[p] < Window)
    BY <2>1, <2>2 DEF Suppressed
  <2>4. /\ now \in 0 .. MaxTime
        /\ lastOpened[p] \in 0 .. MaxTime \cup {None}
        /\ lastShown[p] \in 0 .. MaxTime \cup {None}
    BY DEF DialogInv, TypeOK
  <2> QED BY <2>3, <2>4, TimesAssumption, DialogBounds DEF DialogInv, Remembers
<1> QED BY <1>1, <1>2, OpensFor

(* Within the window of a dialog with a reference a problem is prompted for  *)
(* again only without one: what pruning forgets (KeepFor) is older than the  *)
(* window, and plain dialogs are for errors that got no answer.              *)
THEOREM PromptsKeepTheirDistance == Spec => RepromptsArePlain
<1> DEFINE Apart ==
        \A p \in Problems :
          (/\ opened' # opened /\ failure[dialog'.of] = p
           /\ lastOpened[p] # None /\ now - lastOpened[p] < Window)
              => ~dialog'.reference /\ NoAnswerFor(dialog'.of)
<1>1. DialogInv /\ Next => Apart
  BY OpensPlain
<1>2. DialogInv /\ [Next]_vars => [Apart]_vars
  BY <1>1
<1> QED BY <1>2, DialogInvariance, PTL DEF Spec, RepromptsArePlain

=============================================================================
