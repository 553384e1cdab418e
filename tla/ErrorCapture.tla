----------------------------- MODULE ErrorCapture -----------------------------
(* How the browser describes a failure: core/classifier.ts, core/fingerprint.ts, *)
(* the context service and ErpErrorReporterService.buildEnvelope, with the       *)
(* hooks that hand the same failure to it in different wrappings, with different *)
(* options and at different times.  Here every hook's report is accepted; which  *)
(* are declined is ErrorDialog's matter.                                         *)
EXTENDS Integers, Sequences, FiniteSets

CONSTANTS
    None,
    Places,             \* what routes declare: records of a module and a screen
    Errors,             \* the failures that may happen, see Http and Thrown
    Categories,         \* the hints a caller may give
    Names,              \* component, form and LOV names
    Keys,               \* what a form's broken rules contribute, sorted
    GivenOptions,       \* what callers give the helpers, see HelperOptions
    Responses,          \* the failed responses they give beside an error
    ChunkMessages,      \* shapes of messages CHUNK_LOAD_PATTERNS match
    RenderMessages,     \* shapes with an NG0xxx code
    IgnoredMessages,    \* ignoreMessagePatterns
    IgnoredPaths,       \* ignoreUrlPatterns
    Peels,              \* wrappers unwrap removes, 6
    Frames,             \* stack frames in a signature, 5
    MaxWraps,           \* bound: wrappers around an error
    MaxFailures,        \* bound: failures
    MaxReports,         \* bound: envelopes
    MaxMoves            \* bound: navigations

IgnoredStatuses == {401, 409, 422}

\* A message is its shape, which normalizeMessage keeps, and the ids, numbers,
\* dates and quoted texts in it; a URL a path and the id in it, likewise.  A
\* body is the API's answer with an errorReference, or else has a text or None.
Message(shape, volatile) == [shape |-> shape, volatile |-> volatile]
Url(path, id) == [path |-> path, id |-> id]

Http(status, url, reference, text) ==
    [http |-> TRUE, type |-> "HttpErrorResponse", status |-> status, url |-> url,
     reference |-> reference, message |-> text, stack |-> << >>, wraps |-> 0]
Thrown(type, message, stack) ==
    [http |-> FALSE, type |-> type, status |-> 0, url |-> None,
     reference |-> None, message |-> message, stack |-> stack, wraps |-> 0]

\* Frame |-> does it belong to zone.js, or to nobody.
Frame(name, skipped) == [name |-> name, skipped |-> skipped]

ASSUME BoundsAssumption ==
    /\ Peels \in Nat /\ Frames \in Nat /\ MaxWraps \in Nat
    /\ MaxFailures \in Nat /\ MaxReports \in Nat /\ MaxMoves \in Nat
\* What may happen is made by Http or by Thrown; the browser answers 0 for a
\* request that got no answer.
ASSUME ErrorsAssumption ==
    /\ None \notin Errors
    /\ \A e \in Errors :
          /\ e = [http |-> e.http, type |-> e.type, status |-> e.status, url |-> e.url,
                  reference |-> e.reference, message |-> e.message, stack |-> e.stack,
                  wraps |-> 0]
          /\ e.http \in BOOLEAN /\ e.status \in Nat

VARIABLES
    place,              \* the route's module and screen
    correlation,        \* the context's correlation id
    moves,              \* navigations so far
    online,             \* navigator.onLine
    requests,           \* requests out, each as what it was stamped with
    failures,           \* failures so far, each with its request's stamp
    rows                \* envelopes built, with the response and the rules given

vars == <<place, correlation, moves, online, requests, failures, rows>>

-----------------------------------------------------------------------------
(* core/classifier.ts.                                                       *)

\* `rejection`, `ngOriginalError` and ErrorEvent are peeled alike, depth 0 to 5.
Unwrap(e) == [e EXCEPT !.wraps = IF @ > Peels THEN @ - Peels ELSE 0]

IsHttp(e) == e.wraps = 0 /\ e.http

\* The path and the status, when the body is the API's own answer or says nothing.
Generic(e) == Message(<<"on", e.url.path>>, <<e.status, e.url.id>>)

ExtractMessage(e) ==
    IF e.wraps > 0 THEN Message("wrapper", None)
    ELSE IF e.http /\ (e.reference # None \/ e.message = None) THEN Generic(e)
    ELSE e.message

ExtractType(e) == IF e.wraps > 0 THEN "Object" ELSE e.type
ExtractStack(e) == IF e.wraps > 0 THEN << >> ELSE e.stack
ExtractParentErrorReference(e) == IF IsHttp(e) THEN e.reference ELSE None

Class(layer, category, severity) ==
    [layer |-> layer, category |-> category, severity |-> severity]

ClassifyHttp(status, up) ==
    CASE status = 0 -> Class("angular", "client_network", IF up THEN "high" ELSE "low")
      [] status \in {401, 403} -> Class("http", "auth", "medium")
      [] status \in {408, 504} -> Class("http", "http_timeout", "high")
      [] status >= 500 /\ status # 504 -> Class("http", "http_server", "critical")
      [] status \in 400 .. 499 \ {401, 403, 408} -> Class("http", "http_client", "medium")
      [] status \in 1 .. 399 -> Class("http", "unclassified", "medium")

SeverityForCategory(category) ==
    CASE category = "validation" -> "low"
      [] category \in {"chunk_load", "angular_render", "angular_runtime"} -> "high"
      [] OTHER -> "medium"

ClassifyMessage(shape, up) ==
    CASE shape \in ChunkMessages -> Class("angular", "chunk_load", "high")
      [] shape \in RenderMessages \ ChunkMessages -> Class("angular", "angular_render", "high")
      [] shape \notin RenderMessages \cup ChunkMessages ->
            IF up THEN Class("angular", "angular_runtime", "high")
            ELSE Class("angular", "client_network", "medium")

\* Mutation: the caller's hint is asked first.
ClassifyHintFirst(e, httpError, hint, up) ==
    LET raw == Unwrap(e)
        http == IF httpError # None THEN httpError ELSE IF IsHttp(raw) THEN raw ELSE None
    IN  IF hint # None THEN Class("angular", hint, SeverityForCategory(hint))
        ELSE IF http # None THEN ClassifyHttp(http.status, up)
        ELSE ClassifyMessage(ExtractMessage(raw).shape, up)

\* buildEnvelope has unwrapped the error already; classify unwraps it again.
Classify(e, httpError, hint, up) ==
    LET raw == Unwrap(e)
        http == IF httpError # None THEN httpError ELSE IF IsHttp(raw) THEN raw ELSE None
    IN  IF http # None THEN ClassifyHttp(http.status, up)
        ELSE IF hint # None THEN Class("angular", hint, SeverityForCategory(hint))
        ELSE ClassifyMessage(ExtractMessage(raw).shape, up)

-----------------------------------------------------------------------------
(* core/fingerprint.ts.  The browser's layers are 'angular' and 'http'.      *)

NormalizeMessage(m) == m.shape
NormalizeEndpoint(url) == IF url = None THEN None ELSE url.path

NormalizeStackFrames(stack) ==
    LET own == SelectSeq(stack, LAMBDA f : ~f.skipped)
    IN  SubSeq([i \in DOMAIN own |-> own[i].name], 1,
               IF Len(own) < Frames THEN Len(own) ELSE Frames)

LocationParts(layer, in) ==
    IF layer = "http" THEN <<NormalizeEndpoint(in.url), in.status>>
    ELSE <<in.place.module, IF in.component # None THEN in.component ELSE in.place.screen,
           in.form, in.lov>>

\* The signature before its parts are joined; the hash is taken for the identity.
ComputeFingerprint(class, in) ==
    <<class.layer, class.category, in.type, NormalizeMessage(in.message)>>
        \o LocationParts(class.layer, in) \o in.keys \o NormalizeStackFrames(in.stack)

-----------------------------------------------------------------------------
(* ErpErrorReporterService.buildEnvelope.                                    *)

\* What the hooks pass beside the error.
NoOptions == [hint |-> None, component |-> None, form |-> None, lov |-> None, keys |-> << >>]

ShouldIgnore(e, http) ==
    \/ http # None /\ http.url.path \in IgnoredPaths
    \/ IsHttp(e) /\ (e.status \in IgnoredStatuses \/ e.url.path \in IgnoredPaths)
    \/ e.wraps = 0 /\ ~e.http /\ e.message.shape \in IgnoredMessages

\* The response an error is described with: one passed beside it comes first.
HttpOf(raw, httpError) ==
    IF httpError # None THEN httpError ELSE IF IsHttp(raw) THEN raw ELSE None

Envelope(e, httpError, options) ==
    LET raw == Unwrap(e)
        http == HttpOf(raw, httpError)
        class == Classify(raw, http, options.hint, online)
        again == Unwrap(raw)
        unreached == http # None /\ class.layer = "angular"
        in == [type |-> IF unreached THEN "HttpErrorResponse" ELSE ExtractType(again),
               message |-> IF unreached /\ ~online THEN Message("offline", None)
                           ELSE ExtractMessage(again),
               url |-> IF http # None THEN http.url ELSE None,
               status |-> IF http # None THEN http.status ELSE None,
               place |-> place, component |-> options.component, form |-> options.form,
               lov |-> options.lov, keys |-> options.keys, stack |-> ExtractStack(raw)]
    IN  [class |-> class,
         signature |-> ComputeFingerprint(class, in),
         parent |-> ExtractParentErrorReference(raw),
         correlation |-> correlation, on |-> moves, place |-> place]

\* A report of failure f, met in `wraps` wrappers by a hook that passes these beside it.
Build(f, wraps, httpError, options) ==
    LET e == [failures[f].error EXCEPT !.wraps = wraps]
    IN  /\ Cardinality(rows) < MaxReports
        /\ ~ShouldIgnore(Unwrap(e), HttpOf(Unwrap(e), httpError))
        /\ rows' = rows \cup {[of |-> f, wraps |-> wraps,
                               response |-> httpError, keys |-> options.keys,
                               envelope |-> Envelope(e, httpError, options)]}
        /\ UNCHANGED <<place, correlation, moves, online, requests, failures>>

-----------------------------------------------------------------------------

Init ==
    /\ place \in Places /\ correlation = 0 /\ moves = 0 /\ online = TRUE
    /\ requests = {} /\ failures = << >> /\ rows = {}

\* NavigationEnd: a new correlation id and the new route's context.
Navigate(to) ==
    /\ moves < MaxMoves /\ moves' = moves + 1
    /\ correlation' = correlation + 1 /\ place' = to
    /\ UNCHANGED <<online, requests, failures, rows>>

Connection ==
    /\ online' = ~online
    /\ UNCHANGED <<place, correlation, moves, requests, failures, rows>>

\* Mutation: an id for every request.
SendWithOwnId ==
    /\ requests' = requests \cup {[correlation |-> correlation + 1, on |-> moves]}
    /\ correlation' = correlation + 1
    /\ UNCHANGED <<place, moves, online, failures, rows>>

\* The interceptor stamps the request with the context's correlation id, under
\* which the API records its own failure.
SendRequest ==
    /\ requests' = requests \cup {[correlation |-> correlation, on |-> moves]}
    /\ UNCHANGED <<place, correlation, moves, online, failures, rows>>

\* A request fails, or something throws (with no stamp).
Fail(e, stamp) ==
    /\ Len(failures) < MaxFailures
    /\ e.http <=> stamp # None
    /\ failures' = Append(failures, [error |-> e, stamp |-> stamp])
    /\ requests' = requests \ {stamp}
    /\ UNCHANGED <<place, correlation, moves, online, rows>>

\* The interceptors pass the response beside the error.
ByInterceptor(f) ==
    /\ failures[f].error.http
    /\ Build(f, 0, failures[f].error, NoOptions)

\* The ErrorHandler passes the component it read off the stack.
ByHandler(f, wraps, component) ==
    Build(f, wraps, None, [NoOptions EXCEPT !.component = component])

ByWindow(f, wraps) == Build(f, wraps, None, NoOptions)

\* ErpReportOptions, which report, erpReportHandled and the operators pass through
\* as they are given: the hint, the names and the broken rules of a form.
HelperOptions ==
    [hint : Categories \cup {None}, component : Names \cup {None},
     form : Names \cup {None}, lov : Names \cup {None}, keys : Keys \cup {<< >>}]

ASSUME OptionsAssumption ==
    /\ GivenOptions \subseteq HelperOptions
    /\ Responses \subseteq {e \in Errors : e.http}

\* httpError: a response the caller has at hand, the failure's own or another's.
ByHelper(f, wraps, response, options) ==
    /\ options \in HelperOptions
    /\ Build(f, wraps, response, options)

\* reportInvalidForm throws nothing and reports an Error of its own.
ByForm(f, form, keys) ==
    /\ ~failures[f].error.http
    /\ Build(f, 0, None,
             [NoOptions EXCEPT !.hint = "validation", !.form = form, !.keys = keys])

Next ==
    \/ \E to \in Places : Navigate(to)
    \/ Connection \/ SendRequest
    \/ \E e \in Errors, stamp \in requests \cup {None} : Fail(e, stamp)
    \/ \E f \in DOMAIN failures :
          \/ ByInterceptor(f)
          \/ \E wraps \in 0 .. MaxWraps :
                \/ \E component \in Names \cup {None} : ByHandler(f, wraps, component)
                \/ ByWindow(f, wraps)
                \/ \E options \in GivenOptions, response \in Responses \cup {None} :
                      ByHelper(f, wraps, response, options)
          \/ \E form \in Names, keys \in Keys : ByForm(f, form, keys)

Spec == Init /\ [][Next]_vars

-----------------------------------------------------------------------------
(* Properties.                                                               *)

\* No response was passed beside it, or the failure's own.
OfItself(r) == r.response \in {None, failures[r.of].error}

(* HooksAgree: a failed call that got an answer is one problem, whichever    *)
(* hook reports it, under whatever hint and names, in up to six wrappers and *)
(* from whichever screen: the same layer, category, severity and signature,  *)
(* so that it is counted and ticketed once (classifier.ts, "two fingerprints *)
(* for one fault"), and the same parent reference.  It takes callers who     *)
(* give the same broken rules, which are part of every layer's signature,    *)
(* and no other call's response, which would be described in its place.      *)
HooksAgree ==
    \A r, s \in rows :
        (/\ r.of = s.of /\ failures[r.of].error.http /\ failures[r.of].error.status # 0
         /\ r.wraps <= Peels /\ s.wraps <= Peels
         /\ OfItself(r) /\ OfItself(s) /\ r.keys = s.keys)
            => /\ r.envelope.class = s.envelope.class
               /\ r.envelope.signature = s.envelope.signature
               /\ r.envelope.parent = s.envelope.parent

(* JoinedUnlessMoved: the envelope of a failed request has the correlation   *)
(* id the request was stamped with, by which the browser's and the server's  *)
(* rows are joined, unless the user navigated between the two.               *)
JoinedUnlessMoved ==
    \A r \in rows : LET stamp == failures[r.of].stamp IN
        stamp # None /\ stamp.on = r.envelope.on
            => stamp.correlation = r.envelope.correlation

=============================================================================
