------------------------- MODULE ErrorCapture_proofs -------------------------
(* What holds of ErrorCapture for every set of failures, hints, names and keys,  *)
(* every number of wrappers and every bound: a failed call is described the      *)
(* same way by every hook, and is joined to the server's row.  And what holds of *)
(* CapturedInput for every body and every form: what is kept of a request is     *)
(* what the allow list names, and a refused form's broken rules are all listed.  *)
EXTENDS ErrorCapture, CapturedInput, WellFoundedInduction, SequenceTheorems, TLAPS

-----------------------------------------------------------------------------
(* The invariant.                                                            *)

\* The stamp a request gets while the user is on his n-th screen.
Stamps == {[correlation |-> n, on |-> n] : n \in Nat}

\* Navigating is all that changes the correlation id, so it counts navigations.
CorrelationCountsMoves == correlation = moves /\ moves \in Nat

StampsAreOfTheScreen == requests \subseteq Stamps

FailuresTyped == failures \in Seq([error : Errors, stamp : Stamps \cup {None}])

\* What every hook's signature of an answered call comes to: nothing of the
\* screen, the wrappers or the options is left in it but the broken rules.
HttpSignature(e, keys) ==
    LET class == ClassifyHttp(e.status, TRUE)
    IN  <<class.layer, class.category, e.type, NormalizeMessage(ExtractMessage(e))>>
            \o <<NormalizeEndpoint(e.url), e.status>> \o keys \o NormalizeStackFrames(e.stack)

\* An answered call in no more wrappers than unwrap peels.
Answered(e, wraps) == e.http /\ e.status # 0 /\ wraps <= Peels

DescribedAlike(e, keys, envelope) ==
    /\ envelope.class = ClassifyHttp(e.status, TRUE)
    /\ envelope.signature = HttpSignature(e, keys)
    /\ envelope.parent = e.reference

RowFits(r, seen) ==
    /\ r.of \in DOMAIN seen
    /\ r.envelope.correlation = r.envelope.on
    /\ Answered(seen[r.of].error, r.wraps) /\ r.response \in {None, seen[r.of].error}
          => DescribedAlike(seen[r.of].error, r.keys, r.envelope)

CaptureInv ==
    /\ CorrelationCountsMoves
    /\ StampsAreOfTheScreen
    /\ FailuresTyped
    /\ \A r \in rows : RowFits(r, failures)

-----------------------------------------------------------------------------
(* The operators.                                                            *)

\* unwrap gives the failure itself back out of as many wrappers as it peels,
\* and leaves it alone after that.
LEMMA UnwrapPeels ==
    ASSUME NEW e \in Errors, NEW wraps \in Nat, wraps <= Peels
    PROVE  /\ Unwrap([e EXCEPT !.wraps = wraps]) = e
           /\ Unwrap(e) = e
<1> DEFINE R(w) == [http |-> e.http, type |-> e.type, status |-> e.status, url |-> e.url,
                    reference |-> e.reference, message |-> e.message, stack |-> e.stack,
                    wraps |-> w]
<1>1. e = R(0)
  BY ErrorsAssumption
<1>2. [R(0) EXCEPT !.wraps = wraps] = R(wraps)
  OBVIOUS
<1>3. [R(wraps) EXCEPT !.wraps = 0] = R(0)
  OBVIOUS
<1>4. [R(0) EXCEPT !.wraps = 0] = R(0)
  OBVIOUS
<1>5. R(wraps).wraps = wraps /\ R(0).wraps = 0
  OBVIOUS
<1>6. Peels \in Nat /\ ~(wraps > Peels) /\ ~(0 > Peels)
  BY BoundsAssumption
<1>7. Unwrap(R(wraps)) = R(0)
  BY <1>3, <1>5, <1>6 DEF Unwrap
<1>8. Unwrap(R(0)) = R(0)
  BY <1>4, <1>5, <1>6 DEF Unwrap
<1> QED
  BY <1>1, <1>2, <1>7, <1>8

\* An answer puts the failure in the HTTP layer, whether the browser is online
\* or not.
LEMMA AnsweredIsHttp ==
    ASSUME NEW status \in Nat, status # 0, NEW up \in BOOLEAN
    PROVE  /\ ClassifyHttp(status, up) = ClassifyHttp(status, TRUE)
           /\ ClassifyHttp(status, up).layer = "http"
<1> DEFINE AsPromised == /\ ClassifyHttp(status, up) = ClassifyHttp(status, TRUE)
                         /\ ClassifyHttp(status, up).layer = "http"
<1> SUFFICES AsPromised
  OBVIOUS
<1>1. CASE status \in {401, 403}
  BY <1>1 DEF ClassifyHttp, Class
<1>2. CASE status \in {408, 504}
  BY <1>2 DEF ClassifyHttp, Class
<1>3. CASE status >= 500 /\ status # 504
  BY <1>3 DEF ClassifyHttp, Class
<1>4. CASE status \in 400 .. 499 \ {401, 403, 408}
  BY <1>4 DEF ClassifyHttp, Class
<1>5. CASE status \in 1 .. 399
  BY <1>5 DEF ClassifyHttp, Class
<1>6. \/ status \in {401, 403}
      \/ status \in {408, 504}
      \/ status >= 500 /\ status # 504
      \/ status \in 400 .. 499 \ {401, 403, 408}
      \/ status \in 1 .. 399
  <2>1. status >= 1
    OBVIOUS
  <2>2. status <= 399 \/ status \in 400 .. 499 \/ status >= 500
    OBVIOUS
  <2>3. status <= 399 => status \in 1 .. 399
    BY <2>1
  <2>4. status >= 500 => status = 504 \/ status # 504
    OBVIOUS
  <2> QED
    BY <2>2, <2>3, <2>4
<1> HIDE DEF AsPromised
<1> QED
  BY <1>1, <1>2, <1>3, <1>4, <1>5, <1>6

\* Whatever hook meets an answered call, with the response beside it or not, in
\* however many wrappers that are peeled, under whatever hint and names: the
\* class, the signature and the parent are the failure's own, with the broken
\* rules given.
LEMMA AnsweredEnvelope ==
    ASSUME NEW e \in Errors, e.http, e.status # 0, NEW wrapped, Unwrap(wrapped) = e,
           online \in BOOLEAN, NEW httpError, httpError \in {None, e},
           NEW options
    PROVE  DescribedAlike(e, options.keys, Envelope(wrapped, httpError, options))
<1> DEFINE class == ClassifyHttp(e.status, TRUE)
           in == [type |-> ExtractType(e), message |-> ExtractMessage(e),
                  url |-> e.url, status |-> e.status,
                  place |-> place, component |-> options.component, form |-> options.form,
                  lov |-> options.lov, keys |-> options.keys, stack |-> ExtractStack(e)]
           out == Envelope(wrapped, httpError, options)
<1>1. /\ e # None /\ e.wraps = 0 /\ e.status \in Nat
      /\ IsHttp(e)
  BY ErrorsAssumption DEF IsHttp
<1>2. Unwrap(e) = e
  <2>1. 0 \in Nat /\ 0 <= Peels
    BY BoundsAssumption
  <2> QED
    BY <2>1, UnwrapPeels
<1>3. ClassifyHttp(e.status, online) = class /\ class.layer # "angular" /\ class.layer = "http"
  BY <1>1, AnsweredIsHttp
<1> HIDE DEF class
<1>4. Classify(e, e, options.hint, online) = class
  BY <1>1, <1>2, <1>3 DEF Classify
<1>5. /\ out.class = class
      /\ out.signature = ComputeFingerprint(class, in)
      /\ out.parent = ExtractParentErrorReference(e)
  <2>1. CASE httpError = None
    BY <1>1, <1>2, <1>3, <1>4, <2>1 DEF Envelope, HttpOf
  <2>2. CASE httpError = e
    BY <1>1, <1>2, <1>3, <1>4, <2>2 DEF Envelope, HttpOf
  <2> QED
    BY <2>1, <2>2
<1>6. ComputeFingerprint(class, in) = HttpSignature(e, options.keys)
  <2>1. LocationParts(class.layer, in) = <<NormalizeEndpoint(e.url), e.status>>
    BY <1>3 DEF LocationParts
  <2>2. in.type = e.type /\ in.stack = ExtractStack(e) /\ ExtractStack(e) = e.stack
    BY <1>1 DEF ExtractType, ExtractStack
  <2>3. in.message = ExtractMessage(e) /\ in.keys = options.keys
    OBVIOUS
  <2> QED
    BY <2>1, <2>2, <2>3 DEF ComputeFingerprint, HttpSignature, class
<1>7. ExtractParentErrorReference(e) = e.reference
  BY <1>1 DEF ExtractParentErrorReference
<1> QED
  BY <1>5, <1>6, <1>7 DEF DescribedAlike, class

-----------------------------------------------------------------------------
(* The steps.                                                                *)

LEMMA FailureTyped ==
    ASSUME FailuresTyped, NEW f \in DOMAIN failures
    PROVE  failures[f].error \in Errors /\ failures[f].stamp \in Stamps \cup {None}
<1> DEFINE S == [error : Errors, stamp : Stamps \cup {None}]
<1>1. failures \in Seq(S)
  BY DEF FailuresTyped
<1> HIDE DEF S
<1>2. failures[f] \in S
  BY <1>1
<1> QED
  BY <1>2 DEF S

\* A report leaves every row there is alone and adds one that fits.
LEMMA BuildKeeps ==
    ASSUME CaptureInv, online \in BOOLEAN, NEW f \in DOMAIN failures,
           NEW wraps \in Nat, NEW httpError, NEW options,
           Build(f, wraps, httpError, options)
    PROVE  CaptureInv'
<1> DEFINE e == failures[f].error
           envelope == Envelope([e EXCEPT !.wraps = wraps], httpError, options)
           row == [of |-> f, wraps |-> wraps, response |-> httpError,
                   keys |-> options.keys, envelope |-> envelope]
<1>1. /\ rows' = rows \cup {row}
      /\ UNCHANGED <<place, correlation, moves, online, requests, failures>>
  BY DEF Build
<1>2. e \in Errors
  BY FailureTyped DEF CaptureInv
<1>3. envelope.correlation = correlation /\ envelope.on = moves
  BY DEF Envelope
<1>4. Answered(e, wraps) /\ httpError \in {None, e}
          => DescribedAlike(e, options.keys, envelope)
  BY <1>2, UnwrapPeels, AnsweredEnvelope DEF Answered
<1>5. /\ row.of = f /\ row.wraps = wraps /\ row.envelope = envelope
      /\ row.response = httpError /\ row.keys = options.keys
  OBVIOUS
<1> HIDE DEF envelope, row
<1>6. RowFits(row, failures)
  BY <1>3, <1>4, <1>5 DEF RowFits, CaptureInv, CorrelationCountsMoves
<1>7. \A r \in rows' : RowFits(r, failures')
  BY <1>1, <1>6 DEF CaptureInv
<1> QED
  BY <1>1, <1>7 DEF CaptureInv, CorrelationCountsMoves, StampsAreOfTheScreen, FailuresTyped

\* A failure is told apart from the earlier ones by its place in the list, so
\* the rows about those still fit.
LEMMA FailKeeps ==
    ASSUME CaptureInv, NEW e \in Errors, NEW stamp \in requests \cup {None}, Fail(e, stamp)
    PROVE  CaptureInv'
<1> DEFINE failure == [error |-> e, stamp |-> stamp]
<1>1. /\ failures' = Append(failures, failure) /\ requests' = requests \ {stamp}
      /\ UNCHANGED <<place, correlation, moves, online, rows>>
  BY DEF Fail
<1>2. failure \in [error : Errors, stamp : Stamps \cup {None}]
  BY DEF CaptureInv, StampsAreOfTheScreen
<1> HIDE DEF failure
<1>3. failures \in Seq([error : Errors, stamp : Stamps \cup {None}])
  BY DEF CaptureInv, FailuresTyped
<1>4. failures' \in Seq([error : Errors, stamp : Stamps \cup {None}])
  BY <1>1, <1>2, <1>3
<1>5. \A f \in DOMAIN failures : f \in DOMAIN failures' /\ failures'[f] = failures[f]
  BY <1>1, <1>2, <1>3
<1>6. \A r \in rows' : RowFits(r, failures')
  BY <1>1, <1>5 DEF CaptureInv, RowFits
<1>7. requests' \subseteq Stamps
  BY <1>1 DEF CaptureInv, StampsAreOfTheScreen
<1> QED
  BY <1>1, <1>4, <1>6, <1>7
     DEF CaptureInv, CorrelationCountsMoves, StampsAreOfTheScreen, FailuresTyped

LEMMA CaptureStep ==
    ASSUME CaptureInv, online \in BOOLEAN, Next
    PROVE  CaptureInv' /\ online' \in BOOLEAN
<1> USE DEF CaptureInv
<1>1. ASSUME NEW to \in Places, Navigate(to)
      PROVE  CaptureInv' /\ online' \in BOOLEAN
  BY <1>1 DEF Navigate, CorrelationCountsMoves, StampsAreOfTheScreen, FailuresTyped
<1>2. CASE Connection
  BY <1>2 DEF Connection, CorrelationCountsMoves, StampsAreOfTheScreen, FailuresTyped
<1>3. CASE SendRequest
  <2>1. [correlation |-> correlation, on |-> moves] \in Stamps
    BY DEF CorrelationCountsMoves, Stamps
  <2> QED
    BY <1>3, <2>1 DEF SendRequest, CorrelationCountsMoves, StampsAreOfTheScreen, FailuresTyped
<1>4. ASSUME NEW e \in Errors, NEW stamp \in requests \cup {None}, Fail(e, stamp)
      PROVE  CaptureInv' /\ online' \in BOOLEAN
  BY <1>4, FailKeeps DEF Fail
<1>5. ASSUME NEW f \in DOMAIN failures, ByInterceptor(f)
      PROVE  CaptureInv' /\ online' \in BOOLEAN
  <2>1. Build(f, 0, failures[f].error, NoOptions)
    BY <1>5 DEF ByInterceptor
  <2>2. CaptureInv'
    BY <2>1, BuildKeeps
  <2> QED
    BY <2>1, <2>2 DEF Build
<1>6. ASSUME NEW f \in DOMAIN failures, NEW wraps \in 0 .. MaxWraps,
             NEW component, ByHandler(f, wraps, component)
      PROVE  CaptureInv' /\ online' \in BOOLEAN
  <2> DEFINE options == [NoOptions EXCEPT !.component = component]
  <2>1. Build(f, wraps, None, options)
    BY <1>6 DEF ByHandler
  <2> HIDE DEF options
  <2>2. CaptureInv'
    BY <2>1, BuildKeeps
  <2> QED
    BY <2>1, <2>2 DEF Build
<1>7. ASSUME NEW f \in DOMAIN failures, NEW wraps \in 0 .. MaxWraps, ByWindow(f, wraps)
      PROVE  CaptureInv' /\ online' \in BOOLEAN
  <2>1. Build(f, wraps, None, NoOptions)
    BY <1>7 DEF ByWindow
  <2>2. CaptureInv'
    BY <2>1, BuildKeeps
  <2> QED
    BY <2>1, <2>2 DEF Build
<1>8. ASSUME NEW f \in DOMAIN failures, NEW wraps \in 0 .. MaxWraps,
             NEW options, NEW response, ByHelper(f, wraps, response, options)
      PROVE  CaptureInv' /\ online' \in BOOLEAN
  <2>1. Build(f, wraps, response, options)
    BY <1>8 DEF ByHelper
  <2>2. CaptureInv'
    BY <2>1, BuildKeeps
  <2> QED
    BY <2>1, <2>2 DEF Build
<1>9. ASSUME NEW f \in DOMAIN failures, NEW form, NEW keys, ByForm(f, form, keys)
      PROVE  CaptureInv' /\ online' \in BOOLEAN
  <2> DEFINE options == [NoOptions EXCEPT !.hint = "validation", !.form = form, !.keys = keys]
  <2>1. Build(f, 0, None, options)
    BY <1>9 DEF ByForm
  <2> HIDE DEF options
  <2>2. CaptureInv'
    BY <2>1, BuildKeeps
  <2> QED
    BY <2>1, <2>2 DEF Build
<1> QED
  BY <1>1, <1>2, <1>3, <1>4, <1>5, <1>6, <1>7, <1>8, <1>9 DEF Next

(* The invariant of the capture hooks: navigating is all that changes the        *)
(* correlation id, and every row about an answered call says only what the call  *)
(* itself says.                                                                  *)
THEOREM CaptureInvariance == Spec => []CaptureInv
<1> DEFINE I == CaptureInv /\ online \in BOOLEAN
<1>1. Init => I
  BY DEF Init, CaptureInv, CorrelationCountsMoves, StampsAreOfTheScreen, FailuresTyped
<1>2. I /\ [Next]_vars => I'
  <2> SUFFICES ASSUME I, [Next]_vars PROVE I'
    OBVIOUS
  <2>1. CASE Next
    BY <2>1, CaptureStep
  <2>2. CASE UNCHANGED vars
    BY <2>2 DEF vars, CaptureInv, CorrelationCountsMoves, StampsAreOfTheScreen, FailuresTyped
  <2> QED
    BY <2>1, <2>2
<1> QED
  BY <1>1, <1>2, PTL DEF Spec

(* A failed call that got an answer has one class, one signature and one parent  *)
(* reference, whichever hooks report it, from whatever screens, under whatever   *)
(* hint and names and in as many wrappers as unwrap peels (classifier.ts,        *)
(* buildEnvelope), from callers who give the same broken rules and no other      *)
(* call's response.                                                              *)
THEOREM HooksDescribeAlike == Spec => []HooksAgree
<1>1. CaptureInv => HooksAgree
  <2> SUFFICES ASSUME CaptureInv, NEW r \in rows, NEW s \in rows, r.of = s.of,
                      failures[r.of].error.http, failures[r.of].error.status # 0,
                      r.wraps <= Peels, s.wraps <= Peels,
                      OfItself(r), OfItself(s), r.keys = s.keys
               PROVE  /\ r.envelope.class = s.envelope.class
                      /\ r.envelope.signature = s.envelope.signature
                      /\ r.envelope.parent = s.envelope.parent
    BY DEF HooksAgree
  <2> DEFINE e == failures[r.of].error
  <2>1. DescribedAlike(e, r.keys, r.envelope) /\ DescribedAlike(e, r.keys, s.envelope)
    BY DEF CaptureInv, RowFits, Answered, OfItself
  <2> QED
    BY <2>1 DEF DescribedAlike
<1> QED
  BY <1>1, CaptureInvariance, PTL

(* The row of a failed call has the id its request was stamped with unless the   *)
(* user navigated in between: the interceptor and buildEnvelope read the same    *)
(* context (context.service.ts).                                                 *)
THEOREM RowsJoined == Spec => []JoinedUnlessMoved
<1>1. CaptureInv => JoinedUnlessMoved
  <2> SUFFICES ASSUME CaptureInv, NEW r \in rows, failures[r.of].stamp # None,
                      failures[r.of].stamp.on = r.envelope.on
               PROVE  failures[r.of].stamp.correlation = r.envelope.correlation
    BY DEF JoinedUnlessMoved
  <2>1. r.of \in DOMAIN failures /\ r.envelope.correlation = r.envelope.on
    BY DEF CaptureInv, RowFits
  <2>2. failures[r.of].stamp \in Stamps
    BY <2>1, FailureTyped DEF CaptureInv
  <2>3. \A stamp \in Stamps : stamp.correlation = stamp.on
    BY DEF Stamps
  <2> QED
    BY <2>1, <2>2, <2>3
<1> QED
  BY <1>1, CaptureInvariance, PTL

-----------------------------------------------------------------------------
(* Counting up, without a schema of induction: what the recursive functions of   *)
(* CapturedInput are is proved with it.                                          *)

(* Every set of numbers has a least one: an induction without a schema.         *)
LEMMA LeastNumber ==
    ASSUME NEW T, T \subseteq Nat, T # {}
    PROVE  \E n \in T : \A m \in T : n <= m
<1> DEFINE R == OpToRel(<, Nat)
<1>1. IsWellFoundedOn(R, Nat)
  BY NatLessThanWellFounded
<1>2. PICK n \in T : \A m \in T : <<m, n>> \notin R
  <2> HIDE DEF R
  <2> QED BY <1>1, WFMin
<1>3. \A m \in T : ~ (m < n)
  BY <1>2 DEF OpToRel
<1> QED
  BY <1>3

(* A set of the numbers up to n that has 0 and the successors is all of them.   *)
LEMMA CountingUp ==
    ASSUME NEW n \in Nat, NEW S, 0 \in S, \A i \in 0 .. n - 1 : i \in S => i + 1 \in S
    PROVE  0 .. n \subseteq S
<1> DEFINE T == {i \in 0 .. n : i \notin S}
<1> SUFFICES ASSUME T # {} PROVE FALSE
  OBVIOUS
<1>1. PICK i \in T : \A j \in T : i <= j
  <2>1. T \subseteq Nat  OBVIOUS
  <2> HIDE DEF T
  <2> QED BY <2>1, LeastNumber
<1>2. i # 0 /\ i \in 0 .. n  OBVIOUS
<1>3. i - 1 \in 0 .. n - 1 /\ i - 1 \notin T  BY <1>1, <1>2
<1>4. i - 1 \in S  BY <1>3
<1>5. (i - 1) + 1 \in S  BY <1>3, <1>4
<1> QED BY <1>2, <1>5

-----------------------------------------------------------------------------
(* What the recursive functions are: each satisfies its equation, because a     *)
(* function that does exists for every number of levels.                        *)

\* The values along a path.
IsTrail(at, v, path) ==
    /\ at[0] = v /\ At(v, path) = at[Len(path)]
    /\ \A i \in 1 .. Len(path) : at[i] = Part(at[i - 1], path[i])

LEMMA AtSteps ==
    ASSUME NEW v, NEW path, Len(path) \in Nat
    PROVE  \E at : IsTrail(at, v, path)
<1> DEFINE n == Len(path)
           Fits(f, k) == f = [i \in 0 .. k |-> IF i = 0 THEN v ELSE Part(f[i - 1], path[i])]
           Levels == {k \in 0 .. n : \E f : Fits(f, k)}
           at == CHOOSE f : Fits(f, n)
<1>1. 0 \in Levels
  <2> DEFINE f == [i \in 0 .. 0 |-> v]
  <2>1. Fits(f, 0)  OBVIOUS
  <2>2. 0 \in 0 .. n  OBVIOUS
  <2> HIDE DEF f, Fits
  <2> QED BY <2>1, <2>2
<1>2. ASSUME NEW k \in 0 .. n - 1, k \in Levels PROVE k + 1 \in Levels
  <2>1. PICK f : Fits(f, k)  BY <1>2
  <2> DEFINE g == [i \in 0 .. k + 1 |-> IF i = k + 1 THEN Part(f[k], path[k + 1]) ELSE f[i]]
  <2>2. ASSUME NEW i \in 0 .. k + 1
        PROVE  g[i] = IF i = 0 THEN v ELSE Part(g[i - 1], path[i])
    <3>1. CASE i = 0
      <4>1. g[0] = f[0]  OBVIOUS
      <4> QED BY <2>1, <3>1, <4>1
    <3>2. CASE i \in 1 .. k
      <4>1. i - 1 \in 0 .. k /\ i \in 0 .. k  BY <3>2
      <4>2. g[i] = f[i] /\ g[i - 1] = f[i - 1]  BY <3>2, <4>1
      <4>3. f[i] = Part(f[i - 1], path[i])  BY <2>1, <3>2, <4>1
      <4> QED BY <3>2, <4>2, <4>3
    <3>3. CASE i = k + 1
      <4>1. g[k] = f[k]  OBVIOUS
      <4> QED BY <3>3, <4>1
    <3> QED BY <3>1, <3>2, <3>3
  <2>3. Fits(g, k + 1)
    <3> DEFINE h == [i \in 0 .. k + 1 |-> IF i = 0 THEN v ELSE Part(g[i - 1], path[i])]
    <3>1. \A i \in 0 .. k + 1 : g[i] = h[i]  BY <2>2
    <3>2. g = h  BY <3>1
    <3> QED BY <3>2
  <2>4. k + 1 \in 0 .. n  OBVIOUS
  <2> QED BY <2>3, <2>4
<1>3. n \in Levels
  <2>1. n \in Nat /\ n \in 0 .. n  OBVIOUS
  <2>2. 0 .. n \subseteq Levels
    <3> HIDE DEF Levels, n
    <3> QED BY <1>1, <1>2, <2>1, CountingUp
  <2> QED BY <2>1, <2>2
<1>4. Fits(at, n)
  BY <1>3
<1>5. At(v, path) = at[n]
  BY DEF At
<1>6. IsTrail(at, v, path)
  <2> HIDE DEF at
  <2> QED BY <1>4, <1>5 DEF IsTrail
<1> QED
  BY <1>6

\* The deepest level needs none below it.
LEMMA RedactAtTheBottom ==
    \A v, x, y : Redact(v, MaxDepth + 1, x) = Redact(v, MaxDepth + 1, y)
BY DepthAssumption DEF Redact

LEMMA RedactUnfolds ==
    ASSUME NEW depth \in 0 .. MaxDepth + 1, NEW v \in JsonValues
    PROVE  RedactFrom[depth][v] = Redact(v, depth, RedactFrom[depth + 1])
<1> DEFINE n == MaxDepth + 1
           Row(f, d) == [w \in JsonValues |-> Redact(w, d, f[d + 1])]
           Fits(f, k) == f = [d \in n - k .. n |-> Row(f, d)]
           Levels == {k \in 0 .. n : \E f : Fits(f, k)}
<1>0. n \in Nat  BY DepthAssumption
<1>1. 0 \in Levels
  <2> DEFINE f == [d \in n - 0 .. n |-> [w \in JsonValues |-> Redact(w, d, << >>)]]
  <2>1. \A d \in n - 0 .. n : f[d] = Row(f, d)
    BY <1>0, RedactAtTheBottom
  <2>2. f = [d \in n - 0 .. n |-> Row(f, d)]
    <3> HIDE DEF Row
    <3> QED BY <2>1
  <2> HIDE DEF Row, f
  <2> QED BY <1>0, <2>2
<1>2. ASSUME NEW k \in 0 .. n - 1, k \in Levels PROVE k + 1 \in Levels
  <2>1. PICK f : Fits(f, k)  BY <1>2
  <2> DEFINE m == n - (k + 1)
             g == [d \in m .. n |-> IF d = m THEN Row(f, d) ELSE f[d]]
  <2>0. m \in Int /\ m + 1 = n - k /\ m + 1 \in n - k .. n  BY <1>0
  <2>2. ASSUME NEW d \in m .. n PROVE g[d] = Row(g, d)
    <3>1. CASE d = m
      <4>1. g[d + 1] = f[d + 1]  BY <2>0, <3>1
      <4> QED BY <3>1, <4>1
    <3>2. CASE d # m /\ d # n
      <4>1. d \in n - k .. n /\ d + 1 \in m .. n /\ d + 1 # m  BY <1>0, <3>2
      <4>2. g[d] = f[d] /\ g[d + 1] = f[d + 1]  BY <3>2, <4>1
      <4>3. f[d] = Row(f, d)  BY <2>1, <4>1
      <4> QED BY <4>2, <4>3
    <3>3. CASE d # m /\ d = n
      <4>1. d \in n - k .. n  BY <1>0, <3>3
      <4>2. g[d] = f[d]  BY <3>3
      <4>3. f[d] = Row(f, d)  BY <2>1, <4>1
      <4>4. Row(f, n) = Row(g, n)  BY RedactAtTheBottom
      <4> QED BY <3>3, <4>2, <4>3, <4>4
    <3> QED BY <3>1, <3>2, <3>3
  <2>3. Fits(g, k + 1)
    <3> HIDE DEF Row
    <3> QED BY <2>2
  <2>4. k + 1 \in 0 .. n  BY <1>0
  <2> HIDE DEF Fits
  <2> QED BY <2>3, <2>4
<1>3. n \in Levels
  <2> HIDE DEF Levels
  <2> QED BY <1>0, <1>1, <1>2, CountingUp
<1>4. \E f : f = [d \in 0 .. n |-> Row(f, d)]
  <2>1. n - n = 0  BY <1>0
  <2> HIDE DEF Row
  <2> QED BY <1>3, <2>1
<1>5. RedactFrom = [d \in 0 .. n |-> Row(RedactFrom, d)]
  <2>1. RedactFrom = CHOOSE f : f = [d \in 0 .. n |-> Row(f, d)]  BY DEF RedactFrom
  <2> HIDE DEF Row
  <2> QED BY <1>4, <2>1
<1>6. RedactFrom[depth] = Row(RedactFrom, depth)  
  <2> HIDE DEF Row
  <2> QED BY <1>5
<1> QED
  BY <1>6

-----------------------------------------------------------------------------
(* What a path leads to before and after.                                       *)

Steps == [key : STRING, index : Nat]

\* A value that went through redactObject at its depth.
Walked(path, i, was, left) ==
    /\ i <= MaxDepth + 1 /\ was \in JsonValues /\ left = RedactFrom[i][was]
    /\ i = 0 \/ path[i].index > 0 \/ IsNested(was)

\* A member that did not.
Judged(path, i, was, left) ==
    /\ i > 0 /\ path[i].index = 0 /\ was \in JsonValues /\ ~ IsNested(was)
    /\ left = KeepScalar(path[i].key, was)

\* Nothing, where there was nothing, or it was too deep or too far down an array.
Gone(path, i, was, left) ==
    /\ left = Nowhere
    /\ was = Nowhere \/ i > MaxDepth + 1 \/ \E j \in 1 .. i : path[j].index > MaxItems

\* How many elements an array had beyond those kept.
Counted(path, i, left) == i > 0 /\ path[i].index > MaxItems /\ left.is = "more"

\* What stands for a FormData or a Blob, none of which was there.
FieldNames(path, i, left) ==
    \/ /\ i > 0 /\ path[i] = Key("[FormData]")
       /\ \E names \in Seq(STRING) : left = Array([j \in DOMAIN names |-> Text(names[j])])
    \/ i > 1 /\ path[i - 1] = Key("[FormData]") /\ left.is = "text"
SizeOf(left) ==
    \/ \E size : left = Object([j \in {"size"} |-> Number(size)])
    \/ left.is = "number"

Corresponds(path, i, was, left) ==
    \/ Walked(path, i, was, left)
    \/ Judged(path, i, was, left)
    \/ Gone(path, i, was, left)
    \/ Counted(path, i, left)
    \/ was = Nowhere /\ (FieldNames(path, i, left) \/ SizeOf(left))

\* A value that is no container has no parts.
LEMMA NoParts ==
    ASSUME NEW v, v.is \notin {"array", "object"}, NEW step
    PROVE  Part(v, step) = Nowhere
BY DEF Part

LEMMA KindOfValue ==
    ASSUME NEW v \in JsonValues
    PROVE  \/ v.is = "null" /\ v = Absent
           \/ v.is = "text" /\ v = Text(v.text)
           \/ v.is = "number" /\ v = Number(v.number)
           \/ v.is = "date" /\ v = Date(v.date)
           \/ v.is = "form" /\ v.keys \in Seq(STRING)
           \/ v.is = "blob"
           \/ v.is = "array" /\ v.items \in Seq(JsonValues)
           \/ v.is = "object" /\ \A k \in DOMAIN v.members : v.members[k] \in JsonValues
<1>1. Absent.is = "null"  BY DEF Absent
<1> QED BY <1>1, JsonAssumption

LEMMA WalkedGoesOn ==
    ASSUME NEW path \in Seq(Steps), NEW i \in 0 .. Len(path) - 1, NEW was, NEW left,
           Walked(path, i, was, left)
    PROVE  Corresponds(path, i + 1, Part(was, path[i + 1]), Part(left, path[i + 1]))
<1> DEFINE step == path[i + 1]
           below == RedactFrom[i + 1]
<1>0. /\ i \in Nat /\ i + 1 \in 1 .. Len(path) /\ step \in Steps /\ i + 1 > 0
      /\ MaxDepth \in Nat /\ MaxItems \in Nat
  BY DepthAssumption
<1>1. was \in JsonValues /\ i \in 0 .. MaxDepth + 1
  BY <1>0 DEF Walked
<1>2. left = Redact(was, i, below)
  BY <1>1, RedactUnfolds DEF Walked
<1>3. ASSUME Part(left, step) = Nowhere, Part(was, step) = Nowhere \/ i + 1 > MaxDepth + 1
      PROVE  Corresponds(path, i + 1, Part(was, step), Part(left, step))
  BY <1>3 DEF Corresponds, Gone
<1> HIDE DEF step, below
<1>4. CASE was.is = "null"
  <2>1. left = was  BY <1>2, <1>4 DEF Redact
  <2> QED BY <1>3, <1>4, <2>1, NoParts DEF step
<1>5. CASE was.is # "null" /\ i > MaxDepth
  <2>0. ~ (i <= MaxDepth)  BY <1>0, <1>5
  <2>1. left = TooDeep /\ left.is = "text"  BY <1>2, <1>5, <2>0 DEF Redact, TooDeep, Text
  <2>2. i + 1 > MaxDepth + 1  BY <1>0, <1>5
  <2>3. Part(left, step) = Nowhere  BY <2>1, NoParts
  <2> QED BY <1>3, <2>2, <2>3 DEF step
<1>6. CASE was.is = "array" /\ i <= MaxDepth
  <2> DEFINE items == was.items
             rest == RedactItems(items, below)
  <2>1. items \in Seq(JsonValues) /\ Len(items) \in Nat /\ DOMAIN items = 1 .. Len(items)
    BY <1>1, <1>6, KindOfValue
  <2>2. left = Array(rest)
    BY <1>2, <1>6 DEF Redact
  <2>3. left.is = "array" /\ left.items = rest
    BY <2>2 DEF Array
  <2>4. DOMAIN rest = 1 .. (IF Len(items) > MaxItems THEN MaxItems + 1 ELSE Len(items))
    BY DEF RedactItems
  <2>5. Part(was, step) = IF step.index \in DOMAIN items THEN items[step.index] ELSE Nowhere
    BY <1>6 DEF Part
  <2>6. Part(left, step) = IF step.index \in DOMAIN rest THEN rest[step.index] ELSE Nowhere
    BY <2>3 DEF Part
  <2>7. step.index \in Nat  BY <1>0 DEF Steps
  <2>8. CASE step.index \notin DOMAIN items
    <3>1. step.index \notin DOMAIN rest  BY <1>0, <2>1, <2>4, <2>7, <2>8
    <3> QED BY <1>3, <2>5, <2>6, <2>8, <3>1 DEF step
  <2>9. CASE step.index \in DOMAIN items /\ step.index > MaxItems
    <3>1. CASE step.index \in DOMAIN rest
      <4>1. rest[step.index] = More(Len(items) - MaxItems)
        BY <2>4, <2>9, <3>1 DEF RedactItems
      <4>2. Counted(path, i + 1, Part(left, step))
        BY <1>0, <2>6, <2>9, <3>1, <4>1 DEF Counted, More, step
      <4> QED BY <4>2 DEF Corresponds, step
    <3>2. CASE step.index \notin DOMAIN rest
      <4>1. \E j \in 1 .. i + 1 : path[j].index > MaxItems
        BY <1>0, <2>9 DEF step
      <4>2. Gone(path, i + 1, Part(was, step), Part(left, step))
        BY <2>6, <3>2, <4>1 DEF Gone
      <4> QED BY <4>2 DEF Corresponds, step
    <3> QED BY <3>1, <3>2
  <2>10. CASE step.index \in DOMAIN items /\ ~ (step.index > MaxItems)
    <3>1. step.index \in DOMAIN rest  BY <1>0, <2>1, <2>4, <2>7, <2>10
    <3>2. rest[step.index] = below[items[step.index]]
      BY <2>4, <2>10, <3>1 DEF RedactItems
    <3>3. items[step.index] \in JsonValues  BY <2>1, <2>10
    <3>4. Walked(path, i + 1, Part(was, step), Part(left, step))
      BY <1>0, <1>6, <2>1, <2>5, <2>6, <2>10, <3>1, <3>2, <3>3 DEF Walked, step, below
    <3> QED BY <3>4 DEF Corresponds, step
  <2> QED BY <2>8, <2>9, <2>10
<1>7. CASE was.is = "object" /\ i <= MaxDepth
  <2> DEFINE rest == [k \in DOMAIN was.members |-> RedactMember(k, was.members[k], below)]
  <2>1. \A k \in DOMAIN was.members : was.members[k] \in JsonValues
    BY <1>1, <1>7, KindOfValue
  <2>2. left = Object(rest)
    BY <1>2, <1>7 DEF Redact
  <2>3. left.is = "object" /\ left.members = rest /\ DOMAIN rest = DOMAIN was.members
    BY <2>2 DEF Object
  <2>4. CASE step.index = 0 /\ step.key \in DOMAIN was.members
    <3> DEFINE v == was.members[step.key]
    <3>1. Part(was, step) = v /\ v \in JsonValues  BY <1>7, <2>1, <2>4 DEF Part
    <3>2. Part(left, step) = RedactMember(step.key, v, below)
      BY <2>3, <2>4 DEF Part
    <3>3. CASE IsNested(v)
      <4>1. Part(left, step) = below[v]  BY <3>2, <3>3 DEF RedactMember
      <4>2. Walked(path, i + 1, Part(was, step), Part(left, step))
        BY <1>0, <1>7, <3>1, <3>3, <4>1 DEF Walked, below
      <4> QED BY <4>2 DEF Corresponds, step
    <3>4. CASE ~ IsNested(v)
      <4>1. Part(left, step) = KeepScalar(step.key, v)  BY <3>2, <3>4 DEF RedactMember
      <4>2. Judged(path, i + 1, Part(was, step), Part(left, step))
        BY <1>0, <2>4, <3>1, <3>4, <4>1 DEF Judged, step
      <4> QED BY <4>2 DEF Corresponds, step
    <3> QED BY <3>3, <3>4
  <2>5. CASE ~ (step.index = 0 /\ step.key \in DOMAIN was.members)
    <3>1. Part(was, step) = Nowhere /\ Part(left, step) = Nowhere
      BY <1>7, <2>3, <2>5 DEF Part
    <3> QED BY <1>3, <3>1 DEF step
  <2> QED BY <2>4, <2>5
<1>8. CASE was.is = "form" /\ i <= MaxDepth
  <2> DEFINE names == [j \in DOMAIN was.keys |-> Text(was.keys[j])]
             rest == [k \in {"[FormData]"} |-> Array(names)]
  <2>1. was.keys \in Seq(STRING)  BY <1>1, <1>8, KindOfValue
  <2>2. left = Object(rest)  BY <1>2, <1>8 DEF Redact
  <2>3. left.is = "object" /\ left.members = rest  BY <2>2 DEF Object
  <2>4. Part(was, step) = Nowhere  BY <1>8, NoParts
  <2>5. CASE step.index = 0 /\ step.key = "[FormData]"
    <3>1. Part(left, step) = Array(names)  BY <2>3, <2>5 DEF Part
    <3>2. step = Key("[FormData]")  BY <1>0, <2>5 DEF Steps, Key
    <3>3. FieldNames(path, i + 1, Part(left, step))
      BY <1>0, <2>1, <3>1, <3>2 DEF FieldNames, step
    <3> QED BY <2>4, <3>3 DEF Corresponds, step
  <2>6. CASE ~ (step.index = 0 /\ step.key = "[FormData]")
    <3>1. Part(left, step) = Nowhere  BY <2>3, <2>6 DEF Part
    <3> QED BY <1>3, <2>4, <3>1 DEF step
  <2> QED BY <2>5, <2>6
<1>9. CASE was.is = "blob" /\ i <= MaxDepth
  <2> DEFINE rest == [k \in {"[Blob]"} |-> Object([j \in {"size"} |-> Number(was.size)])]
  <2>2. left = Object(rest)  BY <1>2, <1>9 DEF Redact
  <2>3. left.is = "object" /\ left.members = rest  BY <2>2 DEF Object
  <2>4. Part(was, step) = Nowhere  BY <1>9, NoParts
  <2>5. CASE step.index = 0 /\ step.key = "[Blob]"
    <3>1. Part(left, step) = Object([j \in {"size"} |-> Number(was.size)])
      BY <2>3, <2>5 DEF Part
    <3>2. SizeOf(Part(left, step))  BY <3>1 DEF SizeOf
    <3> QED BY <2>4, <3>2 DEF Corresponds, step
  <2>6. CASE ~ (step.index = 0 /\ step.key = "[Blob]")
    <3>1. Part(left, step) = Nowhere  BY <2>3, <2>6 DEF Part
    <3> QED BY <1>3, <2>4, <3>1 DEF step
  <2> QED BY <2>5, <2>6
<1>10. CASE was.is = "text" /\ i <= MaxDepth
  <2>1. left = Scrub(was.text)  BY <1>2, <1>10 DEF Redact
  <2>2. left.is = "text"  BY <2>1 DEF Scrub, Redacted, Text
  <2> QED BY <1>3, <1>10, <2>2, NoParts DEF step
<1>11. CASE was.is \in {"number", "date"} /\ i <= MaxDepth
  <2>1. left = was  BY <1>2, <1>11 DEF Redact
  <2> QED BY <1>3, <1>11, <2>1, NoParts DEF step
<1>12. was.is \in {"null", "array", "object", "form", "blob", "text", "number", "date"}
  BY <1>1, KindOfValue
<1> QED
  BY <1>0, <1>4, <1>5, <1>6, <1>7, <1>8, <1>9, <1>10, <1>11, <1>12

LEMMA CorrespondenceGoesOn ==
    ASSUME NEW path \in Seq(Steps), NEW i \in 0 .. Len(path) - 1, NEW was, NEW left,
           Corresponds(path, i, was, left)
    PROVE  Corresponds(path, i + 1, Part(was, path[i + 1]), Part(left, path[i + 1]))
<1> DEFINE step == path[i + 1]
<1>0. /\ i \in Nat /\ i + 1 \in 1 .. Len(path) /\ step \in Steps /\ i + 1 > 0
      /\ MaxDepth \in Nat /\ MaxItems \in Nat
  BY DepthAssumption
<1>1. CASE Walked(path, i, was, left)
  BY <1>1, WalkedGoesOn
<1> HIDE DEF step
<1>2. Part(Nowhere, step) = Nowhere
  BY DEF Part, Nowhere
<1>3. ASSUME Part(left, step) = Nowhere, Part(was, step) = Nowhere
      PROVE  Corresponds(path, i + 1, Part(was, step), Part(left, step))
  BY <1>3 DEF Corresponds, Gone
<1>4. CASE Judged(path, i, was, left)
  <2>1. was.is \in {"null", "text", "number"}
    BY <1>4 DEF Judged, IsNested
  <2>2. left.is \in {"null", "text", "number"}
    BY <1>4, <2>1 DEF Judged, KeepScalar, Redacted, Scrub, Text
  <2> QED BY <1>3, <2>1, <2>2, NoParts DEF step
<1>5. CASE Gone(path, i, was, left)
  <2>1. Part(left, step) = Nowhere  BY <1>2, <1>5 DEF Gone
  <2>2. CASE was = Nowhere  BY <1>2, <1>3, <2>1, <2>2 DEF step
  <2>3. CASE i > MaxDepth + 1
    <3>1. i + 1 > MaxDepth + 1  BY <1>0, <2>3
    <3> QED BY <2>1, <3>1 DEF Corresponds, Gone, step
  <2>4. CASE \E j \in 1 .. i : path[j].index > MaxItems
    <3>1. \E j \in 1 .. i + 1 : path[j].index > MaxItems  BY <1>0, <2>4
    <3> QED BY <2>1, <3>1 DEF Corresponds, Gone, step
  <2> QED BY <1>5, <2>2, <2>3, <2>4 DEF Gone
<1>6. CASE Counted(path, i, left)
  <2>1. Part(left, step) = Nowhere  BY <1>6, NoParts DEF Counted
  <2>2. \E j \in 1 .. i + 1 : path[j].index > MaxItems  BY <1>0, <1>6 DEF Counted
  <2> QED BY <2>1, <2>2 DEF Corresponds, Gone, step
<1>7. CASE was = Nowhere /\ FieldNames(path, i, left)
  <2>1. Part(was, step) = Nowhere  BY <1>2, <1>7
  <2>2. ASSUME NEW names \in Seq(STRING), i > 0, path[i] = Key("[FormData]"),
               left = Array([j \in DOMAIN names |-> Text(names[j])])
        PROVE  Corresponds(path, i + 1, Part(was, step), Part(left, step))
    <3>1. left.is = "array" /\ left.items = [j \in DOMAIN names |-> Text(names[j])]
      BY <2>2 DEF Array
    <3>2. CASE step.index \in DOMAIN names
      <4>1. Part(left, step) = Text(names[step.index])  BY <3>1, <3>2 DEF Part
      <4>2. Part(left, step).is = "text"  BY <4>1 DEF Text
      <4>3. FieldNames(path, i + 1, Part(left, step))
        BY <1>0, <2>2, <4>2 DEF FieldNames
      <4> QED BY <2>1, <4>3 DEF Corresponds, step
    <3>3. CASE step.index \notin DOMAIN names
      <4>1. Part(left, step) = Nowhere  BY <3>1, <3>3 DEF Part
      <4> QED BY <1>3, <2>1, <4>1
    <3> QED BY <3>2, <3>3
  <2>3. CASE left.is = "text"
    <3>1. Part(left, step) = Nowhere  BY <2>3, NoParts
    <3> QED BY <1>3, <2>1, <3>1 DEF step
  <2> QED BY <1>7, <2>2, <2>3 DEF FieldNames, step
<1>8. CASE was = Nowhere /\ SizeOf(left)
  <2>1. Part(was, step) = Nowhere  BY <1>2, <1>8
  <2>2. ASSUME NEW size, left = Object([j \in {"size"} |-> Number(size)])
        PROVE  Corresponds(path, i + 1, Part(was, step), Part(left, step))
    <3>1. left.is = "object" /\ left.members = [j \in {"size"} |-> Number(size)]
      BY <2>2 DEF Object
    <3>2. Part(left, step) \in {Number(size), Nowhere}  BY <3>1 DEF Part
    <3>3. CASE Part(left, step) = Number(size)
      <4>1. SizeOf(Part(left, step))  BY <3>3 DEF SizeOf, Number
      <4> QED BY <2>1, <4>1 DEF Corresponds
    <3> QED BY <1>3, <2>1, <3>2, <3>3
  <2>3. CASE left.is = "number"
    <3>1. Part(left, step) = Nowhere  BY <2>3, NoParts
    <3> QED BY <1>3, <2>1, <3>1 DEF step
  <2> QED BY <1>8, <2>2, <2>3 DEF SizeOf, step
<1> QED
  BY <1>1, <1>4, <1>5, <1>6, <1>7, <1>8 DEF Corresponds

LEMMA PathsCorrespond ==
    ASSUME NEW body \in JsonValues, NEW path \in Seq(Steps)
    PROVE  Corresponds(path, Len(path), At(body, path), At(RedactObject(body), path))
<1> DEFINE n == Len(path)
<1>0. n \in Nat  OBVIOUS
<1> DEFINE after == RedactObject(body)
<1>1. PICK f : IsTrail(f, body, path)
  BY <1>0, AtSteps
<1>2. PICK g : IsTrail(g, after, path)
  BY <1>0, AtSteps
<1> DEFINE Fit == {i \in 0 .. n : Corresponds(path, i, f[i], g[i])}
<1>3. 0 \in Fit
  <2>1. Walked(path, 0, f[0], g[0])
    BY <1>1, <1>2, DepthAssumption DEF IsTrail, Walked, RedactObject
  <2> QED BY <1>0, <2>1 DEF Corresponds
<1>4. ASSUME NEW i \in 0 .. n - 1, i \in Fit PROVE i + 1 \in Fit
  <2>1. i + 1 \in 1 .. n /\ (i + 1) - 1 = i  BY <1>0
  <2>2. f[i + 1] = Part(f[i], path[i + 1]) /\ g[i + 1] = Part(g[i], path[i + 1])
    BY <1>1, <1>2, <2>1 DEF IsTrail
  <2>3. Corresponds(path, i + 1, f[i + 1], g[i + 1])
    BY <1>4, <2>2, CorrespondenceGoesOn
  <2> QED BY <2>1, <2>3
<1>5. 0 .. n \subseteq Fit
  <2> HIDE DEF Fit, n
  <2> QED BY <1>0, <1>3, <1>4, CountingUp
<1>6. n \in Fit
  BY <1>0, <1>5
<1> QED
  BY <1>1, <1>2, <1>6 DEF IsTrail

\* What is left of a value at its depth.
LEMMA WalkedIsClean ==
    ASSUME NEW path, NEW i \in Nat, NEW was, NEW left, Walked(path, i, was, left)
    PROVE  /\ left.is \notin {"form", "blob", "nowhere"}
           /\ left.is = "text" => left.text \notin Credentials
<1>0. MaxDepth \in Nat  BY DepthAssumption
<1>1. left = Redact(was, i, RedactFrom[i + 1]) /\ was \in JsonValues
  BY <1>0, RedactUnfolds DEF Walked
<1>2. was.is \in {"null", "array", "object", "form", "blob", "text", "number", "date"}
  BY <1>1, KindOfValue
<1>3. CASE was.is = "null"
  <2>1. left = was  BY <1>1, <1>3 DEF Redact
  <2> QED BY <1>3, <2>1
<1>4. CASE was.is # "null" /\ i > MaxDepth
  <2>0. ~ (i <= MaxDepth)  BY <1>0, <1>4
  <2>1. left = TooDeep  BY <1>1, <1>4, <2>0 DEF Redact
  <2> QED BY <2>1, MaskAssumption DEF TooDeep, Text
<1>5. CASE was.is \in {"array", "object", "form", "blob"} /\ i <= MaxDepth
  <2>1. left.is \in {"array", "object"}  BY <1>1, <1>5 DEF Redact, Array, Object
  <2> QED BY <2>1
<1>6. CASE was.is = "text" /\ i <= MaxDepth
  <2>1. left = Scrub(was.text)  BY <1>1, <1>6 DEF Redact
  <2> QED BY <2>1, MaskAssumption DEF Scrub, Redacted, Text
<1>7. CASE was.is \in {"number", "date"} /\ i <= MaxDepth
  <2>1. left = was  BY <1>1, <1>7 DEF Redact
  <2> QED BY <1>7, <2>1
<1> QED
  BY <1>0, <1>2, <1>3, <1>4, <1>5, <1>6, <1>7

LEMMA JudgedIsClean ==
    ASSUME NEW path, NEW i, NEW was, NEW left, Judged(path, i, was, left)
    PROVE  /\ left.is \notin {"form", "blob", "nowhere"}
           /\ left.is = "text" => left.text \notin Credentials
           /\ path[i].key \notin AllowedKeys => left = Redacted
<1>1. was.is \in {"null", "text", "number"} /\ left = KeepScalar(path[i].key, was)
  BY DEF Judged, IsNested
<1> QED
  BY <1>1, MaskAssumption DEF KeepScalar, Redacted, Scrub, Text

\* What correspondence says where the path ends.
LEMMA CorrespondingIsClean ==
    ASSUME NEW path \in Seq(Steps), NEW was, NEW left, Corresponds(path, Len(path), was, left)
    PROVE  /\ OfMember(path) /\ EndsAt(path).key \notin AllowedKeys
                 /\ was.is \in {"text", "number"} => left \in {Redacted, Nowhere}
           /\ left.is = "text" /\ left.text \in Credentials => OfFieldName(path)
           /\ left.is \notin {"form", "blob"}
           /\ was # Nowhere /\ left = Nowhere =>
                 Len(path) > MaxDepth + 1 \/ \E i \in DOMAIN path : path[i].index > MaxItems
<1> DEFINE n == Len(path)
<1>0. /\ n \in Nat /\ MaxItems \in Nat /\ DOMAIN path = 1 .. n
      /\ path # << >> => n > 0 /\ EndsAt(path) = path[n]
  BY DepthAssumption DEF EndsAt
<1>1. Nowhere.is = "nowhere"
  BY DEF Nowhere
<1> HIDE DEF n
<1>2. CASE Walked(path, n, was, left)
  <2>1. /\ left.is \notin {"form", "blob", "nowhere"}
        /\ left.is = "text" => left.text \notin Credentials
    BY <1>0, <1>2, WalkedIsClean
  <2>2. ~ (OfMember(path) /\ was.is \in {"text", "number"})
    BY <1>0, <1>2 DEF OfMember, Walked, IsNested
  <2> QED BY <1>1, <2>1, <2>2
<1>3. CASE Judged(path, n, was, left)
  <2>1. /\ left.is \notin {"form", "blob", "nowhere"}
        /\ left.is = "text" => left.text \notin Credentials
        /\ path[n].key \notin AllowedKeys => left = Redacted
    BY <1>3, JudgedIsClean
  <2> QED BY <1>0, <1>1, <2>1 DEF OfMember
<1>4. CASE Gone(path, n, was, left)
  BY <1>0, <1>1, <1>4 DEF Gone, n
<1>5. CASE Counted(path, n, left)
  <2>1. ~ OfMember(path)  BY <1>0, <1>5 DEF OfMember, Counted
  <2> QED BY <1>1, <1>5, <2>1 DEF Counted
<1>6. CASE was = Nowhere /\ FieldNames(path, n, left)
  <2>1. left.is = "text" => OfFieldName(path)
    BY <1>0, <1>6 DEF FieldNames, OfFieldName, Array, n
  <2>2. left.is \in {"text", "array"}
    BY <1>6 DEF FieldNames, Array
  <2> QED BY <1>1, <1>6, <2>1, <2>2
<1>7. CASE was = Nowhere /\ SizeOf(left)
  <2>1. left.is \in {"number", "object"}
    BY <1>7 DEF SizeOf, Object
  <2> QED BY <1>1, <1>7, <2>1
<1> QED
  BY <1>2, <1>3, <1>4, <1>5, <1>6, <1>7 DEF Corresponds, n

-----------------------------------------------------------------------------
(* What was kept is what the code makes of what was given, and nothing of the   *)
(* capture before.                                                              *)
KeptFollowsGiven ==
    /\ given.what = "request" =>
          /\ given.body \in JsonValues /\ kept.body = RedactObject(given.body)
          /\ {given.headers, given.query} \subseteq Seq(STRING \X STRING)
          /\ kept.headers = RedactHeaders(given.headers)
          /\ kept.query = RedactQueryString(given.query)
    /\ given.what = "form" =>
          given.form \in Controls[Deepest] /\ kept.errors = CollectErrors(given.form)

(* The invariant of both theorems below: a capture never keeps what an earlier  *)
(* one was given.                                                               *)
LEMMA AlwaysKeptFollowsGiven == InputSpec => []KeptFollowsGiven
<1>1. InitInput => KeptFollowsGiven
  BY DEF InitInput, Nothing, KeptFollowsGiven
<1>2. KeptFollowsGiven /\ [NextInput]_inputVars => KeptFollowsGiven'
  <2> SUFFICES ASSUME KeptFollowsGiven, [NextInput]_inputVars PROVE KeptFollowsGiven'
    OBVIOUS
  <2>1. ASSUME NEW body \in Bodies, NEW headers \in HeaderLists, NEW query \in Queries,
               CaptureRequest(body, headers, query)
        PROVE  KeptFollowsGiven'
    <3>1. /\ given'.what = "request" /\ given'.body = body /\ given'.headers = headers
          /\ given'.query = query
          /\ kept'.body = RedactObject(body) /\ kept'.headers = RedactHeaders(headers)
          /\ kept'.query = RedactQueryString(query)
      BY <2>1 DEF CaptureRequest
    <3>2. body \in JsonValues /\ {headers, query} \subseteq Seq(STRING \X STRING)
      BY InputAssumption
    <3> QED BY <3>1, <3>2 DEF KeptFollowsGiven
  <2>2. ASSUME NEW form \in Forms, ReportInvalidForm(form)
        PROVE  KeptFollowsGiven'
    <3>1. given'.what = "form" /\ given'.form = form /\ kept'.errors = CollectErrors(form)
      BY <2>2 DEF ReportInvalidForm
    <3> QED BY <3>1, InputAssumption DEF KeptFollowsGiven
  <2>3. ASSUME NEW result \in Results, ReportFailureResult(result)
        PROVE  KeptFollowsGiven'
    <3>1. given'.what = "result"
      BY <2>3 DEF ReportFailureResult
    <3> QED BY <3>1 DEF KeptFollowsGiven
  <2>4. CASE UNCHANGED inputVars
    BY <2>4 DEF inputVars, KeptFollowsGiven
  <2> QED BY <2>1, <2>2, <2>3, <2>4 DEF NextInput
<1> QED
  BY <1>1, <1>2, PTL DEF InputSpec

\* The last of the pairs with a name.
LastOf(pairs, k) == SelectLastInSeq(pairs, LAMBDA p : p[1] = k)

LEMMA LastOfName ==
    ASSUME NEW pairs \in Seq(STRING \X STRING), NEW k, NEW i \in DOMAIN pairs, pairs[i][1] = k
    PROVE  LET n == LastOf(pairs, k)
           IN  /\ n \in DOMAIN pairs /\ pairs[n][1] = k
               /\ \A j \in DOMAIN pairs : pairs[j][1] = k => j <= n
<1> DEFINE N == Len(pairs)
           I == {j \in 1 .. N : pairs[j][1] = k}
           T == {N - j : j \in I}
<1>1. N \in Nat /\ DOMAIN pairs = 1 .. N
  OBVIOUS
<1> HIDE DEF N
<1>2. i \in I
  BY <1>1
<1>3. T \subseteq Nat /\ T # {}
  BY <1>1, <1>2
<1>4. PICK t \in T : \A m \in T : t <= m
  <2> HIDE DEF T
  <2> QED BY <1>3, LeastNumber
<1>5. PICK n \in I : t = N - n
  BY <1>4
<1>6. ASSUME NEW j \in I
      PROVE  n >= j
  <2>1. N - j \in T
    OBVIOUS
  <2>2. N - n <= N - j
    BY <2>1, <1>4, <1>5
  <2>3. n \in Nat /\ j \in Nat
    BY <1>1
  <2> QED BY <2>2, <2>3, <1>1
<1> DEFINE last == Max(I)
<1>7. last \in I /\ \A j \in I : last >= j
  <2> HIDE DEF I
  <2> QED BY <1>5, <1>6 DEF Max
<1>8. LastOf(pairs, k) = last
  BY <1>2 DEF LastOf, SelectLastInSeq, N
<1> HIDE DEF last
<1> QED BY <1>1, <1>7, <1>8

LEMMA NamedAreKept ==
    ASSUME NEW pairs \in Seq(STRING \X STRING), NEW allowed
    PROVE  NamesKept(pairs, allowed, RedactNamed(pairs, allowed))
<1> DEFINE left == RedactNamed(pairs, allowed)
           names == {pairs[i][1] : i \in DOMAIN pairs}
<1>1. DOMAIN left = names
  BY DEF RedactNamed
<1>2. \A k \in names : left[k] = IF k \notin allowed THEN Redacted ELSE Scrub(pairs[LastOf(pairs, k)][2])
  BY DEF RedactNamed, LastOf
<1> HIDE DEF left
<1>3. ASSUME NEW i \in DOMAIN pairs
      PROVE  LET name == pairs[i][1]
                 last == \A j \in DOMAIN pairs : pairs[j][1] = name => j <= i
             IN  /\ left[name].is = "text" /\ left[name].text \notin Credentials
                 /\ name \notin allowed => left[name] = Redacted
                 /\ name \in allowed /\ last /\ pairs[i][2] \notin Credentials =>
                       left[name] = Text(pairs[i][2])
  <2> DEFINE name == pairs[i][1]
             n == LastOf(pairs, name)
  <2>1. name \in names
    OBVIOUS
  <2>2. left[name] = IF name \notin allowed THEN Redacted ELSE Scrub(pairs[n][2])
    BY <1>2, <2>1
  <2>3. /\ n \in DOMAIN pairs /\ pairs[n][1] = name
        /\ \A j \in DOMAIN pairs : pairs[j][1] = name => j <= n
    BY LastOfName
  <2> HIDE DEF n
  <2>4. (\A j \in DOMAIN pairs : pairs[j][1] = name => j <= i) => i = n
    BY <2>3
  <2>5. \A x : /\ Scrub(x).is = "text" /\ Scrub(x).text \notin Credentials
               /\ x \notin Credentials => Scrub(x) = Text(x)
    BY MaskAssumption DEF Scrub, Text, Redacted
  <2>6. Redacted.is = "text" /\ Redacted.text \notin Credentials
    BY MaskAssumption DEF Redacted, Text
  <2> HIDE DEF name
  <2>7. /\ left[name].is = "text" /\ left[name].text \notin Credentials
        /\ name \notin allowed => left[name] = Redacted
        /\ name \in allowed /\ (\A j \in DOMAIN pairs : pairs[j][1] = name => j <= i)
              /\ pairs[i][2] \notin Credentials => left[name] = Text(pairs[i][2])
    BY <2>2, <2>4, <2>5, <2>6
  <2> QED BY <2>7 DEF name
<1> QED BY <1>1, <1>3 DEF NamesKept, left

(* RedactionKeepsOnlyNamed, for bodies of any depth and width and for every     *)
(* allow list: what a path leads to before and after correspond, all the way;   *)
(* and for any headers and query parameters.                                    *)
THEOREM AlwaysRedactionKeepsOnlyNamed == InputSpec => []RedactionKeepsOnlyNamed
<1>1. ASSUME KeptFollowsGiven, given.what = "request", NEW path \in ValuePaths
      PROVE  LET was == At(given.body, path)
                 left == At(kept.body, path)
             IN  /\ OfMember(path) /\ EndsAt(path).key \notin AllowedKeys
                       /\ was.is \in {"text", "number"} => left \in {Redacted, Nowhere}
                 /\ left.is = "text" /\ left.text \in Credentials => OfFieldName(path)
                 /\ left.is \notin {"form", "blob"}
                 /\ was # Nowhere /\ left = Nowhere =>
                       Len(path) > MaxDepth + 1 \/ \E i \in DOMAIN path : path[i].index > MaxItems
  <2>1. path \in Seq(Steps)  BY InputAssumption DEF Steps
  <2>2. given.body \in JsonValues /\ kept.body = RedactObject(given.body)
    BY <1>1 DEF KeptFollowsGiven
  <2> DEFINE was == At(given.body, path)
             left == At(kept.body, path)
  <2>3. Corresponds(path, Len(path), was, left)
    BY <2>1, <2>2, PathsCorrespond
  <2> HIDE DEF was, left
  <2>4. /\ OfMember(path) /\ EndsAt(path).key \notin AllowedKeys
              /\ was.is \in {"text", "number"} => left \in {Redacted, Nowhere}
        /\ left.is = "text" /\ left.text \in Credentials => OfFieldName(path)
        /\ left.is \notin {"form", "blob"}
        /\ was # Nowhere /\ left = Nowhere =>
              Len(path) > MaxDepth + 1 \/ \E i \in DOMAIN path : path[i].index > MaxItems
    BY <2>1, <2>3, CorrespondingIsClean
  <2> QED BY <2>4 DEF was, left
<1>2. ASSUME KeptFollowsGiven, given.what = "request"
      PROVE  /\ NamesKept(given.headers, AllowedHeaders, kept.headers)
             /\ NamesKept(given.query, AllowedKeys, kept.query)
  <2>1. /\ given.headers \in Seq(STRING \X STRING) /\ given.query \in Seq(STRING \X STRING)
        /\ kept.headers = RedactNamed(given.headers, AllowedHeaders)
        /\ kept.query = RedactNamed(given.query, AllowedKeys)
    BY <1>2 DEF KeptFollowsGiven, RedactHeaders, RedactQueryString
  <2> QED BY <2>1, NamedAreKept
<1>3. KeptFollowsGiven => RedactionKeepsOnlyNamed
  BY <1>1, <1>2, Zenon DEF RedactionKeepsOnlyNamed
<1> QED
  BY <1>3, AlwaysKeptFollowsGiven, PTL

-----------------------------------------------------------------------------
(* Flattening: the sequences one after the other.                               *)

\* What is flattened of the first i sequences.
IsFlattening(f, seqs) ==
    /\ f[1] = seqs[1] /\ FlattenSeq(seqs) = f[Len(seqs)]
    /\ \A i \in 2 .. Len(seqs) : f[i] = f[i - 1] \o seqs[i]

LEMMA FlattenSteps ==
    ASSUME NEW seqs, Len(seqs) \in Nat \ {0}
    PROVE  \E f : IsFlattening(f, seqs)
<1> DEFINE n == Len(seqs)
           Join(s, i) == s \o seqs[i]
           Fits(f, k) == f = [i \in 1 .. k |-> IF i = 1 THEN seqs[i] ELSE Join(f[i - 1], i)]
           Levels == {k \in 0 .. n : \E f : Fits(f, k)}
           flatten == CHOOSE f : Fits(f, n)
<1> HIDE DEF Join
<1>1. 0 \in Levels
  <2> DEFINE f == [i \in 1 .. 0 |-> seqs[i]]
  <2>1. Fits(f, 0)  OBVIOUS
  <2>2. 0 \in 0 .. n  OBVIOUS
  <2> HIDE DEF f, Fits
  <2> QED BY <2>1, <2>2
<1>2. ASSUME NEW k \in 0 .. n - 1, k \in Levels PROVE k + 1 \in Levels
  <2>1. PICK f : Fits(f, k)  BY <1>2
  <2> DEFINE g == [i \in 1 .. k + 1 |->
                      IF i = k + 1 THEN IF k = 0 THEN seqs[1] ELSE Join(f[k], k + 1) ELSE f[i]]
  <2>2. ASSUME NEW i \in 1 .. k + 1
        PROVE  g[i] = IF i = 1 THEN seqs[i] ELSE Join(g[i - 1], i)
    <3>1. CASE i = k + 1 /\ k = 0
      BY <3>1
    <3>2. CASE i = k + 1 /\ k # 0
      <4>1. g[k] = f[k] /\ g[i] = Join(f[k], k + 1)  BY <3>2
      <4> QED BY <3>2, <4>1
    <3>3. CASE i # k + 1
      <4>1. i \in 1 .. k /\ g[i] = f[i]  BY <3>3
      <4>2. f[i] = IF i = 1 THEN seqs[i] ELSE Join(f[i - 1], i)  BY <2>1, <4>1
      <4>3. i # 1 => g[i - 1] = f[i - 1]  BY <4>1
      <4> QED BY <4>1, <4>2, <4>3
    <3> QED BY <3>1, <3>2, <3>3
  <2>3. Fits(g, k + 1)
    <3> DEFINE h == [i \in 1 .. k + 1 |-> IF i = 1 THEN seqs[i] ELSE Join(g[i - 1], i)]
    <3>1. \A i \in 1 .. k + 1 : g[i] = h[i]  BY <2>2
    <3>2. g = h  BY <3>1
    <3> QED BY <3>2
  <2>4. k + 1 \in 0 .. n  OBVIOUS
  <2> HIDE DEF Fits, g
  <2> QED BY <2>3, <2>4
<1>3. n \in Levels
  <2>1. n \in Nat /\ n \in 0 .. n  OBVIOUS
  <2>2. 0 .. n \subseteq Levels
    <3> HIDE DEF Levels, n
    <3> QED BY <1>1, <1>2, <2>1, CountingUp
  <2> QED BY <2>1, <2>2
<1>5. FlattenSeq(seqs) = flatten[n]
  BY DEF FlattenSeq, Join
<1>4. Fits(flatten, n)
  BY <1>3
<1>6. flatten[1] = seqs[1]
  <2> HIDE DEF flatten
  <2> QED BY <1>4
<1>7. \A i \in 2 .. n : flatten[i] = Join(flatten[i - 1], i)
  <2> HIDE DEF flatten
  <2> QED BY <1>4
<1> QED
  <2> HIDE DEF flatten
  <2> QED BY <1>5, <1>6, <1>7 DEF IsFlattening, Join

Holds(s, x) == \E i \in DOMAIN s : x = s[i]
NoneTwice(s) == \A i, j \in DOMAIN s : s[i] = s[j] => i = j

LEMMA ConcatHolds ==
    ASSUME NEW S, NEW s \in Seq(S), NEW u \in Seq(S)
    PROVE  /\ s \o u \in Seq(S)
           /\ \A x : Holds(s \o u, x) <=> Holds(s, x) \/ Holds(u, x)
           /\ NoneTwice(s) /\ NoneTwice(u) /\ (\A x : ~ (Holds(s, x) /\ Holds(u, x)))
                 => NoneTwice(s \o u)
<1> DEFINE w == s \o u
<1>1. w \in Seq(S) /\ Len(w) = Len(s) + Len(u) /\ Len(s) \in Nat /\ Len(u) \in Nat
  OBVIOUS
<1>2. \A i \in 1 .. Len(w) : w[i] = IF i <= Len(s) THEN s[i] ELSE u[i - Len(s)]
  OBVIOUS
<1>3. DOMAIN w = 1 .. Len(w) /\ DOMAIN s = 1 .. Len(s) /\ DOMAIN u = 1 .. Len(u)
  BY <1>1
<1> HIDE DEF w
<1>4. ASSUME NEW i \in DOMAIN w
      PROVE  IF i <= Len(s) THEN i \in DOMAIN s /\ w[i] = s[i]
             ELSE i - Len(s) \in DOMAIN u /\ w[i] = u[i - Len(s)]
  BY <1>1, <1>2, <1>3
<1>5. ASSUME NEW i \in DOMAIN s PROVE i \in DOMAIN w /\ w[i] = s[i]
  BY <1>1, <1>2, <1>3
<1>6. ASSUME NEW i \in DOMAIN u PROVE i + Len(s) \in DOMAIN w /\ w[i + Len(s)] = u[i]
  BY <1>1, <1>2, <1>3
<1>7. ASSUME NEW x PROVE Holds(w, x) <=> Holds(s, x) \/ Holds(u, x)
  BY <1>4, <1>5, <1>6 DEF Holds
<1>8. ASSUME NoneTwice(s), NoneTwice(u), \A x : ~ (Holds(s, x) /\ Holds(u, x)),
             NEW i \in DOMAIN w, NEW j \in DOMAIN w, w[i] = w[j]
      PROVE  i = j
  <2>1. CASE i <= Len(s) /\ j <= Len(s)
    BY <1>4, <1>8, <2>1 DEF NoneTwice
  <2>2. CASE i <= Len(s) /\ ~ (j <= Len(s))
    BY <1>4, <1>8, <2>2 DEF Holds
  <2>3. CASE ~ (i <= Len(s)) /\ j <= Len(s)
    BY <1>4, <1>8, <2>3 DEF Holds
  <2>4. CASE ~ (i <= Len(s)) /\ ~ (j <= Len(s))
    <3>1. i - Len(s) = j - Len(s)  BY <1>4, <1>8, <2>4 DEF NoneTwice
    <3> QED BY <1>1, <1>3, <3>1
  <2> QED BY <2>1, <2>2, <2>3, <2>4
<1> QED
  BY <1>1, <1>7, <1>8 DEF NoneTwice, w

LEMMA FlattenHolds ==
    ASSUME NEW S, NEW seqs \in Seq(Seq(S))
    PROVE  /\ FlattenSeq(seqs) \in Seq(S)
           /\ \A x : Holds(FlattenSeq(seqs), x) <=> \E j \in DOMAIN seqs : Holds(seqs[j], x)
           /\ /\ \A j \in DOMAIN seqs : NoneTwice(seqs[j])
              /\ \A j, k \in DOMAIN seqs :
                    \A x : Holds(seqs[j], x) /\ Holds(seqs[k], x) => j = k
              => NoneTwice(FlattenSeq(seqs))
<1> DEFINE n == Len(seqs)
           Separate == /\ \A j \in DOMAIN seqs : NoneTwice(seqs[j])
                       /\ \A j, k \in DOMAIN seqs :
                             \A x : Holds(seqs[j], x) /\ Holds(seqs[k], x) => j = k
<1>0. n \in Nat /\ DOMAIN seqs = 1 .. n
  OBVIOUS
<1>1. CASE n = 0
  <2>1. seqs = << >>  BY <1>1
  <2>2. FlattenSeq(seqs) = << >>  BY <2>1 DEF FlattenSeq
  <2>3. DOMAIN seqs = {} /\ << >> \in Seq(S) /\ DOMAIN << >> = {}  BY <2>1
  <2> QED BY <2>2, <2>3 DEF Holds, NoneTwice
<1>2. CASE n # 0
  <2>1. PICK f : IsFlattening(f, seqs)
    BY <1>0, <1>2, FlattenSteps
  <2> DEFINE Good(m) == /\ f[m] \in Seq(S)
                        /\ \A x : Holds(f[m], x) <=> \E j \in 1 .. m : Holds(seqs[j], x)
                        /\ Separate => NoneTwice(f[m])
             Fit == {i \in 0 .. n - 1 : Good(i + 1)}
  <2> HIDE DEF Separate
  <2>2. Good(1)
    <3>1. f[1] = seqs[1] /\ 1 \in DOMAIN seqs /\ seqs[1] \in Seq(S) /\ 1 .. 1 = {1}
      BY <1>0, <1>2, <2>1 DEF IsFlattening
    <3> QED BY <3>1 DEF Separate
  <2>3. ASSUME NEW m \in 1 .. n - 1, Good(m) PROVE Good(m + 1)
    <3>1. m + 1 \in 2 .. n /\ m + 1 \in DOMAIN seqs /\ (m + 1) - 1 = m  BY <1>0
    <3>2. f[m + 1] = f[m] \o seqs[m + 1]
      BY <2>1, <3>1 DEF IsFlattening, n
    <3>3. f[m] \in Seq(S) /\ seqs[m + 1] \in Seq(S)  BY <2>3, <3>1
    <3>4. 1 .. m + 1 = (1 .. m) \cup {m + 1}  BY <1>0
    <3>5. /\ f[m + 1] \in Seq(S)
          /\ \A x : Holds(f[m + 1], x) <=> Holds(f[m], x) \/ Holds(seqs[m + 1], x)
          /\ NoneTwice(f[m]) /\ NoneTwice(seqs[m + 1])
                /\ (\A x : ~ (Holds(f[m], x) /\ Holds(seqs[m + 1], x)))
                => NoneTwice(f[m + 1])
      BY <3>2, <3>3, ConcatHolds
    <3>6. \A x : Holds(f[m + 1], x) <=> \E j \in 1 .. m + 1 : Holds(seqs[j], x)
      BY <2>3, <3>4, <3>5
    <3>7. ASSUME Separate PROVE NoneTwice(f[m + 1])
      <4>1. NoneTwice(f[m]) /\ NoneTwice(seqs[m + 1])
        BY <2>3, <3>1, <3>7 DEF Separate
      <4>2. ASSUME NEW x, Holds(f[m], x), Holds(seqs[m + 1], x) PROVE FALSE
        <5>1. PICK j \in 1 .. m : Holds(seqs[j], x)  BY <2>3, <4>2
        <5>2. j \in DOMAIN seqs /\ j # m + 1  BY <1>0
        <5> QED BY <3>1, <3>7, <4>2, <5>1, <5>2 DEF Separate
      <4> QED BY <3>5, <4>1, <4>2
    <3> QED BY <3>5, <3>6, <3>7
  <2>4. 0 \in Fit
    BY <1>0, <1>2, <2>2
  <2>5. ASSUME NEW i \in 0 .. (n - 1) - 1, i \in Fit PROVE i + 1 \in Fit
    <3>1. i + 1 \in 1 .. n - 1 /\ i + 1 \in 0 .. n - 1  BY <1>0
    <3>2. Good(i + 1)  BY <2>5
    <3>3. Good((i + 1) + 1)
      <4> HIDE DEF Good
      <4> QED BY <2>3, <3>1, <3>2
    <3> QED BY <3>1, <3>3
  <2>6. 0 .. n - 1 \subseteq Fit
    <3>1. n - 1 \in Nat  BY <1>0, <1>2
    <3> HIDE DEF Fit, n
    <3> QED BY <2>4, <2>5, <3>1, CountingUp
  <2>7. Good(n)
    <3>1. n - 1 \in 0 .. n - 1 /\ (n - 1) + 1 = n  BY <1>0, <1>2
    <3>2. n - 1 \in Fit  BY <2>6, <3>1
    <3>3. Good((n - 1) + 1)  BY <3>2
    <3> HIDE DEF Good
    <3> QED BY <3>1, <3>3
  <2>8. FlattenSeq(seqs) = f[n]
    BY <2>1 DEF IsFlattening
  <2> QED BY <1>0, <2>7, <2>8 DEF Separate
<1> QED
  BY <1>1, <1>2

-----------------------------------------------------------------------------
(* The levels of a form.                                                        *)

LEMMA FailedRule ==
    \A e \in FailedRules : e = [rule |-> e.rule, detail |-> e.detail]
BY FormsAssumption

LEMMA LevelsOfControls ==
    /\ Deepest \in Nat
    /\ \A c \in Controls[0] : IsControl(c, {})
    /\ \A n \in 1 .. Deepest : \A c \in Controls[n] : IsControl(c, Controls[n - 1])
<1> DEFINE S(n) == IF n = 0 THEN {} ELSE Controls[n - 1]
<1>1. Deepest \in Nat /\ \A n \in 0 .. Deepest : \A c \in Controls[n] : IsControl(c, S(n))
  BY FormsAssumption
<1>2. S(0) = {} /\ \A n \in 1 .. Deepest : S(n) = Controls[n - 1]
  OBVIOUS
<1> HIDE DEF S
<1> QED
  BY <1>1, <1>2

LEMMA CollectAtTheBottom ==
    ASSUME NEW control \in Controls[0], NEW path, NEW x, NEW y
    PROVE  Collect(control, path, x) = Collect(control, path, y)
<1>1. DOMAIN control.children = {}
  <2>1. IsControl(control, {})  BY LevelsOfControls
  <2>2. control.children \in Seq([name : STRING, control : {}])  BY <2>1 DEF IsControl
  <2>3. \A i \in DOMAIN control.children : control.children[i].control \in {}  BY <2>2
  <2> QED BY <2>3
<1>2. ChildrensErrors(control, path, x) = ChildrensErrors(control, path, y)
  BY <1>1 DEF ChildrensErrors
<1> QED
  BY <1>2 DEF Collect

LEMMA CollectUnfolds ==
    ASSUME NEW level \in 0 .. Deepest, NEW control \in Controls[level], NEW path \in Seq(STRING)
    PROVE  CollectFrom[level][control][path] = Collect(control, path, CollectFrom[level - 1])
<1> DEFINE n == Deepest
           Row(f, d) == [c \in Controls[d] |-> [p \in Seq(STRING) |-> Collect(c, p, f[d - 1])]]
           Fits(f, k) == f = [d \in 0 .. k |-> Row(f, d)]
           Levels == {k \in 0 .. n : \E f : Fits(f, k)}
<1>0. n \in Nat  BY LevelsOfControls
<1>b. ASSUME NEW f, NEW g PROVE Row(f, 0) = Row(g, 0)
  <2>1. \A c \in Controls[0] : \A p : Collect(c, p, f[0 - 1]) = Collect(c, p, g[0 - 1])
    BY CollectAtTheBottom
  <2> QED BY <2>1
<1> HIDE DEF Row
<1>1. 0 \in Levels
  <2> DEFINE f == [d \in 0 .. 0 |-> Row(<< >>, 0)]
  <2>1. \A d \in 0 .. 0 : f[d] = Row(f, d)
    <3>1. \A d \in 0 .. 0 : d = 0 /\ f[d] = Row(<< >>, 0)  OBVIOUS
    <3> HIDE DEF f
    <3> QED BY <3>1, <1>b
  <2>2. f = [d \in 0 .. 0 |-> Row(f, d)]
    BY <2>1
  <2> HIDE DEF f
  <2> QED BY <1>0, <2>2
<1>2. ASSUME NEW k \in 0 .. n - 1, k \in Levels PROVE k + 1 \in Levels
  <2>1. PICK f : Fits(f, k)  BY <1>2
  <2> DEFINE g == [d \in 0 .. k + 1 |-> IF d = k + 1 THEN Row(f, d) ELSE f[d]]
  <2>2. ASSUME NEW d \in 0 .. k + 1 PROVE g[d] = Row(g, d)
    <3>1. CASE d = k + 1
      <4>1. g[d - 1] = f[d - 1]  BY <1>0, <3>1
      <4>2. g[d] = Row(f, d)  BY <3>1
      <4>3. Row(f, d) = Row(g, d)
        <5> HIDE DEF g
        <5> QED BY <4>1 DEF Row
      <4> QED BY <4>2, <4>3
    <3>2. CASE d # k + 1 /\ d # 0
      <4>1. d \in 0 .. k /\ d - 1 \in 0 .. k + 1 /\ d - 1 # k + 1  BY <1>0, <3>2
      <4>2. g[d] = f[d] /\ g[d - 1] = f[d - 1]  BY <3>2, <4>1
      <4>3. f[d] = Row(f, d)  BY <2>1, <4>1
      <4>4. Row(f, d) = Row(g, d)
        <5> HIDE DEF g
        <5> QED BY <4>2 DEF Row
      <4> QED BY <4>2, <4>3, <4>4
    <3>3. CASE d # k + 1 /\ d = 0
      <4>1. d \in 0 .. k  BY <1>0, <3>3
      <4>2. g[d] = f[d]  BY <3>3
      <4>3. f[d] = Row(f, d)  BY <2>1, <4>1
      <4> QED BY <1>b, <3>3, <4>2, <4>3
    <3> QED BY <3>1, <3>2, <3>3
  <2>3. Fits(g, k + 1)
    BY <2>2
  <2>4. k + 1 \in 0 .. n  BY <1>0
  <2> HIDE DEF Fits
  <2> QED BY <2>3, <2>4
<1>3. n \in Levels
  <2>1. 0 .. n \subseteq Levels
    <3> HIDE DEF Levels, n
    <3> QED BY <1>0, <1>1, <1>2, CountingUp
  <2> QED BY <1>0, <2>1
<1>4. \E f : f = [d \in 0 .. n |-> Row(f, d)]
  BY <1>3
<1>5. CollectFrom = [d \in 0 .. n |-> Row(CollectFrom, d)]
  <2>1. CollectFrom = CHOOSE f : f = [d \in 0 .. n |-> Row(f, d)]  BY DEF CollectFrom, Row
  <2> QED BY <1>4, <2>1
<1>6. CollectFrom[level] = Row(CollectFrom, level)
  BY <1>5
<1> QED
  BY <1>6 DEF Row

\* The controls along a path of names.
IsWay(at, form, path) ==
    /\ at[0] = form /\ ControlAt(form, path) = at[Len(path)]
    /\ \A i \in 1 .. Len(path) : at[i] = ChildNamed(at[i - 1], path[i])

LEMMA ControlAtSteps ==
    ASSUME NEW form, NEW path, Len(path) \in Nat
    PROVE  \E at : IsWay(at, form, path)
<1> DEFINE n == Len(path)
           Fits(f, k) == f = [i \in 0 .. k |->
                                IF i = 0 THEN form ELSE ChildNamed(f[i - 1], path[i])]
           Levels == {k \in 0 .. n : \E f : Fits(f, k)}
           at == CHOOSE f : Fits(f, n)
<1>1. 0 \in Levels
  <2> DEFINE f == [i \in 0 .. 0 |-> form]
  <2>1. Fits(f, 0)  OBVIOUS
  <2>2. 0 \in 0 .. n  OBVIOUS
  <2> HIDE DEF f, Fits
  <2> QED BY <2>1, <2>2
<1>2. ASSUME NEW k \in 0 .. n - 1, k \in Levels PROVE k + 1 \in Levels
  <2>1. PICK f : Fits(f, k)  BY <1>2
  <2> DEFINE g == [i \in 0 .. k + 1 |->
                      IF i = k + 1 THEN ChildNamed(f[k], path[k + 1]) ELSE f[i]]
  <2>2. ASSUME NEW i \in 0 .. k + 1
        PROVE  g[i] = IF i = 0 THEN form ELSE ChildNamed(g[i - 1], path[i])
    <3>1. CASE i = 0
      <4>1. g[0] = f[0]  OBVIOUS
      <4> QED BY <2>1, <3>1, <4>1
    <3>2. CASE i \in 1 .. k
      <4>1. i - 1 \in 0 .. k /\ i \in 0 .. k  BY <3>2
      <4>2. g[i] = f[i] /\ g[i - 1] = f[i - 1]  BY <3>2, <4>1
      <4>3. f[i] = ChildNamed(f[i - 1], path[i])  BY <2>1, <3>2, <4>1
      <4> QED BY <3>2, <4>2, <4>3
    <3>3. CASE i = k + 1
      <4>1. g[k] = f[k]  OBVIOUS
      <4> QED BY <3>3, <4>1
    <3> QED BY <3>1, <3>2, <3>3
  <2>3. Fits(g, k + 1)
    <3> DEFINE h == [i \in 0 .. k + 1 |-> IF i = 0 THEN form ELSE ChildNamed(g[i - 1], path[i])]
    <3>1. \A i \in 0 .. k + 1 : g[i] = h[i]  BY <2>2
    <3>2. g = h  BY <3>1
    <3> QED BY <3>2
  <2>4. k + 1 \in 0 .. n  OBVIOUS
  <2> QED BY <2>3, <2>4
<1>3. n \in Levels
  <2>1. n \in Nat /\ n \in 0 .. n  OBVIOUS
  <2>2. 0 .. n \subseteq Levels
    <3> HIDE DEF Levels, n
    <3> QED BY <1>1, <1>2, <2>1, CountingUp
  <2> QED BY <2>1, <2>2
<1>4. Fits(at, n)
  BY <1>3
<1>5. ControlAt(form, path) = at[n]
  BY DEF ControlAt
<1>6. IsWay(at, form, path)
  <2> HIDE DEF at
  <2> QED BY <1>4, <1>5 DEF IsWay
<1> QED
  BY <1>6

-----------------------------------------------------------------------------
(* What is collected of a control at a path: the rules failed there and below.  *)

Continues(longer, path) ==
    Len(path) <= Len(longer) /\ \A i \in 1 .. Len(path) : longer[i] = path[i]

\* From its own name on, `at` is the way down a path.
LeadsDown(at, from, path) ==
    \A i \in from + 1 .. Len(path) : at[i] = ChildNamed(at[i - 1], path[i])

Entry(path, e) ==
    [control |-> path, rule |-> e.rule, detail |-> SanitiseValidatorDetail(e.rule, e.detail)]
Entries == {Entry(path, e) : path \in Seq(STRING), e \in FailedRules}

ListsRules(errors, path, rules) ==
    \A rule : rule \in rules <=> \E x : Holds(errors, x) /\ x.control = path /\ x.rule = rule

Lists(errors, control, path) ==
    /\ errors \in Seq(Entries) /\ NoneTwice(errors)
    /\ \A x : Holds(errors, x) => Continues(x.control, path)
    /\ \A longer \in Seq(STRING) : \A at :
          Continues(longer, path) /\ at[Len(path)] = control /\ LeadsDown(at, Len(path), longer)
             => ListsRules(errors, longer, RulesFailed(at[Len(longer)]))

LEMMA NoControlBelow ==
    ASSUME NEW path \in Seq(STRING), NEW from \in 0 .. Len(path), NEW at,
           at[from] = Control(<< >>), LeadsDown(at, from, path)
    PROVE  at[Len(path)] = Control(<< >>)
<1> DEFINE n == Len(path) - from
           Fit == {i \in 0 .. n : at[from + i] = Control(<< >>)}
<1>0. n \in Nat /\ from \in Nat /\ Len(path) \in Nat  OBVIOUS
<1>1. \A name : ChildNamed(Control(<< >>), name) = Control(<< >>)
  <2>1. DOMAIN Control(<< >>).children = {}  BY DEF Control
  <2> HIDE DEF n
  <2> QED BY <2>1 DEF ChildNamed
<1>2. 0 \in Fit
  BY <1>0
<1>3. ASSUME NEW i \in 0 .. n - 1, i \in Fit PROVE i + 1 \in Fit
  <2>1. from + (i + 1) \in from + 1 .. Len(path) /\ (from + (i + 1)) - 1 = from + i
    BY <1>0
  <2>2. at[from + (i + 1)] = ChildNamed(at[from + i], path[from + (i + 1)])
    BY <2>1 DEF LeadsDown
  <2>3. at[from + i] = Control(<< >>)  BY <1>3
  <2>4. i + 1 \in 0 .. n  BY <1>0
  <2> HIDE DEF n
  <2> QED BY <1>1, <2>2, <2>3, <2>4
<1>4. 0 .. n \subseteq Fit
  <2> HIDE DEF Fit, n
  <2> QED BY <1>0, <1>2, <1>3, CountingUp
<1>5. n \in Fit
  <2>1. n \in 0 .. n  BY <1>0
  <2> HIDE DEF Fit, n
  <2> QED BY <1>4, <2>1
<1>6. at[from + n] = Control(<< >>)
  BY <1>5
<1>7. from + n = Len(path)
  BY <1>0
<1> QED
  <2> HIDE DEF n
  <2> QED BY <1>6, <1>7

LEMMA OwnErrorsListed ==
    ASSUME NEW S, NEW control, IsControl(control, S), NEW path \in Seq(STRING)
    PROVE  LET own == OwnErrors(control, path)
           IN  /\ own \in Seq(Entries) /\ NoneTwice(own)
               /\ \A x : Holds(own, x) => x.control = path
               /\ ListsRules(own, path, RulesFailed(control))
<1> DEFINE own == OwnErrors(control, path)
           failed == control.errors
<1>1. /\ failed \in Seq(FailedRules)
      /\ \A i, j \in DOMAIN failed : failed[i].rule = failed[j].rule => i = j
  BY DEF IsControl
<1>2. own = [i \in DOMAIN failed |-> Entry(path, failed[i])]
  BY DEF OwnErrors, Entry
<1>3. \A e \in FailedRules : Entry(path, e) \in Entries
  BY DEF Entries
<1>4. \A e : Entry(path, e).control = path /\ Entry(path, e).rule = e.rule
  BY DEF Entry
<1> HIDE DEF own, failed
<1>5. /\ DOMAIN own = DOMAIN failed /\ DOMAIN failed = 1 .. Len(failed) /\ Len(failed) \in Nat
      /\ \A i \in DOMAIN own : own[i] = Entry(path, failed[i]) /\ failed[i] \in FailedRules
  BY <1>1, <1>2
<1>6. own \in Seq(Entries)
  BY <1>3, <1>5, <1>2
<1>7. NoneTwice(own)
  BY <1>1, <1>4, <1>5 DEF NoneTwice
<1>8. \A x : Holds(own, x) => x.control = path
  BY <1>4, <1>5 DEF Holds
<1>9. ListsRules(own, path, RulesFailed(control))
  <2> SUFFICES ASSUME NEW rule
               PROVE  rule \in RulesFailed(control)
                         <=> \E x : Holds(own, x) /\ x.control = path /\ x.rule = rule
    BY DEF ListsRules
  <2>1. ASSUME rule \in RulesFailed(control)
        PROVE  \E x : Holds(own, x) /\ x.control = path /\ x.rule = rule
    <3>1. PICK i \in DOMAIN failed : failed[i].rule = rule
      BY <2>1 DEF RulesFailed, failed
    <3>2. Holds(own, own[i])  BY <1>5 DEF Holds
    <3> QED BY <1>4, <1>5, <3>1, <3>2
  <2>2. ASSUME NEW x, Holds(own, x), x.rule = rule PROVE rule \in RulesFailed(control)
    <3>1. PICK i \in DOMAIN own : x = own[i]  BY <2>2 DEF Holds
    <3>2. failed[i].rule = rule /\ i \in DOMAIN failed  BY <1>4, <1>5, <2>2, <3>1
    <3> QED BY <3>2 DEF RulesFailed, failed
  <2> QED BY <2>1, <2>2
<1> QED
  BY <1>6, <1>7, <1>8, <1>9 DEF own

LEMMA FunctionIsSeq ==
    ASSUME NEW S, NEW n \in Nat, NEW f, f = [i \in 1 .. n |-> f[i]], \A i \in 1 .. n : f[i] \in S
    PROVE  f \in Seq(S)
OBVIOUS

LEMMA PathIsAll ==
    ASSUME NEW path \in Seq(STRING), NEW longer \in Seq(STRING), Continues(longer, path),
           Len(longer) = Len(path)
    PROVE  longer = path
BY DEF Continues

LEMMA NameMore ==
    ASSUME NEW path \in Seq(STRING), NEW name \in STRING
    PROVE  /\ Append(path, name) \in Seq(STRING)
           /\ Len(Append(path, name)) = Len(path) + 1 /\ Len(path) \in Nat
           /\ \A longer : Len(longer) \in Nat =>
                 (Continues(longer, Append(path, name)) <=>
                    /\ Continues(longer, path)
                    /\ Len(longer) >= Len(path) + 1 /\ longer[Len(path) + 1] = name)
<1> DEFINE more == Append(path, name)
           n == Len(path)
<1>1. /\ more \in Seq(STRING) /\ Len(more) = n + 1 /\ n \in Nat /\ more[n + 1] = name
      /\ \A i \in 1 .. n : more[i] = path[i]
  OBVIOUS
<1> HIDE DEF more, n
<1>2. 1 .. n + 1 = (1 .. n) \cup {n + 1}
  BY <1>1
<1>3. ASSUME NEW longer, Len(longer) \in Nat
      PROVE  Continues(longer, more) <=>
                    /\ Continues(longer, path)
                    /\ Len(longer) >= n + 1 /\ longer[n + 1] = name
  <2>1. Continues(longer, more) <=>
            n + 1 <= Len(longer) /\ \A i \in 1 .. n + 1 : longer[i] = more[i]
    BY <1>1 DEF Continues
  <2>2. Continues(longer, path) <=> n <= Len(longer) /\ \A i \in 1 .. n : longer[i] = path[i]
    BY DEF Continues, n
  <2>3. (\A i \in 1 .. n + 1 : longer[i] = more[i])
            <=> (\A i \in 1 .. n : longer[i] = path[i]) /\ longer[n + 1] = name
    BY <1>1, <1>2
  <2>4. n + 1 <= Len(longer) <=> n <= Len(longer) /\ Len(longer) >= n + 1
    BY <1>1, <1>3
  <2> QED BY ONLY <2>1, <2>2, <2>3, <2>4
<1> QED
  BY <1>1, <1>3 DEF more, n

(* Collect lists what its control fails and what `below` lists of its children. *)
LEMMA CollectLists ==
    ASSUME NEW S, NEW control, IsControl(control, S), NEW path \in Seq(STRING), NEW below,
           \A c \in S : \A p \in Seq(STRING) : Lists(below[c][p], c, p)
    PROVE  Lists(Collect(control, path, below), control, path)
<1> DEFINE own == OwnErrors(control, path)
           parts == ChildrensErrors(control, path, below)
           flat == FlattenSeq(parts)
           all == Collect(control, path, below)
           name(j) == control.children[j].name
           child(j) == control.children[j].control
           pathOf(j) == Append(path, name(j))
           n == Len(path)
<1>0. n \in Nat /\ \A longer \in Seq(STRING) : Len(longer) \in Nat
  OBVIOUS
<1>1. /\ own \in Seq(Entries) /\ NoneTwice(own)
      /\ \A x : Holds(own, x) => x.control = path
      /\ ListsRules(own, path, RulesFailed(control))
  <2> HIDE DEF own
  <2> QED BY OwnErrorsListed DEF own
<1>2. all = own \o flat
  BY DEF Collect
<1>3. /\ DOMAIN parts = DOMAIN control.children
      /\ DOMAIN control.children = 1 .. Len(control.children)
      /\ Len(control.children) \in Nat
      /\ \A j \in DOMAIN parts : parts[j] = below[child(j)][pathOf(j)]
  <2>1. control.children \in Seq([name : STRING, control : S])  BY DEF IsControl
  <2> QED BY <2>1 DEF ChildrensErrors
<1>4. ASSUME NEW j \in DOMAIN parts
      PROVE  name(j) \in STRING /\ child(j) \in S
  <2>1. control.children \in Seq([name : STRING, control : S])  BY DEF IsControl
  <2>2. control.children[j] \in [name : STRING, control : S]
    <3>1. j \in 1 .. Len(control.children)  BY <1>3
    <3> QED BY <2>1, <3>1, ElementOfSeq
  <2> QED BY <2>2
<1>5. \A j, k \in DOMAIN parts : name(j) = name(k) => j = k
  BY <1>3 DEF IsControl
<1> HIDE DEF own, parts, flat, all, name, child, n
<1>6. ASSUME NEW j \in DOMAIN parts
      PROVE  /\ Lists(parts[j], child(j), pathOf(j)) /\ pathOf(j) \in Seq(STRING)
             /\ Len(pathOf(j)) = n + 1
             /\ \A longer \in Seq(STRING) :
                   Continues(longer, pathOf(j)) <=>
                    /\ Continues(longer, path)
                    /\ Len(longer) >= n + 1 /\ longer[n + 1] = name(j)
  BY <1>0, <1>3, <1>4, NameMore DEF n
<1> HIDE DEF pathOf
<1>7. parts \in Seq(Seq(Entries))
  <2>1. \A j \in DOMAIN parts : parts[j] \in Seq(Entries)  BY <1>6 DEF Lists
  <2>2. parts = [j \in 1 .. Len(control.children) |-> parts[j]]
    BY <1>3 DEF parts, ChildrensErrors
  <2> QED BY <1>3, <2>1, <2>2, FunctionIsSeq
<1>8. \A x \in Entries : x.control \in Seq(STRING)
  BY DEF Entries, Entry
<1>9. ASSUME NEW j \in DOMAIN parts, NEW x, Holds(parts[j], x)
      PROVE  /\ x \in Entries /\ x.control \in Seq(STRING) /\ Continues(x.control, path)
             /\ Len(x.control) >= n + 1 /\ x.control[n + 1] = name(j)
  <2>1. x \in Entries
    BY <1>6, <1>9 DEF Lists, Holds
  <2>2. Continues(x.control, pathOf(j))
    BY <1>6, <1>9 DEF Lists
  <2> QED BY <1>6, <1>8, <2>1, <2>2
<1>10. /\ flat \in Seq(Entries) /\ NoneTwice(flat)
       /\ \A x : Holds(flat, x) <=> \E j \in DOMAIN parts : Holds(parts[j], x)
  <2>1. \A j \in DOMAIN parts : NoneTwice(parts[j])
    BY <1>6 DEF Lists
  <2>2. \A j, k \in DOMAIN parts : \A x : Holds(parts[j], x) /\ Holds(parts[k], x) => j = k
    BY <1>5, <1>9
  <2> QED BY <1>7, <2>1, <2>2, FlattenHolds DEF flat
<1>11. ASSUME NEW x, Holds(own, x), Holds(flat, x) PROVE FALSE
  <2>1. Len(x.control) = n  BY <1>1, <1>11 DEF n
  <2>2. Len(x.control) >= n + 1  BY <1>9, <1>10, <1>11
  <2> QED BY <1>0, <2>1, <2>2
<1>12. /\ all \in Seq(Entries) /\ NoneTwice(all)
       /\ \A x : Holds(all, x) <=> Holds(own, x) \/ Holds(flat, x)
  BY <1>1, <1>2, <1>10, <1>11, ConcatHolds
<1>13. \A x : Holds(all, x) => Continues(x.control, path)
  <2>1. Continues(path, path)  BY <1>0 DEF Continues, n
  <2> QED BY <1>1, <1>9, <1>10, <1>12, <2>1
<1>14. ASSUME NEW longer \in Seq(STRING), NEW at, Continues(longer, path),
              at[n] = control, LeadsDown(at, n, longer)
       PROVE  ListsRules(all, longer, RulesFailed(at[Len(longer)]))
  <2>0. Len(longer) \in Nat /\ Len(longer) >= n
    BY <1>0, <1>14 DEF Continues, n
  <2>1. CASE Len(longer) = n
    <3>1. longer = path  BY <1>14, <2>1, PathIsAll DEF n
    <3>2. \A x : Holds(flat, x) => x.control # longer
      BY <1>0, <1>9, <1>10, <2>1
    <3> QED BY <1>1, <1>12, <1>14, <2>1, <3>1, <3>2 DEF ListsRules
  <2>2. CASE Len(longer) # n
    <3>0. Len(longer) >= n + 1 /\ n + 1 \in n + 1 .. Len(longer) /\ n + 1 \in DOMAIN longer
          /\ (n + 1) - 1 = n
      BY <1>0, <2>0, <2>2
    <3>1. at[n + 1] = ChildNamed(control, longer[n + 1])
      BY <1>14, <3>0 DEF LeadsDown
    <3>2. \A x : Holds(own, x) => x.control # longer
      BY <1>1, <2>2 DEF n
    <3>3. CASE \E j \in DOMAIN parts : name(j) = longer[n + 1]
      <4>1. PICK j \in DOMAIN parts : name(j) = longer[n + 1]  BY <3>3
      <4>2. at[n + 1] = child(j)
        <5>1. {i \in DOMAIN control.children : control.children[i].name = longer[n + 1]} = {j}
          BY <1>3, <1>5, <4>1 DEF name
        <5> QED BY <3>1, <5>1 DEF ChildNamed, child
      <4>3. Continues(longer, pathOf(j))
        BY <1>6, <1>14, <3>0, <4>1
      <4>4. LeadsDown(at, n + 1, longer)
        BY <1>0, <1>14 DEF LeadsDown
      <4>5. ListsRules(parts[j], longer, RulesFailed(at[Len(longer)]))
        BY <1>6, <4>2, <4>3, <4>4 DEF Lists
      <4>6. \A x : Holds(all, x) /\ x.control = longer => Holds(parts[j], x)
        BY <1>5, <1>9, <1>10, <1>12, <3>2, <4>1
      <4>7. \A x : Holds(parts[j], x) => Holds(all, x)
        BY <1>10, <1>12
      <4> QED BY <4>5, <4>6, <4>7 DEF ListsRules
    <3>4. CASE ~ \E j \in DOMAIN parts : name(j) = longer[n + 1]
      <4>1. {i \in DOMAIN control.children : control.children[i].name = longer[n + 1]} = {}
        BY <1>3, <3>4 DEF name
      <4>2. at[n + 1] = Control(<< >>)
        BY <3>1, <4>1 DEF ChildNamed
      <4>3. LeadsDown(at, n + 1, longer)
        BY <1>0, <1>14 DEF LeadsDown
      <4>4. at[Len(longer)] = Control(<< >>)
        BY <1>0, <2>0, <3>0, <4>2, <4>3, NoControlBelow
      <4>5. RulesFailed(at[Len(longer)]) = {}
        BY <4>4 DEF Control, RulesFailed
      <4>6. \A x : Holds(all, x) => x.control # longer
        BY <1>9, <1>10, <1>12, <3>2, <3>4
      <4> QED BY <4>5, <4>6 DEF ListsRules
    <3> QED BY <3>3, <3>4
  <2> QED BY <2>1, <2>2
<1> QED
  BY <1>12, <1>13, <1>14 DEF Lists, all, n

LEMMA EveryLevelLists ==
    ASSUME NEW level \in 0 .. Deepest, NEW control \in Controls[level], NEW path \in Seq(STRING)
    PROVE  Lists(CollectFrom[level][control][path], control, path)
<1> DEFINE Good(n) == \A c \in Controls[n] : \A p \in Seq(STRING) :
                            Lists(CollectFrom[n][c][p], c, p)
           Fit == {n \in 0 .. Deepest : Good(n)}
<1>0. Deepest \in Nat
  BY LevelsOfControls
<1>1. 0 \in Fit
  <2>1. ASSUME NEW c \in Controls[0], NEW p \in Seq(STRING)
        PROVE  Lists(CollectFrom[0][c][p], c, p)
    <3>1. IsControl(c, {})  BY LevelsOfControls
    <3>2. CollectFrom[0][c][p] = Collect(c, p, CollectFrom[0 - 1])
      BY <1>0, CollectUnfolds
    <3>3. Lists(Collect(c, p, CollectFrom[0 - 1]), c, p)
      BY <3>1, CollectLists
    <3> QED BY <3>2, <3>3
  <2> QED BY <1>0, <2>1
<1>2. ASSUME NEW n \in 0 .. Deepest - 1, n \in Fit PROVE n + 1 \in Fit
  <2>1. n + 1 \in 0 .. Deepest /\ n + 1 \in 1 .. Deepest /\ (n + 1) - 1 = n  BY <1>0
  <2>2. ASSUME NEW c \in Controls[n + 1], NEW p \in Seq(STRING)
        PROVE  Lists(CollectFrom[n + 1][c][p], c, p)
    <3>1. IsControl(c, Controls[n])  BY <2>1, LevelsOfControls
    <3>2. CollectFrom[n + 1][c][p] = Collect(c, p, CollectFrom[n])
      BY <2>1, CollectUnfolds
    <3>3. \A d \in Controls[n] : \A q \in Seq(STRING) : Lists(CollectFrom[n][d][q], d, q)
      BY <1>2
    <3>4. Lists(Collect(c, p, CollectFrom[n]), c, p)
      BY <3>1, <3>3, CollectLists
    <3> QED BY <3>2, <3>4
  <2> QED BY <2>1, <2>2
<1>3. 0 .. Deepest \subseteq Fit
  <2> HIDE DEF Fit
  <2> QED BY <1>0, <1>1, <1>2, CountingUp
<1> QED
  BY <1>3

LEMMA FormListed ==
    ASSUME NEW form \in Controls[Deepest]
    PROVE  LET errors == CollectErrors(form)
           IN  /\ errors \in Seq(Entries) /\ NoneTwice(errors)
               /\ \A path \in Seq(STRING) :
                     ListsRules(errors, path, RulesFailed(ControlAt(form, path)))
<1> DEFINE errors == CollectErrors(form)
<1>1. Lists(errors, form, << >>)
  <2>1. Deepest \in 0 .. Deepest /\ << >> \in Seq(STRING)
    BY LevelsOfControls
  <2>2. Lists(CollectFrom[Deepest][form][<< >>], form, << >>)
    BY <2>1, EveryLevelLists
  <2> QED BY <2>2 DEF CollectErrors
<1> HIDE DEF errors
<1>2. ASSUME NEW path \in Seq(STRING)
      PROVE  ListsRules(errors, path, RulesFailed(ControlAt(form, path)))
  <2>0. Len(path) \in Nat
    OBVIOUS
  <2>1. PICK at : IsWay(at, form, path)
    BY <2>0, ControlAtSteps
  <2>2. Continues(path, << >>) /\ Len(<< >>) = 0
    BY DEF Continues
  <2>3. LeadsDown(at, 0, path)
    BY <2>1 DEF IsWay, LeadsDown
  <2>4. at[0] = form /\ ControlAt(form, path) = at[Len(path)]
    BY <2>1 DEF IsWay
  <2> QED BY <1>1, <2>2, <2>3, <2>4 DEF Lists
<1> QED
  BY <1>1, <1>2 DEF Lists, errors

(* BrokenRulesListed, for forms of any number of levels and controls: what is   *)
(* collected of a level lists what its controls fail, and so does the next.     *)
THEOREM AlwaysBrokenRulesListed == InputSpec => []BrokenRulesListed
<1>1. KeptFollowsGiven => BrokenRulesListed
  <2> SUFFICES ASSUME KeptFollowsGiven, given.what = "form" PROVE BrokenRulesListed
    BY DEF BrokenRulesListed
  <2> DEFINE errors == kept.errors
             form == given.form
             listed == {errors[i] : i \in DOMAIN errors}
  <2>1. /\ errors \in Seq(Entries) /\ NoneTwice(errors)
        /\ \A path \in Seq(STRING) :
              ListsRules(errors, path, RulesFailed(ControlAt(form, path)))
    <3>1. form \in Controls[Deepest] /\ errors = CollectErrors(form)
      BY DEF KeptFollowsGiven
    <3> QED BY <3>1, FormListed
  <2> HIDE DEF errors, form
  <2>2. \A x : x \in listed <=> Holds(errors, x)
    BY DEF Holds
  <2>3. listed \subseteq Entries
    BY <2>1
  <2> HIDE DEF listed
  <2>4. ASSUME NEW path \in ControlPaths
        PROVE  {e.rule : e \in {x \in listed : x.control = path}}
                   = RulesFailed(ControlAt(form, path))
    <3>1. path \in Seq(STRING)  BY InputAssumption
    <3>2. ListsRules(errors, path, RulesFailed(ControlAt(form, path)))  BY <2>1, <3>1
    <3> DEFINE rules == RulesFailed(ControlAt(form, path))
    <3>3. \A rule : rule \in rules <=> \E x \in listed : x.control = path /\ x.rule = rule
      BY <2>2, <3>2 DEF ListsRules
    <3> HIDE DEF rules
    <3>4. {e.rule : e \in {x \in listed : x.control = path}} = rules
      BY <3>3
    <3> QED BY <3>4 DEF rules
  <2>5. ASSUME NEW e \in listed
        PROVE  /\ e.rule \in RulesFailed(ControlAt(form, e.control))
               /\ e.detail # Undefined =>
                     DOMAIN e.detail \subseteq
                         IF e.rule \in {"min", "max"} THEN Limits \cup {"actual"} ELSE Limits
    <3>1. PICK path \in Seq(STRING), failed \in FailedRules : e = Entry(path, failed)
      BY <2>3 DEF Entries
    <3>2. /\ e.control = path /\ e.rule = failed.rule
          /\ e.detail = SanitiseValidatorDetail(failed.rule, failed.detail)
      BY <3>1 DEF Entry
    <3>3. ListsRules(errors, path, RulesFailed(ControlAt(form, path)))  BY <2>1
    <3>4. e.rule \in RulesFailed(ControlAt(form, e.control))
      BY <2>2, <3>2, <3>3 DEF ListsRules
    <3>5. e.detail # Undefined => DOMAIN e.detail = KeptMembers(e.rule)
      BY <3>2 DEF SanitiseValidatorDetail
    <3>6. KeptMembers(e.rule) \subseteq
              IF e.rule \in {"min", "max"} THEN Limits \cup {"actual"} ELSE Limits
      BY DEF KeptMembers, Limits
    <3> QED BY <3>4, <3>5, <3>6
  <2>6. \A i, j \in DOMAIN errors : errors[i] = errors[j] => i = j
    BY <2>1 DEF NoneTwice
  <2> QED BY <2>4, <2>5, <2>6 DEF BrokenRulesListed, errors, form, listed
<1> QED
  BY <1>1, AlwaysKeptFollowsGiven, PTL

=============================================================================
