----------------------------- MODULE CapturedInput -----------------------------
(* What a capture keeps of what the user entered: the request that failed, the  *)
(* form that was refused, the result that says no.                              *)
EXTENDS Redaction, FormErrors

CONSTANTS
    Bodies, HeaderLists, Queries,   \* requests, see Redaction
    Forms, Results,                 \* see FormErrors
    ValuePaths, ControlPaths        \* the paths looked at in a body and a form

ASSUME InputAssumption ==
    /\ Bodies \subseteq JsonValues /\ Forms \subseteq Controls[Deepest]
    /\ ValuePaths \subseteq Seq([key : STRING, index : Nat])
    /\ ControlPaths \subseteq Seq(STRING)
    /\ HeaderLists \cup Queries \subseteq Seq(STRING \X STRING)

VARIABLES
    given,      \* what the last capture was made of
    kept        \* what it kept

inputVars == <<given, kept>>

Nothing == [what |-> "nothing"]

InitInput == given = Nothing /\ kept = Nothing

\* The interceptors, with captureRequestBody.
CaptureRequest(body, headers, query) ==
    /\ given' = [what |-> "request", body |-> body, headers |-> headers, query |-> query]
    /\ kept' = [body |-> RedactObject(body), headers |-> RedactHeaders(headers),
                query |-> RedactQueryString(query)]

\* reportInvalidForm.
ReportInvalidForm(form) ==
    /\ given' = [what |-> "form", form |-> form]
    /\ kept' = [errors |-> CollectErrors(form)]

\* erpReportFailedResult, and reportFailureResult for a result that is a failure.
ReportFailureResult(result) ==
    /\ IsErpFailureResult(result)
    /\ given' = [what |-> "result", result |-> result]
    /\ kept' = [result |-> SummariseResult(result)]

NextInput ==
    \/ \E body \in Bodies, headers \in HeaderLists, query \in Queries :
          CaptureRequest(body, headers, query)
    \/ \E form \in Forms : ReportInvalidForm(form)
    \/ \E result \in Results : ReportFailureResult(result)

InputSpec == InitInput /\ [][NextInput]_inputVars

-----------------------------------------------------------------------------
(* Properties.                                                                  *)

\* The key of the member a path ends in.
EndsAt(path) == IF path = << >> THEN Index(0) ELSE path[Len(path)]
OfMember(path) == path # << >> /\ EndsAt(path).index = 0

\* The name of a field of a FormData, of which only names are kept.
OfFieldName(path) == Len(path) > 1 /\ path[Len(path) - 1] = Key("[FormData]")

\* Each name given is kept, once: masked unless it is allowed, else with the last
\* text it was given, but never a credential.
NamesKept(pairs, allowed, left) ==
    /\ DOMAIN left = {pairs[i][1] : i \in DOMAIN pairs}
    /\ \A i \in DOMAIN pairs :
          LET name == pairs[i][1]
              last == \A j \in DOMAIN pairs : pairs[j][1] = name => j <= i
          IN  /\ left[name].is = "text" /\ left[name].text \notin Credentials
              /\ name \notin allowed => left[name] = Redacted
              /\ name \in allowed /\ last /\ pairs[i][2] \notin Credentials =>
                    left[name] = Text(pairs[i][2])

(* RedactionKeepsOnlyNamed: of a request's body a text or number that is a      *)
(* member of an object is masked or cut off unless its key is allow-listed, no  *)
(* credential is kept (but as a field's name) and no file; and what is neither  *)
(* too deep nor too far down an array is still there in some form, so that the  *)
(* shape can be seen (redaction.ts, "Structure is preserved ... values are      *)
(* not").  Headers and query parameters likewise, by name.                      *)
RedactionKeepsOnlyNamed ==
    given.what = "request" =>
        /\ \A path \in ValuePaths :
              LET was == At(given.body, path)
                  left == At(kept.body, path)
              IN  /\ OfMember(path) /\ EndsAt(path).key \notin AllowedKeys
                        /\ was.is \in {"text", "number"} => left \in {Redacted, Nowhere}
                  /\ left.is = "text" /\ left.text \in Credentials => OfFieldName(path)
                  /\ left.is \notin {"form", "blob"}
                  /\ was # Nowhere /\ left = Nowhere =>
                        Len(path) > MaxDepth + 1 \/ \E i \in DOMAIN path : path[i].index > MaxItems
        /\ NamesKept(given.headers, AllowedHeaders, kept.headers)
        /\ NamesKept(given.query, AllowedKeys, kept.query)

\* What may be said of a value that was refused: the limits, the length of a text,
\* and, by min and max alone, the number.
Limits == {"requiredLength", "actualLength", "min", "max", "requiredPattern"}

(* BrokenRulesListed: the errors reported of a refused form are exactly the     *)
(* rules its controls fail, at whatever depth, each at its control's path and   *)
(* once.  A detail says the limits of a known rule and how long a text was, and *)
(* nothing of the value that was entered, but for min and max: `actual` is the  *)
(* number itself, which collectErrors' own comment denies ("The VALUE is never  *)
(* included").                                                                  *)
BrokenRulesListed ==
    given.what = "form" =>
        LET errors == kept.errors
            listed == {errors[i] : i \in DOMAIN errors}
        IN  /\ \A path \in ControlPaths :
                  {e.rule : e \in {x \in listed : x.control = path}}
                      = RulesFailed(ControlAt(given.form, path))
            /\ \A e \in listed : e.rule \in RulesFailed(ControlAt(given.form, e.control))
            /\ \A i, j \in DOMAIN errors : errors[i] = errors[j] => i = j
            /\ \A e \in listed : e.detail # Undefined =>
                  DOMAIN e.detail \subseteq
                      IF e.rule \in {"min", "max"} THEN Limits \cup {"actual"} ELSE Limits

=============================================================================
