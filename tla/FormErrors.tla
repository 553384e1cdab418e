------------------------------ MODULE FormErrors ------------------------------
(* forms/erp-form-error.service.ts and the result convention of              *)
(* capture/handled-failures.ts: failures that throw nothing.                 *)
EXTENDS Integers, Sequences, SequencesExt

CONSTANTS
    Undefined,      \* JavaScript's undefined, and null
    FailedRules,    \* what a control's `errors` may hold: rules with their details
    Deepest,        \* levels of controls below a form
    Controls        \* level -> the controls with no more levels below them

\* An AbstractControl: its errors as a sequence of [rule, detail], its children
\* as a sequence of [name, control], the names of a FormArray being indexes.
Control(errors) == [errors |-> errors, children |-> << >>]
Group(errors, children) == [errors |-> errors, children |-> children]
Child(name, control) == [name |-> name, control |-> control]

\* `errors` and `controls` are objects: no rule and no name occurs twice.
IsControl(c, below) ==
    /\ c = Group(c.errors, c.children)
    /\ c.errors \in Seq(FailedRules)
    /\ c.children \in Seq([name : STRING, control : below])
    /\ \A i, j \in DOMAIN c.errors : c.errors[i].rule = c.errors[j].rule => i = j
    /\ \A i, j \in DOMAIN c.children : c.children[i].name = c.children[j].name => i = j

ASSUME FormsAssumption ==
    /\ Deepest \in Nat /\ DOMAIN Controls = 0 .. Deepest
    /\ \A e \in FailedRules : e = [rule |-> e.rule, detail |-> e.detail]
    /\ \A n \in 0 .. Deepest : \A c \in Controls[n] :
          IsControl(c, IF n = 0 THEN {} ELSE Controls[n - 1])

\* sanitiseValidatorDetail: the members of a detail object that are kept.
KeptMembers(rule) ==
    CASE rule \in {"minlength", "maxlength"} -> {"requiredLength", "actualLength"}
      [] rule \in {"min", "max"} -> {rule, "actual"}
      [] rule = "pattern" -> {"requiredPattern"}
      [] OTHER -> {}

\* A detail is Undefined (true, a scalar) or an object: a function of its members.
SanitiseValidatorDetail(rule, detail) ==
    IF detail = Undefined \/ KeptMembers(rule) = {} THEN Undefined
    ELSE [k \in KeptMembers(rule) |-> IF k \in DOMAIN detail THEN detail[k] ELSE Undefined]

OwnErrors(control, path) ==
    [i \in DOMAIN control.errors |->
        [control |-> path, rule |-> control.errors[i].rule,
         detail |-> SanitiseValidatorDetail(control.errors[i].rule, control.errors[i].detail)]]

\* What `below` collects of each child, at its path.
ChildrensErrors(control, path, below) ==
    [i \in DOMAIN control.children |->
        below[control.children[i].control][Append(path, control.children[i].name)]]

\* Mutation: the children of a control that fails itself are passed over.
CollectFirst(control, path, below) ==
    IF control.errors # << >> THEN OwnErrors(control, path)
    ELSE FlattenSeq(ChildrensErrors(control, path, below))

\* The control's own, then its children's, depth first. A path is the sequence of
\* names, which the code joins with dots and brackets: names have none.
Collect(control, path, below) ==
    OwnErrors(control, path) \o FlattenSeq(ChildrensErrors(control, path, below))

CollectFrom[n \in 0 .. Deepest] ==
    [control \in Controls[n] |->
        [path \in Seq(STRING) |-> Collect(control, path, CollectFrom[n - 1])]]

CollectErrors(control) == CollectFrom[Deepest][control][<< >>]

ValidationKeys(items) == [i \in DOMAIN items |-> <<items[i].control, items[i].rule>>]

-----------------------------------------------------------------------------
(* The result convention.  A result is a function of the members it has.     *)

Discriminators == <<"success", "ok", "isSuccess", "failed">>

\* The boolean discriminators a result carries, in the order they are asked for.
Flags(result) ==
    SelectSeq(Discriminators, LAMBDA k : k \in DOMAIN result /\ result[k] \in {"true", "false"})

\* isErpFailureResult on an object: a flag decides, else a populated error code.
IsErpFailureResult(result) ==
    LET flags == Flags(result)
    IN  IF flags # << >>
        THEN (result[Head(flags)] = "true") = (Head(flags) = "failed")
        ELSE "errorCode" \in DOMAIN result /\ result["errorCode"] \notin {"null", "", "0"}

\* summariseResult: the discriminators alone.
SummariseResult(result) ==
    LET kept == {"success", "ok", "isSuccess", "failed", "errorCode", "reasonCode",
                 "statusCode"} \cap DOMAIN result
    IN  IF kept = {} THEN Undefined ELSE [k \in kept |-> result[k]]

-----------------------------------------------------------------------------
(* The reference: the control a path leads to, one that fails nothing if there  *)
(* is none.                                                                  *)

ChildNamed(control, name) ==
    LET named == {i \in DOMAIN control.children : control.children[i].name = name}
    IN  IF named = {} THEN Control(<< >>) ELSE control.children[CHOOSE i \in named : TRUE].control

ControlAt(form, path) ==
    LET at[i \in 0 .. Len(path)] == IF i = 0 THEN form ELSE ChildNamed(at[i - 1], path[i])
    IN  at[Len(path)]

RulesFailed(control) == {control.errors[i].rule : i \in DOMAIN control.errors}

=============================================================================
