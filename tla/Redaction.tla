------------------------------ MODULE Redaction ------------------------------
(* core/redaction.ts: what is kept of a request that failed.  A value is the *)
(* JSON document the interceptor is given; texts are compared, never spelt.  *)
EXTENDS Integers, Sequences, SequencesExt

CONSTANTS
    JsonValues,         \* what requests are made of: the values, and their parts
    AllowedKeys,        \* payloadKeyAllowList, in lower case like every key here
    AllowedHeaders,     \* headerAllowList
    Credentials,        \* the texts scrubText recognises, whatever they are called
    MaxDepth,           \* 6
    MaxItems            \* elements kept of an array, 20

Absent == [is |-> "null"]
Text(t) == [is |-> "text", text |-> t]
Number(n) == [is |-> "number", number |-> n]
Date(d) == [is |-> "date", date |-> d]
Array(items) == [is |-> "array", items |-> items]
\* `members` is a function from the keys.
Object(members) == [is |-> "object", members |-> members]
\* FormData and Blob: the content is the text `inside`.
FormData(keys, inside) == [is |-> "form", keys |-> keys, inside |-> inside]
Blob(size, inside) == [is |-> "blob", size |-> size, inside |-> inside]

ASSUME DepthAssumption == MaxDepth \in Nat /\ MaxItems \in Nat
\* A part of a value is a value; and what covers a text is none of those it covers.
ASSUME JsonAssumption ==
    \A v \in JsonValues :
        \/ v = Absent
        \/ v.is = "text" /\ v = Text(v.text)
        \/ v.is = "number" /\ v = Number(v.number)
        \/ v.is = "date" /\ v = Date(v.date)
        \/ v.is = "form" /\ v = FormData(v.keys, v.inside) /\ v.keys \in Seq(STRING)
        \/ v.is = "blob" /\ v = Blob(v.size, v.inside)
        \/ v.is = "array" /\ v = Array(v.items) /\ v.items \in Seq(JsonValues)
        \/ v.is = "object" /\ v = Object(v.members)
              /\ \A k \in DOMAIN v.members : v.members[k] \in JsonValues
ASSUME MaskAssumption == {"***", "[max depth]"} \cap Credentials = {}

Redacted == Text("***")
TooDeep == Text("[max depth]")
More(n) == [is |-> "more", count |-> n]

\* scrubText: JWTs, bearer tokens, connection strings, card numbers that satisfy luhn.
Scrub(t) == IF t \in Credentials THEN Redacted ELSE Text(t)

\* A member that is neither an object nor an array.
KeepScalar(k, v) ==
    IF k \notin AllowedKeys THEN Redacted
    ELSE IF v.is = "text" THEN Scrub(v.text) ELSE v

IsNested(v) == v.is \notin {"null", "text", "number"}

\* Mutation: an allow-listed member is kept with everything below it.
RedactMemberWhole(k, v, below) ==
    IF k \in AllowedKeys THEN v ELSE IF IsNested(v) THEN below[v] ELSE Redacted

RedactMember(k, v, below) == IF IsNested(v) THEN below[v] ELSE KeepScalar(k, v)

\* The first MaxItems elements, and how many more there were.
RedactItems(items, below) ==
    [i \in 1 .. (IF Len(items) > MaxItems THEN MaxItems + 1 ELSE Len(items)) |->
        IF i > MaxItems THEN More(Len(items) - MaxItems) ELSE below[items[i]]]

\* The null test comes before the depth test, that before all others; `below` is
\* what becomes of a value one level down.
Redact(v, depth, below) ==
    CASE v.is = "null" -> v
      [] v.is # "null" /\ depth > MaxDepth -> TooDeep
      [] v.is = "array" /\ depth <= MaxDepth -> Array(RedactItems(v.items, below))
      [] v.is = "object" /\ depth <= MaxDepth ->
            Object([k \in DOMAIN v.members |-> RedactMember(k, v.members[k], below)])
      [] v.is = "form" /\ depth <= MaxDepth ->
            Object([k \in {"[FormData]"} |-> Array([i \in DOMAIN v.keys |-> Text(v.keys[i])])])
      [] v.is = "blob" /\ depth <= MaxDepth ->
            Object([k \in {"[Blob]"} |-> Object([j \in {"size"} |-> Number(v.size)])])
      [] v.is = "text" /\ depth <= MaxDepth -> Scrub(v.text)
      [] v.is \in {"number", "date"} /\ depth <= MaxDepth -> v

RedactFrom[depth \in 0 .. MaxDepth + 1] ==
    [v \in JsonValues |-> Redact(v, depth, RedactFrom[depth + 1])]

RedactObject(v) == RedactFrom[0][v]

\* Headers and query parameters are sequences of <<name, text>>; the result is
\* a JavaScript object, in which the last of two equal names wins.
RedactNamed(pairs, allowed) ==
    [k \in {pairs[i][1] : i \in DOMAIN pairs} |->
        IF k \notin allowed THEN Redacted
        ELSE Scrub(pairs[SelectLastInSeq(pairs, LAMBDA p : p[1] = k)][2])]

RedactHeaders(headers) == RedactNamed(headers, AllowedHeaders)
RedactQueryString(query) == RedactNamed(query, AllowedKeys)

-----------------------------------------------------------------------------
(* The reference: what a path leads to, step by step. A step is a key or an *)
(* array's index.                                                            *)

Key(k) == [key |-> k, index |-> 0]
Index(i) == [key |-> "", index |-> i]
Nowhere == [is |-> "nowhere"]

Part(v, step) ==
    CASE v.is = "array" /\ step.index \in DOMAIN v.items -> v.items[step.index]
      [] v.is = "object" /\ step.index = 0 /\ step.key \in DOMAIN v.members -> v.members[step.key]
      [] OTHER -> Nowhere

At(v, path) ==
    LET at[i \in 0 .. Len(path)] == IF i = 0 THEN v ELSE Part(at[i - 1], path[i])
    IN  at[Len(path)]

=============================================================================
