---------------------------- MODULE MCBrowserParts ----------------------------
(* Five parts of the browser side by side on small instances: the three parts of *)
(* the pages, and what a failure is described as and what is kept with it.       *)
EXTENDS PagedList, SupportConsole, MyIssues, ErrorCapture, CapturedInput, TLC

\* Tickets and agents are only ever compared.
Symmetry == Permutations(Tickets) \cup Permutations(Agents)

TwoPlaces == {[module |-> "GL", screen |-> "Journal"], [module |-> "AP", screen |-> "Invoice"]}

Said == Message("deadlock", 7)
HttpErrors ==
    {Http(404, Url("orders", 1), None, text) : text \in {None, Said}}
    \cup {Http(0, Url("orders", 1), None, None), Http(409, Url("orders", 1), None, Said),
          Http(500, Url("orders", 1), "ERR-1", Said), Http(403, Url("orders", 1), None, None),
          Http(404, Url("health", 1), None, None)}
Stack == <<Frame("zone", TRUE), Frame("save", FALSE), Frame("run", FALSE), Frame("main", FALSE)>>
ThrownErrors ==
    {Thrown("Error", Message(m, 1), Stack) : m \in {"NG0100", "resize", "x undefined"}}
AllErrors == HttpErrors \cup ThrownErrors

Hints == {"business_rule"}
SomeNames == {"grid"}
SomeKeys == {<<"code:required">>}
\* A bare report, a hint, names, and broken rules with a name.
SomeOptions ==
    {NoOptions, [NoOptions EXCEPT !.hint = "business_rule"],
     [NoOptions EXCEPT !.component = "grid", !.form = "grid"],
     [NoOptions EXCEPT !.lov = "grid", !.keys = <<"code:required">>]}
SomeResponses == {Http(500, Url("orders", 1), "ERR-1", Said), Http(404, Url("health", 1), None, None)}
ChunkOnes == {"chunk"}
RenderOnes == {"NG0100"}
IgnoredOnes == {"resize"}
IgnoredUrls == {"health"}

\* Documents: every scalar and container, two levels deep, and one too deep.
Single(k, v) == Object([j \in {k} |-> v])
Pair(k, v, l, w) == Object([j \in {k, l} |-> IF j = k THEN v ELSE w])
ScalarValues == {Absent, Text("plain"), Text("token"), Number(5), Date("today"),
                 FormData(<<"file">>, "plain"), Blob(3, "plain")}
Small ==
    ScalarValues
    \cup {Array(<<v, Text("token"), Number(5), v>>) : v \in ScalarValues}
    \cup {Pair("code", v, "iban", w) : v, w \in ScalarValues}
Inner == {Single("iban", Array(<<v>>)) : v \in Small}
Documents ==
    Small \cup {Pair(k, v, "iban", Text("plain")) :
                   k \in {"code", "iban2"}, v \in Small}
          \cup {Array(<<v>>) : v \in Small}
          \cup {Single("code", v) : v \in Inner}

Values == Documents \cup Inner

RECURSIVE PathsIn(_)
PathsIn(v) ==
    {<< >>} \cup
        CASE v.is = "array" ->
                UNION {{<<Index(i)>> \o p : p \in PathsIn(v.items[i])} : i \in DOMAIN v.items}
          [] v.is = "object" ->
                UNION {{<<Key(k)>> \o p : p \in PathsIn(v.members[k])} : k \in DOMAIN v.members}
          [] v.is = "form" -> {<<Key("[FormData]")>>, <<Key("[FormData]"), Index(1)>>}
          [] v.is = "blob" -> {<<Key("[Blob]")>>, <<Key("[Blob]"), Key("size")>>}
          [] OTHER -> {}
AllPaths == UNION {PathsIn(v) : v \in Documents}

HeaderSets == {<< >>, <<<<"accept", "plain">>, <<"cookie", "plain">>>>}
QuerySets == {<< >>, <<<<"code", "token">>, <<"iban", "plain">>, <<"code", "plain">>>>}
Allowed == {"code"}
AllowedHeads == {"accept"}
Tokens == {"token"}

\* Forms: a group of two controls, or of a control and an array of two.
Failures ==
    {<< >>, <<[rule |-> "required", detail |-> Undefined]>>,
     <<[rule |-> "custom", detail |-> [actual |-> "plain"]],
       [rule |-> "min", detail |-> [min |-> 3, actual |-> 2]],
       [rule |-> "pattern", detail |-> [requiredPattern |-> "d+", actualValue |-> "plain"]]>>}
Leaves == {Control(f) : f \in Failures}
Rows == {Group(g, <<Child("0", l), Child("1", m)>>) : g \in Failures, l, m \in Leaves}
RefusedForms == {Group(f, <<Child("a", l), Child("b", r)>>) : f \in Failures, l \in Leaves, r \in Rows}
Levels == [n \in 0 .. 2 |-> CASE n = 0 -> Leaves [] n = 1 -> Rows \cup Leaves [] n = 2 -> RefusedForms]
RuleEntries == UNION {{f[i] : i \in DOMAIN f} : f \in Failures}
ShortPaths == UNION {[1 .. n -> {"a", "b", "0", "1"}] : n \in 0 .. 3}

SomeResults ==
    [{"success", "errorCode"} -> {"true", "false", "0", "E1"}]
    \cup [{"failed", "customer"} -> {"true", "false"}] \cup [{"errorCode"} -> {"null", "", "0", "E1"}]

\* The parts share nothing: a behaviour is of one of them, and of one input.
NoList == ListInit /\ filter = "all" /\ sort = "desc" /\ UNCHANGED listVars
NoConsole == ConsoleInit /\ rights = "none" /\ UNCHANGED consoleVars
NoPanel == MyInit /\ mine = {} /\ UNCHANGED myVars
NoCapture == Init /\ place.module = "GL" /\ UNCHANGED vars
NoInput == InitInput /\ UNCHANGED inputVars

PartsInit == ListInit /\ ConsoleInit /\ MyInit /\ Init /\ InitInput
PartsNext ==
    \/ NoConsole /\ NoPanel /\ NoCapture /\ NoInput /\ ListNext
    \/ NoList /\ NoPanel /\ NoCapture /\ NoInput /\ ConsoleNext
    \/ NoList /\ NoConsole /\ NoCapture /\ NoInput /\ MyNext
    \/ NoList /\ NoConsole /\ NoPanel /\ NoInput /\ Next
    \/ NoList /\ NoConsole /\ NoPanel /\ NoCapture /\ InitInput /\ NextInput
PartsSpec == PartsInit /\ [][PartsNext]_<<listVars, consoleVars, myVars, vars, inputVars>>
=============================================================================
