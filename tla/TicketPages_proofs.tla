-------------------------- MODULE TicketPages_proofs --------------------------
(* Theorems about the pages that show tickets: the console's list and queue,  *)
(* and the panel of one's own issues. Each part below is about one of the     *)
(* three modules, for every value of its constants.                           *)
EXTENDS PagedList, SupportConsole, MyIssues, FiniteSetTheorems, TLAPS

(* The list of the console keeps its type and shows what its controls say,    *)
(* for every set of filters and every bound.                                  *)

\* The last request, while no answer was overtaken or lost, is still awaited or
\* is what is shown; and it was asked with what the controls say.
LastIsShownOrAwaited ==
    /\ pagesInOrder /\ pagesAsked > 0
          => \/ \E c \in pageCalls : c.n = pagesAsked
             \/ shown # NoPage /\ shown.n = pagesAsked
    /\ shown # NoPage => shown.n <= pagesAsked
    /\ ~typing /\ shown # NoPage /\ shown.n = pagesAsked
          => shown.sort = sort /\ shown.filter = filter
    /\ ~typing => \A c \in pageCalls : c.n = pagesAsked => c.sort = sort /\ c.filter = filter

ListInv == ListTypeOK /\ LastIsShownOrAwaited

LEMMA ListInitInv == ListInit => ListInv
<1> SUFFICES ASSUME ListInit PROVE ListInv  OBVIOUS
<1>1. ListTypeOK
  <2>1. 0 \in 0 .. MaxAsked  BY PagedListAssumption
  <2> QED  BY <2>1 DEF ListInit, ListTypeOK, Sorts
<1>2. LastIsShownOrAwaited  BY DEF ListInit, LastIsShownOrAwaited
<1> QED  BY <1>1, <1>2 DEF ListInv

(* A request is the last one, and asks for what the controls will say.           *)
LEMMA GetInv ==
    ASSUME ListInv, sort' \in Sorts, filter' \in Filters, NEW k, k \in Int, Get(sort', filter', k)
    PROVE  ListInv'
<1> DEFINE new == [n |-> pagesAsked + 1, sort |-> sort', filter |-> filter',
                   page |-> IF k < 1 THEN 1 ELSE k]
<1>1. pagesAsked \in Nat /\ MaxAsked \in Nat /\ pagesAsked + 1 \in 0 .. MaxAsked
  BY PagedListAssumption DEF ListInv, ListTypeOK, Get
<1>2. new \in PageCall
  <2>1. (IF k < 1 THEN 1 ELSE k) \in Nat  OBVIOUS
  <2> QED  BY <1>1, <2>1 DEF PageCall
<1>3. /\ pagesAsked' = pagesAsked + 1 /\ pageCalls' = pageCalls \cup {new}
      /\ typing' = FALSE /\ shown' = shown /\ pagesInOrder' = pagesInOrder
  BY DEF Get
<1>4. \A c \in pageCalls : c \in PageCall /\ c.n \in Nat /\ c.n <= pagesAsked
  BY DEF ListInv, ListTypeOK, PageCall
<1>5. new.n = pagesAsked + 1 /\ new.sort = sort' /\ new.filter = filter'  OBVIOUS
<1> HIDE DEF new
<1>6. ListTypeOK'
  <2>1. pageCalls' \subseteq PageCall  BY <1>2, <1>3, <1>4
  <2>2. \A c \in pageCalls' : c.n <= pagesAsked'  BY <1>1, <1>3, <1>4, <1>5
  <2>3. shown' \in Page \cup {NoPage} /\ pagesInOrder' \in BOOLEAN /\ typing' \in BOOLEAN
    BY <1>3 DEF ListInv, ListTypeOK
  <2> QED  BY <1>1, <1>3, <2>1, <2>2, <2>3 DEF ListTypeOK
<1>7. shown # NoPage => shown.n \in Nat /\ shown.n <= pagesAsked
  BY DEF ListInv, ListTypeOK, LastIsShownOrAwaited, Page
<1>8. LastIsShownOrAwaited'
  <2>1. \E c \in pageCalls' : c.n = pagesAsked'  BY <1>3, <1>5
  <2>2. shown' # NoPage => shown'.n <= pagesAsked' /\ shown'.n # pagesAsked'
    BY <1>1, <1>3, <1>7
  <2>3. \A c \in pageCalls' : c.n = pagesAsked' => c.sort = sort' /\ c.filter = filter'
    BY <1>1, <1>3, <1>4, <1>5
  <2> QED  BY <2>1, <2>2, <2>3 DEF LastIsShownOrAwaited
<1> QED  BY <1>6, <1>8 DEF ListInv

LEMMA ListStepInv == ListInv /\ [ListNext]_listVars => ListInv'
<1> SUFFICES ASSUME ListInv, [ListNext]_listVars PROVE ListInv'  OBVIOUS
<1> USE DEF ListInv
<1>0. /\ sort \in Sorts /\ filter \in Filters /\ pagesAsked \in Nat
      /\ \A c \in pageCalls : c \in PageCall /\ c.n \in Nat /\ c.n > 0 /\ c.n <= pagesAsked
      /\ shown # NoPage => shown \in Page /\ shown.n \in Nat /\ shown.page \in Nat
  BY DEF ListTypeOK, PageCall, Page
<1>1. CASE Reload
  <2>1. ShownPage \in Int  BY <1>0 DEF ShownPage
  <2> QED  BY <1>0, <1>1, <2>1, GetInv DEF Reload
<1>2. CASE GoPrevious
  <2>1. shown.page - 1 \in Int  BY <1>0, <1>2 DEF GoPrevious
  <2> QED  BY <1>0, <1>2, <2>1, GetInv DEF GoPrevious
<1>3. CASE GoNext
  <2>1. shown.page + 1 \in Int  BY <1>0, <1>3 DEF GoNext
  <2> QED  BY <1>0, <1>3, <2>1, GetInv DEF GoNext
<1>4. ASSUME NEW key \in Sorts \ {"asc"}, SortBy(key) PROVE ListInv'
  <2>1. sort' \in Sorts /\ filter' = filter  BY <1>4 DEF SortBy, Flipped, Sorts
  <2>2. Get(sort', filter', 1)  BY <1>4, <2>1 DEF SortBy
  <2> QED  BY <1>0, <2>1, <2>2, GetInv
<1>5. ASSUME NEW f \in Filters, FilterBy(f) PROVE ListInv'
  <2>1. sort' = sort /\ filter' = f /\ Get(sort', filter', 1)  BY <1>5 DEF FilterBy
  <2> QED  BY <1>0, <2>1, GetInv
<1>6. ASSUME NEW f \in Filters, TypeSearch(f) PROVE ListInv'
  BY <1>6 DEF TypeSearch, ListTypeOK, LastIsShownOrAwaited
<1>7. ASSUME NEW c \in pageCalls, PageFailed(c) PROVE ListInv'
  BY <1>7 DEF PageFailed, ListTypeOK, LastIsShownOrAwaited
<1>8. ASSUME NEW c \in pageCalls, NEW pages \in 0 .. MaxPages, PageAnswered(c, pages) PROVE ListInv'
  <2> DEFINE p == [n |-> c.n, sort |-> c.sort, filter |-> c.filter, page |-> c.page, pages |-> pages]
  <2>1. p \in Page  BY <1>0 DEF Page, PageCall
  <2>2. /\ shown' = p /\ pageCalls' = pageCalls \ {c}
        /\ pagesInOrder' = (pagesInOrder /\ (shown # NoPage => shown.n < c.n))
        /\ UNCHANGED <<sort, filter, typing, pagesAsked>>
    BY <1>8 DEF PageAnswered
  <2>3. p.n = c.n /\ p.sort = c.sort /\ p.filter = c.filter  OBVIOUS
  <2> HIDE DEF p
  <2>4. ListTypeOK'
    <3>1. pageCalls' \subseteq PageCall /\ \A d \in pageCalls' : d.n <= pagesAsked  BY <1>0, <2>2
    <3>2. pagesInOrder' \in BOOLEAN  BY <2>2
    <3> QED  BY <2>1, <2>2, <3>1, <3>2 DEF ListTypeOK
  <2>5. pagesInOrder' => \/ \E d \in pageCalls' : d.n = pagesAsked'
                         \/ shown'.n = pagesAsked'
    <3> SUFFICES ASSUME pagesInOrder', c.n # pagesAsked PROVE \E d \in pageCalls' : d.n = pagesAsked
      BY <2>2, <2>3
    <3>1. pagesInOrder /\ (shown # NoPage => shown.n < c.n)  BY <2>2
    <3>2. shown # NoPage => shown.n # pagesAsked  BY <1>0, <3>1
    <3>3. PICK d \in pageCalls : d.n = pagesAsked
      BY <1>0, <3>1, <3>2 DEF LastIsShownOrAwaited
    <3> QED  BY <2>2, <3>3
  <2>6. shown'.n <= pagesAsked'  BY <1>0, <2>2, <2>3
  <2>7. ~typing' /\ shown'.n = pagesAsked' => shown'.sort = sort' /\ shown'.filter = filter'
    BY <2>2, <2>3 DEF LastIsShownOrAwaited
  <2>8. ~typing' => \A d \in pageCalls' : d.n = pagesAsked' => d.sort = sort' /\ d.filter = filter'
    BY <2>2 DEF LastIsShownOrAwaited
  <2>9. shown' # NoPage  BY <2>1, <2>2, PagedListAssumption
  <2> QED  BY <2>4, <2>5, <2>6, <2>7, <2>8, <2>9 DEF LastIsShownOrAwaited
<1>9. CASE UNCHANGED listVars
  BY <1>9 DEF listVars, ListTypeOK, LastIsShownOrAwaited
<1> QED  BY <1>1, <1>2, <1>3, <1>4, <1>5, <1>6, <1>7, <1>8, <1>9 DEF ListNext

LEMMA ListInvImplies == ListInv => ListMatchesControls
<1> SUFFICES ASSUME ListInv, ~typing PROVE
      /\ pagesInOrder /\ pageCalls = {} /\ shown # NoPage => shown.sort = sort /\ shown.filter = filter
      /\ \A c \in pageCalls : c.n = pagesAsked => c.sort = sort /\ c.filter = filter
  BY DEF ListMatchesControls
<1>1. ASSUME pagesInOrder, pageCalls = {}, shown # NoPage
      PROVE  shown.sort = sort /\ shown.filter = filter
  <2>1. shown.n \in Nat /\ shown.n > 0 /\ shown.n <= pagesAsked /\ pagesAsked \in Nat
    BY <1>1 DEF ListInv, ListTypeOK, Page, LastIsShownOrAwaited
  <2>2. shown.n = pagesAsked  BY <1>1, <2>1 DEF ListInv, LastIsShownOrAwaited
  <2> QED  BY <1>1, <2>2 DEF ListInv, LastIsShownOrAwaited
<1>2. \A c \in pageCalls : c.n = pagesAsked => c.sort = sort /\ c.filter = filter
  BY DEF ListInv, LastIsShownOrAwaited
<1> QED  BY <1>1, <1>2

(* The type of the list's state: requests are numbered in the order they are     *)
(* made (goProblems, reloadErrors) and the page that is drawn came from one.     *)
THEOREM ListTypeCorrect == ListSpec => []ListTypeOK
<1>1. ListInv => ListTypeOK  BY DEF ListInv
<1> QED  BY ListInitInv, ListStepInv, <1>1, PTL DEF ListSpec

(* The list that is shown, once every answer has come in order, is the one that  *)
(* sortErrors, sortProblems and the filters asked for last.                      *)
THEOREM ListShowsWhatWasAsked == ListSpec => []ListMatchesControls
<1> QED  BY ListInitInv, ListStepInv, ListInvImplies, PTL DEF ListSpec

-----------------------------------------------------------------------------
(* The ticket queue of the support console, for any number of tickets,        *)
(* agents, clicks and failing requests.  That the page shows its own change   *)
(* is not inductive: while a read that is older than the change is on its way *)
(* or on the screen, something newer must still be to come (WillBeRead):      *)
(* whoami or the queue, which lead to a read of the open ticket, or a later   *)
(* read.                                                                      *)

ConsoleCall ==
    [n : Nat, kind : Kinds, ticket : Tickets \cup {Nil}, to : Agents \cup {Nil},
     served : BOOLEAN, source : Tickets \cup {Nil}, owner : Agents \cup {Nil}, version : Nat]

ConsoleTyped ==
    /\ owner \in [Tickets -> Agents \cup {Nil}]
    /\ version \in [Tickets -> Nat] /\ own \in [Tickets -> Nat]
    /\ rights \in Rights /\ asked \in Nat /\ inOrder \in BOOLEAN
    /\ listed \subseteq Tickets /\ assignable \subseteq Agents
    /\ assignTarget \in Agents \cup {Nil} /\ source \in Tickets \cup {Nil}
    /\ selected \in Read \cup {Nil}
    /\ selected # Nil => selected.n <= asked
    /\ consoleCalls \subseteq ConsoleCall
    /\ \A c \in consoleCalls :
          c.n <= asked /\ (c.kind \in {"detail", "assign", "status"} => c.ticket \in Tickets)

\* Without rights the page never gets past whoami.
StoppedAtTheDoor ==
    rights = "none" =>
        selected = Nil /\ listed = {} /\ \A c \in consoleCalls : c.kind = "whoami"

\* Only the open ticket is changed, and a ticket stays open.
NothingOpenNothingDone ==
    selected = Nil =>
        /\ \A c \in consoleCalls : c.kind \notin {"assign", "status"}
        /\ \A t \in Tickets : own[t] = 0

ChangesAreTheServers ==
    /\ \A t \in Tickets : own[t] <= version[t]
    /\ \A c \in consoleCalls : c.served /\ c.kind \in {"assign", "status"}
          => c.version <= version[c.ticket]

PickerFollows == selected # Nil => source = selected.ticket

Stale(r) == r.version < own[r.ticket]

\* Something on its way ends in a read that is newer than read n and not stale.
ToCome(n) ==
    \E p \in consoleCalls :
        \/ p.kind \in {"whoami", "queue"}
        \/ p.kind = "detail" /\ p.n > n /\ (p.served => ~Stale(p))

WillBeRead ==
    inOrder =>
        /\ selected # Nil /\ Stale(selected) => ToCome(selected.n)
        /\ \A c \in consoleCalls :
              /\ c.kind = "detail" /\ c.served /\ Stale(c)
              /\ selected # Nil => c.n > selected.n
              => ToCome(c.n)

ConsoleInv ==
    /\ ConsoleTyped
    /\ StoppedAtTheDoor
    /\ NothingOpenNothingDone
    /\ ChangesAreTheServers
    /\ PickerFollows
    /\ PickBelongsToTicket
    /\ WillBeRead

-----------------------------------------------------------------------------
(* What Issue adds and removes.                                            *)

Reads == {"whoami", "roster", "queue", "detail"}

\* What is left of the requests in flight, and what joins them.
Added(done, kinds, t) ==
    /\ asked' \in Nat /\ asked <= asked'
    /\ consoleCalls \ done \subseteq consoleCalls'
    /\ \A c \in consoleCalls' :
          \/ c \in consoleCalls \ done
          \/ /\ c \in ConsoleCall /\ c.kind \in kinds
             /\ asked < c.n /\ c.n <= asked'
             /\ c.kind = "detail" => ~c.served /\ c.ticket = t
    /\ \A k \in kinds : \E c \in consoleCalls' :
          /\ c.kind = k /\ asked < c.n
          /\ k = "detail" => ~c.served

LEMMA IssueAdds ==
    ASSUME ConsoleTyped,
           NEW done, NEW kinds \in SUBSET Reads, NEW t \in Tickets \cup {Nil},
           Issue(done, kinds, t)
    PROVE  Added(done, kinds, t)
<1> DEFINE new == {k \in Kinds : k \in kinds}
           From(k) == {j \in new : j = k \/ <<j, k>> \in
                          {<<"whoami", "detail">>, <<"queue", "roster">>}}
           Place(k) == asked + Cardinality(From(k))
           Asked(k) == Ask(Place(k), k, IF k = "detail" THEN t ELSE Nil, Nil)
<1>1. IsFiniteSet(new) /\ new = kinds
  <2>1. IsFiniteSet({}) BY FS_EmptySet
  <2>2. IsFiniteSet({} \cup {"whoami"}) BY <2>1, FS_AddElement
  <2>3. IsFiniteSet(({} \cup {"whoami"}) \cup {"roster"}) BY <2>2, FS_AddElement
  <2>4. IsFiniteSet((({} \cup {"whoami"}) \cup {"roster"}) \cup {"queue"}) BY <2>3, FS_AddElement
  <2>5. IsFiniteSet(((({} \cup {"whoami"}) \cup {"roster"}) \cup {"queue"}) \cup {"detail"})
    BY <2>4, FS_AddElement
  <2>6. new = kinds BY DEF Kinds, Reads
  <2>7. new \subseteq ((({} \cup {"whoami"}) \cup {"roster"}) \cup {"queue"}) \cup {"detail"}
    BY <2>6 DEF Reads
  <2> QED BY <2>5, <2>6, <2>7, FS_Subset
<1>2. Cardinality(new) \in Nat BY <1>1, FS_CardinalityType
<1>3. ASSUME NEW k \in new
      PROVE  Place(k) \in Nat /\ asked < Place(k) /\ Place(k) <= asked + Cardinality(new)
  <2>1. From(k) \subseteq new /\ k \in From(k) OBVIOUS
  <2>2. IsFiniteSet(From(k)) /\ Cardinality(From(k)) <= Cardinality(new)
    BY <2>1, <1>1, FS_Subset
  <2>3. Cardinality(From(k)) \in Nat /\ Cardinality(From(k)) # 0
    BY <2>1, <2>2, FS_CardinalityType, FS_EmptySet
  <2>4. asked \in Nat BY DEF ConsoleTyped
  <2> QED BY <2>2, <2>3, <2>4, <1>2
<1>4. /\ consoleCalls' = (consoleCalls \ done) \cup {Asked(k) : k \in new}
      /\ asked' = asked + Cardinality(new)
  BY DEF Issue
<1>5. ASSUME NEW k \in new
      PROVE  /\ Asked(k) \in ConsoleCall /\ Asked(k).kind = k /\ Asked(k).n = Place(k)
             /\ k = "detail" => ~Asked(k).served /\ Asked(k).ticket = t
  <2> HIDE DEF Place
  <2>1. Place(k) \in Nat BY <1>3 DEF Place
  <2>2. k \in Kinds /\ source \in Tickets \cup {Nil} BY DEF ConsoleTyped
  <2> DEFINE answered == k \in {"whoami", "roster", "queue"}
             home == IF k = "detail" THEN t ELSE Nil
             from == IF k = "assign" THEN source ELSE Nil
  <2>3. /\ answered \in BOOLEAN
        /\ home \in Tickets \cup {Nil}
        /\ from \in Tickets \cup {Nil}
        /\ k = "detail" => answered = FALSE /\ home = t
    BY <2>2
  <2>4. Asked(k) = [n |-> Place(k), kind |-> k, ticket |-> home, to |-> Nil,
                    served |-> answered, source |-> from, owner |-> Nil, version |-> 0]
    BY Zenon DEF Ask
  <2> HIDE DEF Asked, answered, home, from
  <2>5. Asked(k) \in ConsoleCall BY <2>1, <2>2, <2>3, <2>4 DEF ConsoleCall
  <2>6. /\ Asked(k).kind = k /\ Asked(k).n = Place(k)
        /\ Asked(k).served = answered /\ Asked(k).ticket = home
    BY <2>4
  <2> QED BY <2>3, <2>5, <2>6
<1> HIDE DEF Place, Asked, new
<1>6. asked' \in Nat /\ asked <= asked' BY <1>2, <1>4 DEF ConsoleTyped
<1>7. ASSUME NEW c \in consoleCalls', c \notin consoleCalls \ done
      PROVE  /\ c \in ConsoleCall /\ c.kind \in kinds
             /\ asked < c.n /\ c.n <= asked'
             /\ c.kind = "detail" => ~c.served /\ c.ticket = t
  <2>1. PICK k \in new : c = Asked(k) BY <1>4, <1>7
  <2> QED BY <2>1, <1>1, <1>3, <1>4, <1>5
<1>8. ASSUME NEW k \in kinds
      PROVE  \E c \in consoleCalls' : c.kind = k /\ asked < c.n /\ (k = "detail" => ~c.served)
  <2>1. k \in new BY <1>1
  <2>2. Asked(k) \in consoleCalls' BY <1>4, <2>1
  <2> QED BY <2>1, <2>2, <1>3, <1>5
<1> QED BY <1>4, <1>6, <1>7, <1>8 DEF Added

(* What holds after any step that issues reads and leaves the server alone. *)
LEMMA IssueKeeps ==
    ASSUME ConsoleInv,
           NEW done, NEW kinds \in SUBSET Reads, NEW t \in Tickets \cup {Nil},
           "detail" \in kinds => t \in Tickets,
           Issue(done, kinds, t), UNCHANGED version
    PROVE  /\ asked' \in Nat /\ asked <= asked'
           /\ consoleCalls' \subseteq ConsoleCall
           /\ \A c \in consoleCalls' :
                 c.n <= asked' /\ (c.kind \in {"detail", "assign", "status"} => c.ticket \in Tickets)
           /\ \A c \in consoleCalls' : c.served /\ c.kind \in {"assign", "status"}
                 => c \in consoleCalls /\ c.version <= version'[c.ticket]
           /\ PickBelongsToTicket'
<1>1. ConsoleTyped /\ ChangesAreTheServers /\ PickBelongsToTicket BY DEF ConsoleInv
<1>2. /\ asked' \in Nat /\ asked <= asked'
      /\ \A c \in consoleCalls' :
            \/ c \in consoleCalls
            \/ /\ c \in ConsoleCall /\ c.kind \in kinds /\ c.n <= asked'
               /\ c.kind = "detail" => c.ticket = t
  BY <1>1, IssueAdds DEF Added
<1>3. \A c \in consoleCalls : c \in ConsoleCall /\ c.n \in Nat /\ c.n <= asked /\ asked \in Nat
  BY <1>1 DEF ConsoleTyped, ConsoleCall
<1>4. \A c \in consoleCalls' :
          c.n <= asked' /\ (c.kind \in {"detail", "assign", "status"} => c.ticket \in Tickets)
  <2> SUFFICES ASSUME NEW c \in consoleCalls'
               PROVE  c.n <= asked' /\ (c.kind \in {"detail", "assign", "status"} => c.ticket \in Tickets)
    OBVIOUS
  <2>1. CASE c \in consoleCalls BY <2>1, <1>1, <1>2, <1>3 DEF ConsoleTyped
  <2>2. CASE c \notin consoleCalls BY <2>2, <1>2 DEF Reads
  <2> QED BY <2>1, <2>2
<1>5. \A c \in consoleCalls' : c.kind \in {"assign", "status"} => c \in consoleCalls
  BY <1>2 DEF Reads
<1>6. \A c \in consoleCalls' : c.served /\ c.kind \in {"assign", "status"}
          => c \in consoleCalls /\ c.version <= version'[c.ticket]
  BY <1>1, <1>5 DEF ChangesAreTheServers
<1>7. PickBelongsToTicket' BY <1>1, <1>5 DEF PickBelongsToTicket
<1> QED BY <1>2, <1>3, <1>4, <1>6, <1>7

(* Nothing is asked: the answered request is gone.                         *)
LEMMA IssueNothing ==
    ASSUME ConsoleInv, NEW c, Issue({c}, {}, Nil)
    PROVE  consoleCalls' = consoleCalls \ {c} /\ asked' = asked
<1>1. {k \in Kinds : k \in {}} = {} BY DEF Kinds
<1>2. Cardinality({k \in Kinds : k \in {}}) = 0 BY <1>1, FS_EmptySet
<1>3. asked' = asked BY <1>2 DEF Issue, ConsoleInv, ConsoleTyped
<1>4. consoleCalls' = consoleCalls \ {c} BY <1>1 DEF Issue
<1> QED BY <1>3, <1>4

-----------------------------------------------------------------------------
(* The server's steps.                                                     *)

LEMMA ServeDetailKeeps ==
    ASSUME ConsoleInv, NEW c \in consoleCalls, ServeDetail(c)
    PROVE  ConsoleInv'
<1> USE DEF ConsoleInv
<1> DEFINE d == [c EXCEPT !.served = TRUE, !.owner = owner[c.ticket], !.version = version[c.ticket]]
<1>1. /\ c \in ConsoleCall /\ c.kind = "detail" /\ ~c.served /\ c.ticket \in Tickets
      /\ c.n \in Nat /\ c.n <= asked
  BY DEF ConsoleTyped, ServeDetail, ConsoleCall
<1>2. /\ d \in ConsoleCall /\ d.kind = "detail" /\ d.served /\ d.ticket = c.ticket /\ d.n = c.n
      /\ d.version = version[c.ticket]
  BY <1>1 DEF ConsoleTyped, ConsoleCall
<1>3. /\ consoleCalls' = (consoleCalls \ {c}) \cup {d}
      /\ UNCHANGED <<server, page, clicks, asked, inOrder, own>>
  BY DEF ServeDetail
<1> HIDE DEF d
<1>4. ~Stale(d) BY <1>1, <1>2 DEF Stale, ConsoleTyped, ChangesAreTheServers
<1>5. ConsoleTyped' BY <1>1, <1>2, <1>3 DEF ConsoleTyped, server, page
<1>6. StoppedAtTheDoor' BY <1>1, <1>2, <1>3 DEF StoppedAtTheDoor, server, page
<1>7. NothingOpenNothingDone' BY <1>2, <1>3 DEF NothingOpenNothingDone, page
<1>8. ChangesAreTheServers' BY <1>2, <1>3 DEF ChangesAreTheServers, server
<1>9. PickerFollows' /\ PickBelongsToTicket'
  BY <1>2, <1>3 DEF PickerFollows, PickBelongsToTicket, page
<1>10. ASSUME NEW n, ToCome(n) PROVE ToCome(n)'
  BY <1>1, <1>2, <1>3, <1>4, <1>10 DEF ToCome, Stale
<1>11. WillBeRead' BY <1>2, <1>3, <1>4, <1>10 DEF WillBeRead, Stale, page
<1> QED BY <1>5, <1>6, <1>7, <1>8, <1>9, <1>11

(* Serving a change raises a version and answers one request.              *)
LEMMA ServeChangeKeeps ==
    ASSUME ConsoleInv, NEW c \in consoleCalls, ServeChange(c)
    PROVE  ConsoleInv'
<1> USE DEF ConsoleInv
<1> DEFINE d == [c EXCEPT !.served = TRUE, !.version = version[c.ticket] + 1]
           to == IF c.kind = "status" /\ c.to = Nil THEN owner[c.ticket] ELSE c.to
<1>1. /\ c \in ConsoleCall /\ c.kind \in {"assign", "status"} /\ ~c.served /\ c.ticket \in Tickets
      /\ c.n \in Nat /\ c.n <= asked
  BY DEF ConsoleTyped, ServeChange, ConsoleCall
<1>2. version[c.ticket] \in Nat /\ version[c.ticket] + 1 \in Nat /\ to \in Agents \cup {Nil}
  BY <1>1 DEF ConsoleTyped, ConsoleCall
<1>3. /\ d \in ConsoleCall /\ d.kind = c.kind /\ d.served /\ d.ticket = c.ticket /\ d.n = c.n
      /\ d.version = version[c.ticket] + 1 /\ d.source = c.source
  BY <1>1, <1>2 DEF ConsoleTyped, ConsoleCall
<1>4. /\ consoleCalls' = (consoleCalls \ {c}) \cup {d}
      /\ owner' = [owner EXCEPT ![c.ticket] = to]
      /\ version' = [version EXCEPT ![c.ticket] = @ + 1]
      /\ UNCHANGED <<rights, page, asked, inOrder, own>>
  BY DEF ServeChange, Change
<1> HIDE DEF d, to
<1>5. /\ version' \in [Tickets -> Nat] /\ owner' \in [Tickets -> Agents \cup {Nil}]
      /\ \A t \in Tickets : version[t] <= version'[t]
      /\ version'[c.ticket] = version[c.ticket] + 1
  BY <1>1, <1>2, <1>4 DEF ConsoleTyped
<1>6. ConsoleTyped' BY <1>1, <1>3, <1>4, <1>5 DEF ConsoleTyped, page
<1>7. StoppedAtTheDoor' BY <1>1, <1>4 DEF StoppedAtTheDoor, page
<1>8. NothingOpenNothingDone' BY <1>1, <1>3, <1>4 DEF NothingOpenNothingDone, page
<1>9. ChangesAreTheServers'
  <2>1. \A t \in Tickets : own'[t] <= version'[t]
    BY <1>4, <1>5 DEF ChangesAreTheServers, ConsoleTyped
  <2>2. ASSUME NEW e \in consoleCalls', e.served, e.kind \in {"assign", "status"}
        PROVE  e.version <= version'[e.ticket]
    <3>1. CASE e = d BY <3>1, <1>2, <1>3, <1>5
    <3>2. CASE e # d
      <4>1. e \in consoleCalls /\ e \in ConsoleCall /\ e.ticket \in Tickets /\ e.version \in Nat
        BY <3>2, <2>2, <1>4 DEF ConsoleTyped, ConsoleCall
      <4>2. e.version <= version[e.ticket] BY <4>1, <2>2 DEF ChangesAreTheServers
      <4> QED BY <4>1, <4>2, <1>5 DEF ConsoleTyped
    <3> QED BY <3>1, <3>2
  <2> QED BY <2>1, <2>2 DEF ChangesAreTheServers
<1>10. PickerFollows' /\ PickBelongsToTicket'
  BY <1>3, <1>4 DEF PickerFollows, PickBelongsToTicket, page
<1>11. ASSUME NEW n, ToCome(n) PROVE ToCome(n)'
  BY <1>1, <1>4, <1>11 DEF ToCome, Stale
<1>12. WillBeRead' BY <1>1, <1>3, <1>4, <1>11 DEF WillBeRead, Stale, page
<1> QED BY <1>6, <1>7, <1>8, <1>9, <1>10, <1>12

LEMMA OtherAgentKeeps ==
    ASSUME ConsoleInv, NEW t \in Tickets, NEW a \in Agents \cup {Nil}, OtherAgent(t, a)
    PROVE  ConsoleInv'
<1> USE DEF ConsoleInv
<1>1. /\ version' = [version EXCEPT ![t] = @ + 1] /\ owner' = [owner EXCEPT ![t] = a]
      /\ UNCHANGED <<rights, page, asked, consoleCalls, inOrder, own>>
  BY DEF OtherAgent, Change
<1>2. /\ version' \in [Tickets -> Nat] /\ owner' \in [Tickets -> Agents \cup {Nil}]
      /\ \A u \in Tickets : version[u] \in Nat /\ version'[u] \in Nat /\ version[u] <= version'[u]
  BY <1>1 DEF ConsoleTyped
<1>3. ConsoleTyped' BY <1>1, <1>2 DEF ConsoleTyped, page
<1>4. ChangesAreTheServers'
  <2>1. \A c \in consoleCalls : c \in ConsoleCall /\ c.version \in Nat
           /\ (c.kind \in {"assign", "status"} => c.ticket \in Tickets)
    BY DEF ConsoleTyped, ConsoleCall
  <2> QED BY <1>1, <1>2, <2>1 DEF ChangesAreTheServers, ConsoleTyped
<1>5. /\ StoppedAtTheDoor' /\ NothingOpenNothingDone' /\ PickerFollows' /\ PickBelongsToTicket'
      /\ WillBeRead'
  BY <1>1 DEF StoppedAtTheDoor, NothingOpenNothingDone, PickerFollows, PickBelongsToTicket,
              WillBeRead, ToCome, Stale, page
<1> QED BY <1>3, <1>4, <1>5

-----------------------------------------------------------------------------
(* The page's steps that ask for something.                                *)

(* A step that asks for whoami, or for the queue, leaves something to come *)
(* whatever is stale.                                                      *)
LEMMA SomethingToCome ==
    ASSUME NEW done, NEW kinds, NEW t, Added(done, kinds, t),
           "whoami" \in kinds \/ "queue" \in kinds
    PROVE  WillBeRead'
<1>1. \E c \in consoleCalls' : c.kind \in {"whoami", "queue"} BY DEF Added
<1> QED BY <1>1 DEF WillBeRead, ToCome

LEMMA RefreshKeeps ==
    ASSUME ConsoleInv, Refresh
    PROVE  ConsoleInv'
<1> USE DEF ConsoleInv
<1>1. {"whoami"} \in SUBSET Reads BY DEF Reads
<1>2. Issue({}, {"whoami"}, Nil) /\ UNCHANGED <<server, page, inOrder, own>> BY DEF Refresh
<1>3. Added({}, {"whoami"}, Nil) BY <1>1, <1>2, IssueAdds
<1>4. UNCHANGED version BY <1>2 DEF server
<1>5. /\ asked' \in Nat /\ asked <= asked'
      /\ consoleCalls' \subseteq ConsoleCall
      /\ \A c \in consoleCalls' :
            c.n <= asked' /\ (c.kind \in {"detail", "assign", "status"} => c.ticket \in Tickets)
      /\ \A c \in consoleCalls' : c.served /\ c.kind \in {"assign", "status"}
            => c \in consoleCalls /\ c.version <= version'[c.ticket]
      /\ PickBelongsToTicket'
  BY <1>1, <1>2, <1>4, IssueKeeps
<1>6. ConsoleTyped' BY <1>2, <1>5 DEF ConsoleTyped, server, page, Read
<1>7. StoppedAtTheDoor' /\ NothingOpenNothingDone'
  BY <1>2, <1>3 DEF StoppedAtTheDoor, NothingOpenNothingDone, Added, server, page
<1>8. ChangesAreTheServers' BY <1>2, <1>5 DEF ChangesAreTheServers, server
<1>9. PickerFollows' BY <1>2 DEF PickerFollows, page
<1>10. WillBeRead' BY <1>3, SomethingToCome
<1> QED BY <1>5, <1>6, <1>7, <1>8, <1>9, <1>10

LEMMA WhoAmIKeeps ==
    ASSUME ConsoleInv, NEW c \in consoleCalls, WhoAmIAnswered(c)
    PROVE  ConsoleInv'
<1> USE DEF ConsoleInv
<1> DEFINE kinds == CASE rights = "none" -> {} [] rights = "reader" -> {"queue"}
                      [] rights = "manager" -> {"queue", "roster"}
<1>1. /\ kinds \in SUBSET Reads /\ "detail" \notin kinds
      /\ rights = "none" => kinds = {}
      /\ rights # "none" => "queue" \in kinds
      /\ kinds \subseteq {"queue", "roster"}
  BY DEF ConsoleTyped, Rights, Reads
<1>2. Issue({c}, kinds, Nil)
  BY DEF WhoAmIAnswered
<1>3. UNCHANGED <<server, listed, assignable, selected, assignTarget, source, inOrder, own>>
  BY DEF WhoAmIAnswered
<1> HIDE DEF kinds
<1>4. Added({c}, kinds, Nil) BY <1>1, <1>2, IssueAdds
<1>5. UNCHANGED version BY <1>3 DEF server
<1>6. /\ asked' \in Nat /\ asked <= asked'
      /\ consoleCalls' \subseteq ConsoleCall
      /\ \A d \in consoleCalls' :
            d.n <= asked' /\ (d.kind \in {"detail", "assign", "status"} => d.ticket \in Tickets)
      /\ \A d \in consoleCalls' : d.served /\ d.kind \in {"assign", "status"}
            => d \in consoleCalls /\ d.version <= version'[d.ticket]
      /\ PickBelongsToTicket'
  BY <1>1, <1>2, <1>5, IssueKeeps
<1>7. ConsoleTyped' BY <1>3, <1>6 DEF ConsoleTyped, server, Read
<1>8. StoppedAtTheDoor' /\ NothingOpenNothingDone'
  BY <1>1, <1>3, <1>4 DEF StoppedAtTheDoor, NothingOpenNothingDone, Added, server
<1>9. ChangesAreTheServers' BY <1>3, <1>6 DEF ChangesAreTheServers, server
<1>10. PickerFollows' BY <1>3 DEF PickerFollows
<1>11. WillBeRead'
  <2>1. CASE rights = "none"
    <3>1. selected' = Nil /\ \A d \in consoleCalls' : d.kind = "whoami"
      BY <2>1, <1>3, <1>8 DEF StoppedAtTheDoor, server
    <3> QED BY <3>1 DEF WillBeRead
  <2>2. CASE rights # "none" BY <2>2, <1>1, <1>4, SomethingToCome
  <2> QED BY <2>1, <2>2
<1> QED BY <1>6, <1>7, <1>8, <1>9, <1>10, <1>11

(* A change is acknowledged: own grows to what the server already has.     *)
LEMMA AnswerKeeps ==
    ASSUME ConsoleInv, NEW c \in consoleCalls, AssignAnswered(c) \/ MoveAnswered(c)
    PROVE  ConsoleInv'
<1> USE DEF ConsoleInv
<1> DEFINE kinds == IF c.kind = "assign" THEN {"whoami", "detail"} ELSE {"whoami"}
           t == IF c.kind = "assign" THEN c.ticket ELSE Nil
<1>1. /\ c \in ConsoleCall /\ c.served /\ c.kind \in {"assign", "status"}
      /\ c.ticket \in Tickets /\ c.version \in Nat /\ c.version <= version[c.ticket]
  BY DEF ConsoleTyped, ConsoleCall, ChangesAreTheServers, AssignAnswered, MoveAnswered
<1>2. /\ kinds \in SUBSET Reads /\ "whoami" \in kinds
      /\ t \in Tickets \cup {Nil} /\ ("detail" \in kinds => t \in Tickets)
  BY <1>1 DEF Reads
<1>3. Issue({c}, kinds, t)
  BY DEF AssignAnswered, MoveAnswered
<1>4. UNCHANGED <<server, page, inOrder>> /\ Acknowledged(c)
  BY DEF AssignAnswered, MoveAnswered
<1> HIDE DEF kinds, t
<1>5. Added({c}, kinds, t) BY <1>2, <1>3, IssueAdds
<1>6. UNCHANGED version BY <1>4 DEF server
<1>7. /\ asked' \in Nat /\ asked <= asked'
      /\ consoleCalls' \subseteq ConsoleCall
      /\ \A d \in consoleCalls' :
            d.n <= asked' /\ (d.kind \in {"detail", "assign", "status"} => d.ticket \in Tickets)
      /\ \A d \in consoleCalls' : d.served /\ d.kind \in {"assign", "status"}
            => d \in consoleCalls /\ d.version <= version'[d.ticket]
      /\ PickBelongsToTicket'
  BY <1>2, <1>3, <1>6, IssueKeeps
<1>8. /\ own' \in [Tickets -> Nat]
      /\ \A u \in Tickets : own'[u] <= version[u]
  BY <1>1, <1>4 DEF Acknowledged, ConsoleTyped, ChangesAreTheServers
<1>9. ConsoleTyped' BY <1>4, <1>7, <1>8 DEF ConsoleTyped, server, page, Read
<1>10. selected # Nil /\ rights # "none"
  BY <1>1 DEF NothingOpenNothingDone, StoppedAtTheDoor
<1>11. StoppedAtTheDoor' /\ NothingOpenNothingDone'
  BY <1>4, <1>10 DEF StoppedAtTheDoor, NothingOpenNothingDone, server, page
<1>12. ChangesAreTheServers' BY <1>6, <1>7, <1>8 DEF ChangesAreTheServers
<1>13. PickerFollows' BY <1>4 DEF PickerFollows, page
<1>14. WillBeRead' BY <1>2, <1>5, SomethingToCome
<1> QED BY <1>7, <1>9, <1>11, <1>12, <1>13, <1>14

LEMMA SelectKeeps ==
    ASSUME ConsoleInv, NEW t \in Tickets, Select(t)
    PROVE  ConsoleInv'
<1> USE DEF ConsoleInv
<1>1. {"detail"} \in SUBSET Reads BY DEF Reads
<1>2. Issue({}, {"detail"}, t) /\ UNCHANGED <<server, page, inOrder, own>> /\ rights # "none"
  BY DEF Select, StoppedAtTheDoor
<1>3. Added({}, {"detail"}, t) BY <1>1, <1>2, IssueAdds
<1>4. UNCHANGED version BY <1>2 DEF server
<1>5. /\ asked' \in Nat /\ asked <= asked'
      /\ consoleCalls' \subseteq ConsoleCall
      /\ \A c \in consoleCalls' :
            c.n <= asked' /\ (c.kind \in {"detail", "assign", "status"} => c.ticket \in Tickets)
      /\ \A c \in consoleCalls' : c.served /\ c.kind \in {"assign", "status"}
            => c \in consoleCalls /\ c.version <= version'[c.ticket]
      /\ PickBelongsToTicket'
  BY <1>1, <1>2, <1>4, IssueKeeps
<1>6. ConsoleTyped' BY <1>2, <1>5 DEF ConsoleTyped, server, page, Read
<1>7. StoppedAtTheDoor' /\ NothingOpenNothingDone'
  BY <1>2, <1>3 DEF StoppedAtTheDoor, NothingOpenNothingDone, Added, server, page
<1>8. ChangesAreTheServers' BY <1>2, <1>5 DEF ChangesAreTheServers, server
<1>9. PickerFollows' BY <1>2 DEF PickerFollows, page
<1>10. ASSUME NEW n, ToCome(n) PROVE ToCome(n)'
  BY <1>2, <1>3, <1>10 DEF ToCome, Stale, Added
<1>11. \A c \in consoleCalls' : c.kind = "detail" /\ c.served => c \in consoleCalls
  BY <1>3 DEF Added
<1>12. WillBeRead' BY <1>2, <1>10, <1>11 DEF WillBeRead, Stale, page
<1> QED BY <1>5, <1>6, <1>7, <1>8, <1>9, <1>12

(* The queue is drawn; the open ticket is read again, later than all that  *)
(* was read or asked before.                                               *)
LEMMA QueueKeeps ==
    ASSUME ConsoleInv, NEW c \in consoleCalls, QueueAnswered(c)
    PROVE  ConsoleInv'
<1> USE DEF ConsoleInv
<1> DEFINE kinds == IF selected = Nil THEN {} ELSE {"detail"}
           t == IF selected = Nil THEN Nil ELSE selected.ticket
<1>1. /\ kinds \in SUBSET Reads /\ kinds \subseteq {"detail"}
      /\ selected # Nil => "detail" \in kinds
      /\ t \in Tickets \cup {Nil} /\ ("detail" \in kinds => t \in Tickets)
  BY DEF Reads, ConsoleTyped, Read
<1>2. Issue({c}, kinds, t) BY DEF QueueAnswered
<1>3. /\ UNCHANGED <<server, me, assignable, selected, assignTarget, source, inOrder, own>>
      /\ listed' = Tickets /\ c.kind = "queue" /\ rights # "none"
  BY DEF QueueAnswered, StoppedAtTheDoor
<1> HIDE DEF kinds, t
<1>4. Added({c}, kinds, t) BY <1>1, <1>2, IssueAdds
<1>5. UNCHANGED version BY <1>3 DEF server
<1>6. /\ asked' \in Nat /\ asked <= asked'
      /\ consoleCalls' \subseteq ConsoleCall
      /\ \A d \in consoleCalls' :
            d.n <= asked' /\ (d.kind \in {"detail", "assign", "status"} => d.ticket \in Tickets)
      /\ \A d \in consoleCalls' : d.served /\ d.kind \in {"assign", "status"}
            => d \in consoleCalls /\ d.version <= version'[d.ticket]
      /\ PickBelongsToTicket'
  BY <1>1, <1>2, <1>5, IssueKeeps
<1>7. ConsoleTyped' BY <1>3, <1>6 DEF ConsoleTyped, server, Read
<1>8. StoppedAtTheDoor' /\ NothingOpenNothingDone'
  BY <1>1, <1>3, <1>4 DEF StoppedAtTheDoor, NothingOpenNothingDone, Added, server
<1>9. ChangesAreTheServers' BY <1>3, <1>6 DEF ChangesAreTheServers, server
<1>10. PickerFollows' BY <1>3 DEF PickerFollows
<1>11. \A d \in consoleCalls' : d.kind = "detail" /\ d.served => d \in consoleCalls
  BY <1>4 DEF Added
<1>12. WillBeRead'
  <2>1. CASE selected = Nil
    <3>1. \A d \in consoleCalls' : d.kind = "detail" /\ d.served => d.ticket \in Tickets /\ d.version \in Nat
      BY <1>6 DEF ConsoleCall
    <3>2. \A u \in Tickets : own'[u] = 0
      BY <2>1, <1>3 DEF NothingOpenNothingDone
    <3> QED BY <2>1, <1>3, <3>1, <3>2 DEF WillBeRead, Stale
  <2>2. CASE selected # Nil
    <3>1. PICK d \in consoleCalls' : d.kind = "detail" /\ asked < d.n /\ ~d.served
      BY <2>2, <1>1, <1>4 DEF Added
    <3>2. d.n \in Nat /\ asked \in Nat BY <3>1, <1>6 DEF ConsoleCall, ConsoleTyped
    <3>3. ASSUME NEW n \in Nat, n <= asked PROVE ToCome(n)'
      BY <3>1, <3>2, <3>3 DEF ToCome
    <3>4. selected.n \in Nat /\ selected.n <= asked BY <2>2 DEF ConsoleTyped, Read
    <3>5. \A e \in consoleCalls : e.n \in Nat /\ e.n <= asked BY DEF ConsoleTyped, ConsoleCall
    <3>6. ToCome(selected.n)' BY <3>3, <3>4, <1>3
    <3>7. \A e \in consoleCalls' : e.kind = "detail" /\ e.served => ToCome(e.n)'
      BY <3>3, <3>5, <1>11
    <3> QED BY <3>6, <3>7 DEF WillBeRead
  <2> QED BY <2>1, <2>2
<1> QED BY <1>6, <1>7, <1>8, <1>9, <1>10, <1>12

-----------------------------------------------------------------------------
(* The page's steps that only take an answer.                              *)

\* The request leaves, and nothing of the server's or of the past changes.
LEMMA RosterKeeps ==
    ASSUME ConsoleInv, NEW c \in consoleCalls, RosterAnswered(c)
    PROVE  ConsoleInv'
<1> USE DEF ConsoleInv
<1>1. consoleCalls' = consoleCalls \ {c} /\ asked' = asked
  BY IssueNothing DEF RosterAnswered
<1>2. /\ UNCHANGED <<server, listed, selected, assignTarget, source, inOrder, own>>
      /\ assignable' = Agents /\ c.kind = "roster"
  BY DEF RosterAnswered
<1>3. ConsoleTyped' BY <1>1, <1>2 DEF ConsoleTyped, server
<1>4. /\ StoppedAtTheDoor' /\ NothingOpenNothingDone' /\ ChangesAreTheServers'
      /\ PickerFollows' /\ PickBelongsToTicket'
  BY <1>1, <1>2 DEF StoppedAtTheDoor, NothingOpenNothingDone, ChangesAreTheServers,
                    PickerFollows, PickBelongsToTicket, server
<1>5. ASSUME NEW n, ToCome(n) PROVE ToCome(n)'
  BY <1>1, <1>2, <1>5 DEF ToCome, Stale
<1>6. WillBeRead' BY <1>1, <1>2, <1>5 DEF WillBeRead, Stale
<1> QED BY <1>3, <1>4, <1>6

(* A read is shown.  If it came in order and is stale itself, what was to  *)
(* come after it is still to come.                                         *)
LEMMA DetailKeeps ==
    ASSUME ConsoleInv, NEW c \in consoleCalls, DetailAnswered(c)
    PROVE  ConsoleInv'
<1> USE DEF ConsoleInv
<1> DEFINE opened == [ticket |-> c.ticket, owner |-> c.owner, version |-> c.version, n |-> c.n]
<1>1. consoleCalls' = consoleCalls \ {c} /\ asked' = asked
  BY IssueNothing DEF DetailAnswered
<1>2. /\ UNCHANGED <<server, listed, assignable, own>>
      /\ assignTarget' = c.owner /\ source' = c.ticket
      /\ selected' = opened /\ c.kind = "detail" /\ c.served
      /\ inOrder' = (inOrder /\ (selected # Nil => selected.n < c.n))
  BY DEF DetailAnswered, Shown
<1>3. /\ c.ticket \in Tickets /\ c.owner \in Agents \cup {Nil} /\ c.version \in Nat
      /\ c.n \in Nat /\ c.n <= asked /\ rights # "none"
  BY <1>2 DEF ConsoleTyped, ConsoleCall, StoppedAtTheDoor
<1>4. /\ opened \in Read /\ opened.ticket = c.ticket /\ opened.version = c.version /\ opened.n = c.n
  BY <1>3 DEF Read
<1> HIDE DEF opened
<1>5. opened # Nil BY <1>4, ConsoleAssumption
<1>6. ConsoleTyped' BY <1>1, <1>2, <1>3, <1>4 DEF ConsoleTyped, server
<1>7. /\ StoppedAtTheDoor' /\ NothingOpenNothingDone' /\ ChangesAreTheServers'
      /\ PickerFollows' /\ PickBelongsToTicket'
  BY <1>1, <1>2, <1>3, <1>4, <1>5 DEF StoppedAtTheDoor, NothingOpenNothingDone,
        ChangesAreTheServers, PickerFollows, PickBelongsToTicket, server
<1>8. ASSUME NEW n \in Nat, ToCome(n), c.n <= n PROVE ToCome(n)'
  BY <1>1, <1>2, <1>3, <1>8 DEF ToCome, Stale
<1>9. ASSUME inOrder' PROVE selected' # Nil /\ Stale(selected)' => ToCome(selected.n)'
  <2> SUFFICES ASSUME Stale(selected)' PROVE ToCome(selected.n)' OBVIOUS
  <2>1. Stale(c) BY <1>2, <1>4 DEF Stale
  <2>2. ToCome(c.n) BY <1>2, <1>9, <2>1 DEF WillBeRead
  <2>3. ToCome(c.n)' BY <1>3, <1>8, <2>2
  <2> QED BY <1>2, <1>4, <2>3
<1>10. ASSUME inOrder', NEW d \in consoleCalls', d.kind = "detail", d.served, Stale(d)',
              selected'.n < d.n
       PROVE  ToCome(d.n)'
  <2>1. d \in consoleCalls /\ d.n \in Nat BY <1>1 DEF ConsoleTyped, ConsoleCall
  <2>2. c.n < d.n BY <1>2, <1>4, <1>10
  <2>3. Stale(d) BY <1>2, <1>10 DEF Stale
  <2>4. selected # Nil => selected.n < d.n
    <3>1. selected # Nil => selected.n \in Nat /\ selected.n < c.n
      BY <1>2, <1>10 DEF ConsoleTyped, Read
    <3> QED BY <3>1, <2>1, <2>2, <1>3
  <2>5. ToCome(d.n) BY <1>2, <1>10, <2>1, <2>3, <2>4 DEF WillBeRead
  <2> QED BY <1>3, <1>8, <2>1, <2>2, <2>5
<1>11. \A d \in consoleCalls' : d.n \in Nat BY <1>1 DEF ConsoleTyped, ConsoleCall
<1>12. WillBeRead' BY <1>2, <1>3, <1>4, <1>5, <1>9, <1>10, <1>11 DEF WillBeRead
<1> QED BY <1>6, <1>7, <1>12

LEMMA FailedKeeps ==
    ASSUME ConsoleInv, NEW c \in consoleCalls, Failed(c)
    PROVE  ConsoleInv'
<1> USE DEF ConsoleInv
<1>1. consoleCalls' = consoleCalls \ {c} /\ asked' = asked
  BY IssueNothing DEF Failed
<1>2. /\ UNCHANGED <<owner, version, rights, page, own>>
      /\ inOrder' = (inOrder /\ c.kind \in {"assign", "status"})
  BY DEF Failed
<1>3. inOrder' \in BOOLEAN BY <1>2
<1>4. ConsoleTyped' BY <1>1, <1>2, <1>3 DEF ConsoleTyped, page
<1>5. /\ StoppedAtTheDoor' /\ NothingOpenNothingDone' /\ ChangesAreTheServers'
      /\ PickerFollows' /\ PickBelongsToTicket'
  BY <1>1, <1>2 DEF StoppedAtTheDoor, NothingOpenNothingDone, ChangesAreTheServers,
                    PickerFollows, PickBelongsToTicket, page
<1>6. ASSUME NEW n, ToCome(n), c.kind \in {"assign", "status"} PROVE ToCome(n)'
  BY <1>1, <1>2, <1>6 DEF ToCome, Stale
<1>7. WillBeRead' BY <1>1, <1>2, <1>6 DEF WillBeRead, Stale, page
<1> QED BY <1>4, <1>5, <1>7

LEMMA PickKeeps ==
    ASSUME ConsoleInv, NEW a \in Agents \cup {Nil}, Pick(a)
    PROVE  ConsoleInv'
<1> USE DEF ConsoleInv
<1>1. /\ selected # Nil /\ assignTarget' = a /\ source' = selected.ticket
      /\ UNCHANGED <<server, listed, assignable, selected, asked, consoleCalls, inOrder, own>>
  BY DEF Pick
<1>2. source' \in Tickets BY <1>1 DEF ConsoleTyped, Read
<1>3. ConsoleTyped' BY <1>1, <1>2 DEF ConsoleTyped, server
<1>4. /\ StoppedAtTheDoor' /\ NothingOpenNothingDone' /\ ChangesAreTheServers'
      /\ PickerFollows' /\ PickBelongsToTicket' /\ WillBeRead'
  BY <1>1 DEF StoppedAtTheDoor, NothingOpenNothingDone, ChangesAreTheServers, PickerFollows,
              PickBelongsToTicket, WillBeRead, ToCome, Stale, server
<1> QED BY <1>3, <1>4

(* A change is posted for the open ticket, an assignment with the picker's *)
(* value.                                                                  *)
LEMMA PostKeeps ==
    ASSUME ConsoleInv, NEW kind \in {"assign", "status"}, NEW to \in Agents \cup {Nil},
           Post(kind, to)
    PROVE  ConsoleInv'
<1> USE DEF ConsoleInv
<1> DEFINE new == Ask(asked + 1, kind, selected.ticket, to)
<1>1. /\ selected # Nil /\ asked' = asked + 1 /\ consoleCalls' = consoleCalls \cup {new}
      /\ UNCHANGED <<server, page, inOrder, own>>
  BY DEF Post
<1>2. selected.ticket \in Tickets /\ asked \in Nat /\ source = selected.ticket /\ rights # "none"
  BY <1>1 DEF ConsoleTyped, Read, PickerFollows, StoppedAtTheDoor
<1>3. /\ new \in ConsoleCall /\ new.kind = kind /\ new.n = asked + 1
      /\ new.ticket = selected.ticket
      /\ new.kind = "assign" => new.source = source
      /\ ~new.served
  <2> DEFINE answered == kind \in {"whoami", "roster", "queue"}
             from == IF kind = "assign" THEN source ELSE Nil
  <2>1. new = [n |-> asked + 1, kind |-> kind, ticket |-> selected.ticket, to |-> to,
               served |-> answered, source |-> from, owner |-> Nil, version |-> 0]
    BY Zenon DEF Ask
  <2>2. answered = FALSE /\ from \in {source, Nil} /\ (kind = "assign" => from = source)
    OBVIOUS
  <2>3. source \in Tickets \cup {Nil} /\ asked + 1 \in Nat /\ kind \in Kinds
        /\ selected.ticket \in Tickets
    BY <1>2 DEF Kinds
  <2> HIDE DEF new, answered, from
  <2>4. /\ new.kind = kind /\ new.n = asked + 1 /\ new.ticket = selected.ticket
        /\ new.source = from /\ new.served = answered
    BY Zenon, <2>1
  <2>5. new \in ConsoleCall BY <2>1, <2>2, <2>3 DEF ConsoleCall
  <2> QED BY <2>2, <2>4, <2>5
<1> HIDE DEF new
<1>4. ConsoleTyped' BY <1>1, <1>2, <1>3 DEF ConsoleTyped, ConsoleCall, Read, server, page
<1>5. /\ StoppedAtTheDoor' /\ NothingOpenNothingDone' /\ ChangesAreTheServers' /\ PickerFollows'
  BY <1>1, <1>2, <1>3 DEF StoppedAtTheDoor, NothingOpenNothingDone, ChangesAreTheServers,
                          PickerFollows, server, page
<1>6. PickBelongsToTicket' BY <1>1, <1>2, <1>3 DEF PickBelongsToTicket
<1>7. ASSUME NEW n, ToCome(n) PROVE ToCome(n)'
  BY <1>1, <1>7 DEF ToCome, Stale
<1>8. WillBeRead' BY <1>1, <1>3, <1>7 DEF WillBeRead, Stale, page
<1> QED BY <1>4, <1>5, <1>6, <1>8

-----------------------------------------------------------------------------
(* The theorems.                                                           *)

(* Every step keeps the invariant: one lemma per action.                   *)
THEOREM ConsoleInvariance == ConsoleSpec => []ConsoleInv
<1>1. ConsoleInit => ConsoleInv
  <2> SUFFICES ASSUME ConsoleInit PROVE ConsoleInv OBVIOUS
  <2>1. consoleCalls = {Ask(1, "whoami", Nil, Nil)} /\ asked = 1 /\ selected = Nil
    BY DEF ConsoleInit
  <2> DEFINE answered == "whoami" \in {"whoami", "roster", "queue"}
             from == IF "whoami" = "assign" THEN source ELSE Nil
  <2>2. Ask(1, "whoami", Nil, Nil) =
           [n |-> 1, kind |-> "whoami", ticket |-> Nil, to |-> Nil, served |-> answered,
            source |-> from, owner |-> Nil, version |-> 0]
    BY Zenon DEF Ask
  <2>3. \A c \in consoleCalls : c \in ConsoleCall /\ c.kind = "whoami" /\ c.n = 1
    <3>1. answered \in BOOLEAN /\ from = Nil OBVIOUS
    <3> HIDE DEF answered, from
    <3> QED BY <2>1, <2>2, <3>1 DEF ConsoleCall, Kinds
  <2>4. ConsoleTyped BY <2>1, <2>3 DEF ConsoleInit, ConsoleTyped
  <2>5. StoppedAtTheDoor /\ NothingOpenNothingDone /\ ChangesAreTheServers
        /\ PickerFollows /\ PickBelongsToTicket /\ WillBeRead
    BY <2>1, <2>3 DEF ConsoleInit, StoppedAtTheDoor, NothingOpenNothingDone,
          ChangesAreTheServers, PickerFollows, PickBelongsToTicket, WillBeRead
  <2> QED BY <2>4, <2>5 DEF ConsoleInv
<1>2. ConsoleInv /\ [ConsoleNext]_consoleVars => ConsoleInv'
  <2> SUFFICES ASSUME ConsoleInv, [ConsoleNext]_consoleVars PROVE ConsoleInv' OBVIOUS
  <2>1. CASE Refresh BY <2>1, RefreshKeeps
  <2>2. CASE Assign
    <3>1. Post("assign", assignTarget) BY <2>2 DEF Assign
    <3>2. assignTarget \in Agents \cup {Nil} BY DEF ConsoleInv, ConsoleTyped
    <3> QED BY <3>1, <3>2, PostKeeps
  <2>3. ASSUME NEW t \in Tickets, Select(t) PROVE ConsoleInv' BY <2>3, SelectKeeps
  <2>4. ASSUME NEW t \in Tickets, NEW a \in Agents \cup {Nil}, OtherAgent(t, a)
        PROVE  ConsoleInv'
    BY <2>4, OtherAgentKeeps
  <2>5. ASSUME NEW a \in Agents \cup {Nil}, Pick(a) PROVE ConsoleInv' BY <2>5, PickKeeps
  <2>6. ASSUME NEW a \in Agents \cup {Nil}, Move(a) PROVE ConsoleInv'
    BY <2>6, PostKeeps DEF Move
  <2>7. ASSUME NEW c \in consoleCalls, ServeDetail(c) PROVE ConsoleInv' BY <2>7, ServeDetailKeeps
  <2>8. ASSUME NEW c \in consoleCalls, ServeChange(c) PROVE ConsoleInv' BY <2>8, ServeChangeKeeps
  <2>9. ASSUME NEW c \in consoleCalls, Failed(c) PROVE ConsoleInv' BY <2>9, FailedKeeps
  <2>10. ASSUME NEW c \in consoleCalls, WhoAmIAnswered(c) PROVE ConsoleInv' BY <2>10, WhoAmIKeeps
  <2>11. ASSUME NEW c \in consoleCalls, RosterAnswered(c) PROVE ConsoleInv' BY <2>11, RosterKeeps
  <2>12. ASSUME NEW c \in consoleCalls, QueueAnswered(c) PROVE ConsoleInv' BY <2>12, QueueKeeps
  <2>13. ASSUME NEW c \in consoleCalls, DetailAnswered(c) PROVE ConsoleInv' BY <2>13, DetailKeeps
  <2>14. ASSUME NEW c \in consoleCalls, AssignAnswered(c) \/ MoveAnswered(c) PROVE ConsoleInv'
    BY <2>14, AnswerKeeps
  <2>15. CASE UNCHANGED consoleVars
    <3>1. ConsoleTyped'
      BY <2>15 DEF ConsoleInv, ConsoleTyped, consoleVars, server, page
    <3>2. StoppedAtTheDoor' /\ NothingOpenNothingDone' /\ ChangesAreTheServers'
          /\ PickerFollows' /\ PickBelongsToTicket' /\ WillBeRead'
      BY <2>15 DEF ConsoleInv, StoppedAtTheDoor, NothingOpenNothingDone, ChangesAreTheServers,
            PickerFollows, PickBelongsToTicket, WillBeRead, ToCome, Stale, consoleVars, server, page
    <3> QED BY <3>1, <3>2 DEF ConsoleInv
  <2> QED
    BY <2>1, <2>2, <2>3, <2>4, <2>5, <2>6, <2>7, <2>8, <2>9, <2>10, <2>11, <2>12, <2>13,
       <2>14, <2>15 DEF ConsoleNext
<1> QED BY <1>1, <1>2, PTL DEF ConsoleSpec

(* The assignee posted for a ticket was picked while it was open, or is the *)
(* owner it was read with.                                                  *)
THEOREM PicksBelong == ConsoleSpec => []PickBelongsToTicket
<1>1. ConsoleInv => PickBelongsToTicket BY DEF ConsoleInv
<1> QED BY <1>1, ConsoleInvariance, PTL

(* The page comes to show every change it was told it made, when the        *)
(* answers came in order: nothing is to come, so nothing shown is stale.    *)
THEOREM OwnChangesShown == ConsoleSpec => []OwnChangeShown
<1>1. ConsoleInv => OwnChangeShown
  <2> SUFFICES ASSUME ConsoleInv, inOrder, consoleCalls = {}, selected # Nil
               PROVE  selected.version >= own[selected.ticket]
    BY DEF OwnChangeShown
  <2>1. ~Stale(selected) BY DEF ConsoleInv, WillBeRead, ToCome
  <2>2. selected.version \in Nat /\ own[selected.ticket] \in Nat
    BY DEF ConsoleInv, ConsoleTyped, Read
  <2> QED BY <2>1, <2>2 DEF Stale
<1> QED BY <1>1, ConsoleInvariance, PTL

-----------------------------------------------------------------------------
(* The panel of one's own issues, for any number of tickets, clicks, failing  *)
(* requests and answers in any order.                                         *)

(* The invariant of the panel, part by part.  The reply box and the form that     *)
(* raises a ticket are two boxes of one make: what is in it, whether its post is  *)
(* awaited.                                                                       *)
Posts == {"comment", "manual"}
Box(kind) == IF kind = "comment" THEN replyText ELSE draft
Waiting(kind) == IF kind = "comment" THEN sending ELSE submitting
Posted == {c \in myCalls : c.kind \in Posts}

PanelCall ==
    [kind : Posts \cup {"mine", "ticket"}, ticket : MyTickets \cup {Blank},
     text : Texts \cup {Blank}, press : Nat, served : BOOLEAN, items : SUBSET MyTickets,
     open : BOOLEAN]

PanelTyped ==
    /\ mine \subseteq MyTickets /\ items \subseteq MyTickets
    /\ stored \in [Texts -> Nat] /\ refused \in [Texts -> Nat]
    /\ current \in [ticket : MyTickets \cup {Blank}, open : BOOLEAN] \cup {Blank}
    /\ sending \in BOOLEAN /\ submitting \in BOOLEAN
    /\ \A k \in Posts : Box(k) \in Texts \cup {Blank}
    /\ presses \in Nat /\ dropped \subseteq Texts
    /\ myCalls \subseteq PanelCall
    /\ \A c \in myCalls : c.kind \in Posts <=> c.text \in Texts

\* One post of a kind at a time, and the button is off while it is.
OnePostEach ==
    /\ \A k \in Posts : Waiting(k) <=> \E c \in Posted : c.kind = k
    /\ \A c, d \in Posted : c.kind = d.kind => c = d

\* A text is of the one box it was typed in.
OwnText ==
    /\ replyText = draft => replyText = Blank
    /\ \A c \in Posted : \A k \in Posts : Box(k) = c.text => k = c.kind
    /\ \A c, d \in Posted : c.text = d.text => c = d

\* What is awaited is in its box unless it was written over, and only what is
\* counted as dropped is in the box beside it.
PostHeld ==
    \A c \in Posted :
        /\ c.text \in dropped \cup {Box(c.kind)}
        /\ Box(c.kind) \in dropped \cup {c.text, Blank}

\* What may still be posted has been kept no more often than it failed.
MayBePosted(x) ==
    /\ (\E k \in Posts : Box(k) = x) \/ (\E c \in Posted : c.text = x)
    /\ \A c \in Posted : c.text = x => ~c.served

KeptAndRefused ==
    /\ \A x \in Texts : stored[x] <= refused[x] + 1
    /\ \A x \in Texts : MayBePosted(x) => stored[x] <= refused[x]
    /\ \A c \in Posted : c.served => stored[c.text] > 0

RefusedIsShown ==
    \A x \in Texts : refused[x] > 0 =>
        \/ \E k \in Posts : Box(k) = x
        \/ \E c \in Posted : c.text = x
        \/ x \in dropped
        \/ stored[x] > 0

PanelInv ==
    /\ PanelTyped
    /\ OnePostEach
    /\ OwnText
    /\ PostHeld
    /\ KeptAndRefused
    /\ RefusedIsShown

PanelRest == OnePostEach /\ OwnText /\ PostHeld /\ KeptAndRefused /\ RefusedIsShown

LEMMA PostsTyped ==
    ASSUME PanelTyped
    PROVE  /\ \A c \in Posted : c.text \in Texts /\ c.text # Blank /\ c.kind \in Posts
                                /\ c.served \in BOOLEAN
           /\ \A k \in Posts : Box(k) \in Texts \cup {Blank}
           /\ \A x \in Texts : stored[x] \in Nat /\ refused[x] \in Nat
  BY MyIssuesAssumption DEF PanelTyped, Posted, PanelCall

LEMMA BoxesApart ==
    ASSUME OwnText, NEW j \in Posts, NEW k \in Posts, j # k, Box(j) # Blank
    PROVE  Box(j) # Box(k)
  BY DEF OwnText, Posts, Box

\* What is typed is new to the panel, and counts as dropped when an answer that
\* clears the box is still to come.
LEMMA TypingKeeps ==
    ASSUME PanelInv, PanelTyped', NEW kind \in Posts, NEW x \in Texts,
           x \notin dropped, \A k \in Posts : Box(k) # x,
           stored[x] = 0, \A c \in myCalls : c.text # x,
           \A k \in Posts : Box(k)' = (IF k = kind THEN x ELSE Box(k)),
           \A k \in Posts : Waiting(k)' = Waiting(k),
           dropped' = (dropped \cup {Box(kind)} \cup (IF Waiting(kind) THEN {x} ELSE {})) \ {Blank},
           UNCHANGED <<stored, refused, myCalls>>
    PROVE  PanelRest'
<1> USE DEF PanelInv
<1>1. Posted' = Posted
  BY DEF Posted
<1>2. \A c \in Posted : c.text # x
  BY DEF Posted
<1>3. OnePostEach'
  BY <1>1 DEF OnePostEach
<1>4. OwnText'
  <2>1. \A j, k \in Posts : j # k /\ Box(j)' # Blank => Box(j)' # Box(k)'
    BY BoxesApart
  <2>2. (replyText = draft => replyText = Blank)'
    BY <2>1 DEF Posts, Box
  <2>3. \A c \in Posted : \A k \in Posts : Box(k)' = c.text => k = c.kind
    BY <1>2 DEF OwnText
  <2> QED
    BY <1>1, <2>2, <2>3 DEF OwnText
<1>5. PostHeld'
  <2> SUFFICES ASSUME NEW c \in Posted
               PROVE  /\ c.text \in dropped' \cup {Box(c.kind)'}
                      /\ Box(c.kind)' \in dropped' \cup {c.text, Blank}
    BY <1>1 DEF PostHeld
  <2>1. /\ c.text \in dropped \cup {Box(c.kind)} /\ Box(c.kind) \in dropped \cup {c.text, Blank}
        /\ c.text # Blank /\ c.kind \in Posts
    BY PostsTyped DEF PostHeld
  <2>2. CASE c.kind = kind
    <3>1. Waiting(kind)
      BY <2>2 DEF OnePostEach
    <3> QED
      BY <2>1, <2>2, <3>1, MyIssuesAssumption
  <2>3. CASE c.kind # kind
    <3>1. Box(c.kind) \in dropped => Box(c.kind) \in dropped' \cup {Blank}
      OBVIOUS
    <3> QED
      BY <2>1, <2>3, <3>1
  <2> QED
    BY <2>2, <2>3
<1>6. KeptAndRefused'
  <2>1. \A y \in Texts : MayBePosted(y)' => y = x \/ MayBePosted(y)
    BY <1>1 DEF MayBePosted
  <2>2. stored[x] <= refused[x]
    BY PostsTyped
  <2> QED
    BY <1>1, <2>1, <2>2 DEF KeptAndRefused
<1>7. RefusedIsShown'
  <2>1. \A y \in Texts : (\E k \in Posts : Box(k) = y) => (\E k \in Posts : Box(k)' = y) \/ y \in dropped'
    BY MyIssuesAssumption
  <2>2. dropped \subseteq dropped'
    BY MyIssuesAssumption DEF PanelTyped
  <2> QED
    BY <1>1, <2>1, <2>2 DEF RefusedIsShown
<1> QED
  BY <1>3, <1>4, <1>5, <1>6, <1>7 DEF PanelRest

\* A box is posted while nothing of its kind is awaited.
LEMMA PostingKeeps ==
    ASSUME PanelInv, PanelTyped', NEW kind \in Posts, Box(kind) # Blank, ~Waiting(kind),
           NEW p, p.kind = kind, p.text = Box(kind), p.served = FALSE,
           Posted' = Posted \cup {p},
           \A k \in Posts : Box(k)' = Box(k),
           \A k \in Posts : (Waiting(k)' <=> k = kind \/ Waiting(k)),
           UNCHANGED <<stored, refused, dropped, replyText, draft>>
    PROVE  PanelRest'
<1> USE DEF PanelInv
<1>1. \A c \in Posted : c.kind # kind
  BY DEF OnePostEach
<1>2. \A c \in Posted : c.text # p.text
  BY <1>1 DEF OwnText
<1>3. OnePostEach'
  BY <1>1 DEF OnePostEach
<1>4. OwnText'
  <2>1. \A k \in Posts : Box(k) = p.text => k = p.kind
    BY BoxesApart
  <2> QED
    BY <1>2, <2>1 DEF OwnText
<1>5. PostHeld'
  BY PostsTyped DEF PostHeld
<1>6. KeptAndRefused'
  <2>1. \A y \in Texts : MayBePosted(y)' => MayBePosted(y)
    BY <1>2 DEF MayBePosted
  <2> QED
    BY <2>1 DEF KeptAndRefused
<1>7. RefusedIsShown'
  BY DEF RefusedIsShown
<1> QED
  BY <1>3, <1>4, <1>5, <1>6, <1>7 DEF PanelRest

\* The server keeps a post once; it cannot have been served before.
LEMMA KeepingKeeps ==
    ASSUME PanelInv, PanelTyped', NEW c \in Posted, ~c.served,
           NEW d, d.kind = c.kind, d.text = c.text, d.served = TRUE,
           Posted' = (Posted \ {c}) \cup {d},
           \A k \in Posts : Box(k)' = Box(k),
           \A k \in Posts : Waiting(k)' = Waiting(k),
           stored' = [stored EXCEPT ![c.text] = @ + 1],
           UNCHANGED <<refused, dropped, replyText, draft>>
    PROVE  PanelRest'
<1> USE DEF PanelInv
<1>1. \A b \in Posted : b # c => b.kind # c.kind /\ b.text # c.text
  BY DEF OnePostEach, OwnText
<1>2. c.text \in Texts /\ c.kind \in Posts
  BY PostsTyped
<1>3. OnePostEach'
  BY <1>1 DEF OnePostEach
<1>4. OwnText'
  <2>1. \A b, e \in Posted' : b.text = e.text => b = e
    BY <1>1 DEF OwnText
  <2>2. \A b \in Posted' : \A k \in Posts : Box(k) = b.text => k = b.kind
    BY DEF OwnText
  <2> QED
    BY <2>1, <2>2 DEF OwnText
<1>5. PostHeld'
  <2>1. \A b \in Posted' : \E e \in Posted : b.kind = e.kind /\ b.text = e.text /\ e.kind \in Posts
    BY PostsTyped
  <2> QED
    BY <2>1 DEF PostHeld
<1>6. /\ stored'[c.text] = stored[c.text] + 1
      /\ \A y \in Texts : y # c.text => stored'[y] = stored[y]
  BY <1>2 DEF PanelTyped
<1>7. KeptAndRefused'
  <2>1. \A y \in Texts : MayBePosted(y)' => y # c.text /\ MayBePosted(y)
    BY DEF MayBePosted
  <2>2. stored[c.text] <= refused[c.text]
    <3>1. MayBePosted(c.text)
      BY <1>1 DEF MayBePosted
    <3> QED
      BY <1>2, <3>1 DEF KeptAndRefused
  <2>3. \A y \in Texts : stored'[y] <= refused[y] + 1
    BY <1>2, <1>6, <2>2, PostsTyped DEF KeptAndRefused
  <2>4. \A b \in Posted' : b.served => stored'[b.text] > 0
    BY <1>1, <1>2, <1>6, PostsTyped DEF KeptAndRefused
  <2>5. \A y \in Texts : MayBePosted(y)' => stored'[y] <= refused[y]
    BY <1>6, <2>1 DEF KeptAndRefused
  <2> QED
    BY <2>3, <2>4, <2>5 DEF KeptAndRefused
<1>8. RefusedIsShown'
  <2>1. \A y \in Texts : (\E b \in Posted : b.text = y) => \E b \in Posted' : b.text = y
    OBVIOUS
  <2>2. \A y \in Texts : stored[y] > 0 => stored'[y] > 0
    BY <1>2, <1>6, PostsTyped
  <2> QED
    BY <2>1, <2>2 DEF RefusedIsShown
<1> QED
  BY <1>3, <1>4, <1>5, <1>7, <1>8 DEF PanelRest

\* The answer of a post that was kept clears its box, which holds the text that
\* was kept, a text that counts as dropped, or nothing.
LEMMA AnsweringKeeps ==
    ASSUME PanelInv, PanelTyped', NEW c \in Posted, c.served,
           Posted' = Posted \ {c},
           \A k \in Posts : Box(k)' = (IF k = c.kind THEN Blank ELSE Box(k)),
           \A k \in Posts : Waiting(k)' = (k # c.kind /\ Waiting(k)),
           UNCHANGED <<stored, refused, dropped>>
    PROVE  PanelRest'
<1> USE DEF PanelInv
<1>1. \A b \in Posted : b # c => b.kind # c.kind /\ b.text # c.text
  BY DEF OnePostEach, OwnText
<1>2. c.text \in Texts /\ c.kind \in Posts /\ \A b \in Posted : b.text # Blank
  BY PostsTyped
<1>3. OnePostEach'
  BY <1>1 DEF OnePostEach
<1>4. OwnText'
  <2>1. \A j, k \in Posts : j # k /\ Box(j)' # Blank => Box(j)' # Box(k)'
    BY BoxesApart
  <2>2. (replyText = draft => replyText = Blank)'
    BY <2>1 DEF Posts, Box
  <2> QED
    BY <1>2, <2>2 DEF OwnText
<1>5. PostHeld'
  BY <1>1, PostsTyped DEF PostHeld
<1>6. KeptAndRefused'
  <2>1. \A y \in Texts : MayBePosted(y)' => MayBePosted(y)
    <3> SUFFICES ASSUME NEW y \in Texts, MayBePosted(y)' PROVE MayBePosted(y)
      OBVIOUS
    <3>1. y # Blank
      BY MyIssuesAssumption
    <3>2. y # c.text
      <4>1. \A k \in Posts : Box(k)' # c.text
        BY <1>2 DEF OwnText
      <4> QED
        BY <1>1, <4>1 DEF MayBePosted
    <3> QED
      BY <3>1, <3>2 DEF MayBePosted
  <2> QED
    BY <2>1 DEF KeptAndRefused
<1>7. RefusedIsShown'
  <2>1. \A y \in Texts : (\E k \in Posts : Box(k) = y)
          => (\E k \in Posts : Box(k)' = y) \/ y \in dropped \/ y = c.text
    BY MyIssuesAssumption DEF PostHeld
  <2>2. stored[c.text] > 0
    BY DEF KeptAndRefused
  <2> QED
    BY <2>1, <2>2 DEF RefusedIsShown
<1> QED
  BY <1>3, <1>4, <1>5, <1>6, <1>7 DEF PanelRest

\* A post that failed is in its box, or was written over.
LEMMA FailingKeeps ==
    ASSUME PanelInv, PanelTyped', NEW c \in Posted,
           Posted' = Posted \ {c},
           \A k \in Posts : Box(k)' = Box(k),
           \A k \in Posts : Waiting(k)' = (Waiting(k) /\ k # c.kind),
           refused' = [x \in Texts |-> refused[x] + IF x = c.text THEN 1 ELSE 0],
           UNCHANGED <<stored, dropped, replyText, draft>>
    PROVE  PanelRest'
<1> USE DEF PanelInv
<1>1. \A b \in Posted : b # c => b.kind # c.kind /\ b.text # c.text
  BY DEF OnePostEach, OwnText
<1>2. c.text \in Texts /\ c.kind \in Posts
  BY PostsTyped
<1>3. OnePostEach'
  BY <1>1 DEF OnePostEach
<1>4. OwnText'
  <2>1. \A b, e \in Posted' : b.text = e.text => b = e
    BY DEF OwnText
  <2>2. \A b \in Posted' : \A k \in Posts : Box(k) = b.text => k = b.kind
    BY DEF OwnText
  <2> QED
    BY <2>1, <2>2 DEF OwnText
<1>5. PostHeld'
  <2>1. \A b \in Posted' : b \in Posted /\ b.kind \in Posts
    BY PostsTyped
  <2> QED
    BY <2>1 DEF PostHeld
<1>6. /\ refused'[c.text] = refused[c.text] + 1
      /\ \A y \in Texts : y # c.text => refused'[y] = refused[y]
  BY <1>2, PostsTyped
<1>7. KeptAndRefused'
  <2>1. \A y \in Texts : y # c.text /\ MayBePosted(y)' => MayBePosted(y)
    BY DEF MayBePosted
  <2>2. \A y \in Texts : stored[y] <= refused'[y] + 1
    BY <1>6, PostsTyped DEF KeptAndRefused
  <2>3. stored[c.text] <= refused'[c.text]
    BY <1>2, <1>6 DEF KeptAndRefused
  <2> QED
    BY <1>6, <2>1, <2>2, <2>3 DEF KeptAndRefused
<1>8. RefusedIsShown'
  <2>1. c.text \in dropped \/ Box(c.kind)' = c.text
    BY <1>2 DEF PostHeld
  <2> QED
    BY <1>2, <1>6, <2>1 DEF RefusedIsShown
<1> QED
  BY <1>3, <1>4, <1>5, <1>7, <1>8 DEF PanelRest

\* Anything that is no post, typing or answer to a post leaves all that alone.
LEMMA OtherKeeps ==
    ASSUME PanelInv, Posted' = Posted,
           UNCHANGED <<stored, refused, dropped, replyText, draft, sending, submitting>>
    PROVE  PanelRest'
<1>1. \A k \in Posts : Box(k)' = Box(k) /\ Waiting(k)' = Waiting(k)
  BY DEF Box, Waiting
<1>2. \A x \in Texts : MayBePosted(x)' = MayBePosted(x)
  BY <1>1 DEF MayBePosted
<1>3. \A c \in Posted : c.kind \in Posts
  BY DEF Posted
<1>4. OnePostEach' /\ OwnText' /\ PostHeld'
  BY <1>1, <1>3 DEF PanelInv, OnePostEach, OwnText, PostHeld
<1>5. KeptAndRefused' /\ RefusedIsShown'
  BY <1>1, <1>2 DEF PanelInv, KeptAndRefused, RefusedIsShown
<1> QED
  BY <1>4, <1>5 DEF PanelRest

-----------------------------------------------------------------------------
(* The steps of the panel.                                                     *)

LEMMA ReadsTyped ==
    ASSUME PanelTyped
    PROVE  /\ Load \in PanelCall /\ Load.kind = "mine" /\ Load.text = Blank
           /\ \A t \in MyTickets \cup {Blank} :
                 Open(t) \in PanelCall /\ Open(t).kind = "ticket" /\ Open(t).text = Blank
  BY DEF PanelTyped, PanelCall, Load, Open, Call

\* Reads come and go.
LEMMA ReadsKeep ==
    ASSUME PanelInv, NEW gone, gone \cap Posted = {}, NEW come,
           \A c \in come : c \in PanelCall /\ c.kind \notin Posts /\ c.text = Blank,
           myCalls' = (myCalls \ gone) \cup come,
           presses' \in Nat, items' \subseteq MyTickets,
           current' \in [ticket : MyTickets \cup {Blank}, open : BOOLEAN] \cup {Blank},
           UNCHANGED <<mine, stored, refused, dropped, replyText, draft, sending, submitting>>
    PROVE  PanelInv'
<1>1. Posted' = Posted
  BY DEF Posted
<1>2. \A k \in Posts : Box(k)' = Box(k)
  BY DEF Box
<1>3. PanelTyped'
  BY <1>2, MyIssuesAssumption DEF PanelInv, PanelTyped
<1> QED
  BY <1>1, <1>3, OtherKeeps DEF PanelInv, PanelRest

LEMMA TypeStep ==
    ASSUME PanelInv, NEW x \in Texts, TypeReply(x) \/ TypeDraft(x)
    PROVE  PanelInv'
<1> USE DEF PanelInv
<1>1. CASE TypeReply(x)
  <2>1. \A k \in Posts : Box(k)' = (IF k = "comment" THEN x ELSE Box(k)) /\ Waiting(k)' = Waiting(k)
    BY <1>1 DEF TypeReply, Posts, Box, Waiting
  <2>2. Box("comment") = replyText /\ Waiting("comment") = sending
    BY DEF Box, Waiting
  <2>3. dropped' \subseteq Texts
    BY <1>1, <2>2 DEF TypeReply, PanelTyped, Posts
  <2>4. PanelTyped'
    BY <1>1, <2>1, <2>3 DEF TypeReply, PanelTyped
  <2>5. \A k \in Posts : Box(k) # x
    BY <1>1 DEF TypeReply, Box
  <2>6. "comment" \in Posts
    BY DEF Posts
  <2>7. PanelRest'
    BY <1>1, <2>1, <2>2, <2>4, <2>5, <2>6, TypingKeeps DEF TypeReply
  <2> QED
    BY <2>4, <2>7 DEF PanelRest
<1>2. CASE TypeDraft(x)
  <2>1. \A k \in Posts : Box(k)' = (IF k = "manual" THEN x ELSE Box(k)) /\ Waiting(k)' = Waiting(k)
    BY <1>2 DEF TypeDraft, Posts, Box, Waiting
  <2>2. Box("manual") = draft /\ Waiting("manual") = submitting
    BY DEF Box, Waiting
  <2>3. dropped' \subseteq Texts
    BY <1>2, <2>2 DEF TypeDraft, PanelTyped, Posts
  <2>4. PanelTyped'
    BY <1>2, <2>1, <2>3 DEF TypeDraft, PanelTyped
  <2>5. \A k \in Posts : Box(k) # x
    BY <1>2 DEF TypeDraft, Box
  <2>6. "manual" \in Posts
    BY DEF Posts
  <2>7. PanelRest'
    BY <1>2, <2>1, <2>2, <2>4, <2>5, <2>6, TypingKeeps DEF TypeDraft
  <2> QED
    BY <2>4, <2>7 DEF PanelRest
<1> QED
  BY <1>1, <1>2

LEMMA PostStep ==
    ASSUME PanelInv, Send \/ SubmitNew
    PROVE  PanelInv'
<1> USE DEF PanelInv
<1>1. PICK kind \in Posts, t \in MyTickets \cup {Blank} :
        /\ Box(kind) # Blank /\ ~Waiting(kind)
        /\ myCalls' = myCalls \cup {Call(kind, t, Box(kind), presses)}
        /\ \A k \in Posts : (Waiting(k)' <=> k = kind \/ Waiting(k))
  <2>1. CASE Send
    <3>1. current.ticket \in MyTickets \cup {Blank}
      <4>1. current \in [ticket : MyTickets \cup {Blank}, open : BOOLEAN]
        BY <2>1 DEF Send, PanelTyped
      <4> QED
        BY <4>1
    <3>2. \A k \in Posts : (Waiting(k)' <=> k = "comment" \/ Waiting(k))
      BY <2>1 DEF Send, Posts, Waiting
    <3>3. /\ "comment" \in Posts /\ Box("comment") = replyText /\ Waiting("comment") = sending
      BY DEF Posts, Box, Waiting
    <3>4. /\ Box("comment") # Blank /\ ~Waiting("comment")
          /\ myCalls' = myCalls \cup {Call("comment", current.ticket, Box("comment"), presses)}
      BY <2>1, <3>3 DEF Send
    <3> QED
      BY <3>1, <3>2, <3>3, <3>4
  <2>2. CASE SubmitNew
    <3>1. \A k \in Posts : (Waiting(k)' <=> k = "manual" \/ Waiting(k))
      BY <2>2 DEF SubmitNew, Posts, Waiting
    <3>2. /\ "manual" \in Posts /\ Box("manual") = draft /\ Waiting("manual") = submitting
      BY DEF Posts, Box, Waiting
    <3>3. /\ Box("manual") # Blank /\ ~Waiting("manual")
          /\ myCalls' = myCalls \cup {Call("manual", Blank, Box("manual"), presses)}
      BY <2>2, <3>2 DEF SubmitNew
    <3> QED
      BY <3>1, <3>2, <3>3
  <2> QED
    BY <2>1, <2>2
<1> DEFINE p == Call(kind, t, Box(kind), presses)
<1>2. p \in PanelCall /\ p.kind = kind /\ p.text = Box(kind) /\ p.served = FALSE
  BY DEF Call, PanelCall, PanelTyped
<1> HIDE DEF p
<1>3. /\ UNCHANGED <<mine, stored, items, current, boxes, refused, dropped>>
      /\ presses' = presses + 1 /\ sending' \in BOOLEAN /\ submitting' \in BOOLEAN
  BY DEF Send, SubmitNew, Press, PanelTyped
<1>4. replyText' = replyText /\ draft' = draft /\ \A k \in Posts : Box(k)' = Box(k)
  BY <1>3 DEF boxes, Box
<1>5. Posted' = Posted \cup {p}
  BY <1>1, <1>2 DEF Posted, p
<1>6. PanelTyped'
  <2>1. p.text \in Texts
    BY <1>1, <1>2 DEF PanelTyped
  <2> QED
    BY <1>1, <1>2, <1>3, <1>4, <2>1 DEF PanelTyped, p
<1>7. PanelRest'
  BY <1>1, <1>2, <1>3, <1>4, <1>5, <1>6, PostingKeeps
<1> QED
  BY <1>6, <1>7 DEF PanelRest

LEMMA ServePostStep ==
    ASSUME PanelInv, NEW c \in myCalls, ServeComment(c) \/ ServeManual(c)
    PROVE  PanelInv'
<1> USE DEF PanelInv
<1>1. PICK t \in MyTickets \cup {Blank} :
        Serving(c, [c EXCEPT !.ticket = t]) /\ c.kind \in Posts /\ mine' \subseteq MyTickets
  <2>1. CASE ServeComment(c)
    <3>1. c = [c EXCEPT !.ticket = c.ticket] /\ c.ticket \in MyTickets \cup {Blank}
      BY DEF PanelTyped, PanelCall
    <3> QED
      BY <2>1, <3>1 DEF ServeComment, Posts, PanelTyped
  <2>2. CASE ServeManual(c)
    BY <2>2 DEF ServeManual, Posts, PanelTyped
  <2> QED
    BY <2>1, <2>2
<1> DEFINE d == [[c EXCEPT !.ticket = t] EXCEPT !.served = TRUE]
<1>2. c \in PanelCall /\ c \in Posted
  BY <1>1 DEF PanelTyped, Posted
<1>3. d \in PanelCall /\ d.kind = c.kind /\ d.text = c.text /\ d.served = TRUE
  BY <1>2 DEF PanelCall
<1>4. /\ ~c.served /\ myCalls' = (myCalls \ {c}) \cup {d}
      /\ UNCHANGED <<items, current, sending, submitting, boxes, presses, refused, dropped>>
  BY <1>1 DEF Serving, Then
<1> HIDE DEF d
<1>5. stored' = [stored EXCEPT ![c.text] = @ + 1]
  BY DEF ServeComment, ServeManual
<1>6. replyText' = replyText /\ draft' = draft
      /\ \A k \in Posts : Box(k)' = Box(k) /\ Waiting(k)' = Waiting(k)
  BY <1>4 DEF boxes, Box, Waiting
<1>7. Posted' = (Posted \ {c}) \cup {d}
  BY <1>1, <1>3, <1>4 DEF Posted
<1>8. PanelTyped'
  <2>1. c.text \in Texts
    BY <1>2, PostsTyped
  <2>2. stored' \in [Texts -> Nat]
    BY <1>5, <2>1 DEF PanelTyped
  <2>3. myCalls' \subseteq PanelCall /\ \A b \in myCalls' : b.kind \in Posts <=> b.text \in Texts
    BY <1>3, <1>4 DEF PanelTyped
  <2> QED
    BY <1>1, <1>4, <1>6, <2>2, <2>3 DEF PanelTyped
<1>9. PanelRest'
  BY <1>2, <1>3, <1>4, <1>5, <1>6, <1>7, <1>8, KeepingKeeps
<1> QED
  BY <1>8, <1>9 DEF PanelRest

LEMMA PostAnswerStep ==
    ASSUME PanelInv, NEW c \in myCalls, CommentAnswered(c) \/ ManualAnswered(c)
    PROVE  PanelInv'
<1> USE DEF PanelInv
<1>1. /\ c.served /\ c.kind \in Posts /\ c \in Posted /\ c \in PanelCall
  BY DEF CommentAnswered, ManualAnswered, Answer, Posts, Posted, PanelTyped
<1>2. PICK reads \in SUBSET PanelCall :
        /\ \A r \in reads : r.kind \notin Posts /\ r.text = Blank
        /\ myCalls' = (myCalls \ {c}) \cup reads
  <2>1. Load \in PanelCall /\ Load.kind \notin Posts /\ Load.text = Blank
    BY ReadsTyped DEF Posts
  <2>2. c.ticket \in MyTickets \cup {Blank}
    BY <1>1 DEF PanelCall
  <2>3. Open(c.ticket) \in PanelCall /\ Open(c.ticket).kind \notin Posts /\ Open(c.ticket).text = Blank
    BY <2>2, ReadsTyped DEF Posts
  <2>4. CASE CommentAnswered(c)
    BY <2>1, <2>4 DEF CommentAnswered, Then
  <2>5. CASE ManualAnswered(c)
    BY <2>1, <2>3, <2>5 DEF ManualAnswered, Then
  <2> QED
    BY <2>4, <2>5
<1>3. UNCHANGED <<mine, stored, items, current, presses, refused, dropped>>
  BY DEF CommentAnswered, ManualAnswered
<1>4. /\ \A k \in Posts : Box(k)' = (IF k = c.kind THEN Blank ELSE Box(k))
      /\ \A k \in Posts : Waiting(k)' = (k # c.kind /\ Waiting(k))
      /\ sending' \in BOOLEAN /\ submitting' \in BOOLEAN
  <2>1. CASE CommentAnswered(c)
    BY <2>1 DEF CommentAnswered, Answer, Posts, Box, Waiting, PanelTyped
  <2>2. CASE ManualAnswered(c)
    BY <2>2 DEF ManualAnswered, Answer, Posts, Box, Waiting, PanelTyped
  <2> QED
    BY <2>1, <2>2
<1>5. Posted' = Posted \ {c}
  BY <1>2 DEF Posted
<1>6. PanelTyped'
  <2>1. myCalls' \subseteq PanelCall /\ \A b \in myCalls' : b.kind \in Posts <=> b.text \in Texts
    BY <1>2, MyIssuesAssumption DEF PanelTyped
  <2> QED
    BY <1>3, <1>4, <2>1 DEF PanelTyped
<1>7. PanelRest'
  BY <1>1, <1>3, <1>4, <1>5, <1>6, AnsweringKeeps
<1> QED
  BY <1>6, <1>7 DEF PanelRest

LEMMA FailStep ==
    ASSUME PanelInv, NEW c \in myCalls, CallFailed(c)
    PROVE  PanelInv'
<1> USE DEF PanelInv
<1>1. /\ myCalls' = myCalls \ {c}
      /\ current' = IF c.kind = "ticket" THEN Blank ELSE current
      /\ sending' = (sending /\ c.kind # "comment")
      /\ submitting' = (submitting /\ c.kind # "manual")
      /\ refused' = [x \in Texts |-> refused[x] + IF x = c.text THEN 1 ELSE 0]
      /\ UNCHANGED <<mine, stored, items, presses, dropped>>
      /\ replyText' = replyText /\ draft' = draft
  BY DEF CallFailed, Then, boxes
<1>2. c \in PanelCall /\ (c.kind \in Posts <=> c.text \in Texts)
  BY DEF PanelTyped
<1>3. \A k \in Posts : Box(k)' = Box(k)
  BY <1>1 DEF Box
<1>4. CASE c.kind \in Posts
  <2>1. Posted' = Posted \ {c} /\ c \in Posted
    BY <1>1, <1>4 DEF Posted
  <2>2. \A k \in Posts : Waiting(k)' = (Waiting(k) /\ k # c.kind)
    BY <1>1, <1>4 DEF Posts, Waiting
  <2>3. refused' \in [Texts -> Nat]
    BY <1>1 DEF PanelTyped
  <2>4. PanelTyped'
    BY <1>1, <1>3, <2>3 DEF PanelTyped
  <2>5. PanelRest'
    BY <1>1, <1>3, <2>1, <2>2, <2>4, FailingKeeps
  <2> QED
    BY <2>4, <2>5 DEF PanelRest
<1>5. CASE c.kind \notin Posts
  <2>1. {c} \cap Posted = {}
    BY <1>5 DEF Posted
  <2>2. sending' = sending /\ submitting' = submitting
    BY <1>1, <1>5 DEF Posts, PanelTyped
  <2>3. refused' = refused
    <3>1. \A x \in Texts : refused[x] \in Nat /\ x # c.text
      BY <1>2, <1>5 DEF PanelTyped
    <3>2. refused = [x \in Texts |-> refused[x]]
      BY DEF PanelTyped
    <3>3. \A x \in Texts : refused[x] + (IF x = c.text THEN 1 ELSE 0) = refused[x]
      BY <3>1
    <3> QED
      BY <1>1, <3>2, <3>3
  <2>4. current' \in [ticket : MyTickets \cup {Blank}, open : BOOLEAN] \cup {Blank}
    BY <1>1 DEF PanelTyped
  <2>5. items' \subseteq MyTickets /\ presses' \in Nat
    BY <1>1 DEF PanelTyped
  <2>6. myCalls' = (myCalls \ {c}) \cup {}
    BY <1>1
  <2> QED
    BY <1>1, <2>1, <2>2, <2>3, <2>4, <2>5, <2>6, ReadsKeep
<1> QED
  BY <1>4, <1>5

LEMMA ReadStep ==
    ASSUME PanelInv, NEW c \in myCalls, ServeMyRead(c) \/ ListAnswered(c) \/ TicketAnswered(c)
    PROVE  PanelInv'
<1> USE DEF PanelInv
<1>1. c \in PanelCall /\ (c.kind \in Posts <=> c.text \in Texts) /\ c.text \in Texts \cup {Blank}
  BY DEF PanelTyped, PanelCall
<1>2. c.kind \notin Posts /\ c.text = Blank /\ {c} \cap Posted = {}
  BY <1>1 DEF ServeMyRead, ListAnswered, TicketAnswered, Answer, Posts, Posted
<1>3. UNCHANGED <<mine, stored, refused, dropped, sending, submitting, presses>>
      /\ replyText' = replyText /\ draft' = draft
  BY DEF ServeMyRead, Serving, ListAnswered, TicketAnswered, boxes
<1>4. /\ presses' \in Nat /\ items' \subseteq MyTickets
      /\ current' \in [ticket : MyTickets \cup {Blank}, open : BOOLEAN] \cup {Blank}
  <2>1. c.items \subseteq MyTickets /\ c.open \in BOOLEAN /\ c.ticket \in MyTickets \cup {Blank}
    BY <1>1 DEF PanelCall
  <2>2. [ticket |-> c.ticket, open |-> c.open] \in [ticket : MyTickets \cup {Blank}, open : BOOLEAN]
    BY <2>1
  <2>3. /\ presses \in Nat /\ items \subseteq MyTickets
        /\ current \in [ticket : MyTickets \cup {Blank}, open : BOOLEAN] \cup {Blank}
    BY DEF PanelTyped
  <2> QED
    BY <1>3, <2>1, <2>2, <2>3 DEF ServeMyRead, Serving, ListAnswered, TicketAnswered
<1>5. PICK reads \in SUBSET PanelCall :
        /\ \A r \in reads : r.kind \notin Posts /\ r.text = Blank
        /\ myCalls' = (myCalls \ {c}) \cup reads
  <2>1. CASE ServeMyRead(c)
    <3>1. PICK some \in SUBSET MyTickets, open \in BOOLEAN :
            Serving(c, [c EXCEPT !.items = some]) \/ Serving(c, [c EXCEPT !.open = open])
      BY <2>1 DEF ServeMyRead, PanelTyped
    <3> DEFINE d == [[c EXCEPT !.items = some] EXCEPT !.served = TRUE]
               b == [[c EXCEPT !.open = open] EXCEPT !.served = TRUE]
    <3>2. /\ d \in PanelCall /\ d.kind = c.kind /\ d.text = c.text
          /\ b \in PanelCall /\ b.kind = c.kind /\ b.text = c.text
      BY <1>1 DEF PanelCall
    <3>3. myCalls' = (myCalls \ {c}) \cup {d} \/ myCalls' = (myCalls \ {c}) \cup {b}
      BY <3>1 DEF Serving, Then
    <3> QED
      BY <1>2, <3>2, <3>3
  <2>2. CASE ListAnswered(c)
    <3>1. PICK t \in MyTickets \cup {Blank} : Then(c, {Open(t)}) \/ Then(c, {})
      BY <1>1, <2>2 DEF ListAnswered, PanelTyped, PanelCall
    <3>2. Open(t) \in PanelCall /\ Open(t).kind \notin Posts /\ Open(t).text = Blank
      BY ReadsTyped DEF Posts
    <3> QED
      BY <3>1, <3>2 DEF Then
  <2>3. CASE TicketAnswered(c)
    BY <2>3 DEF TicketAnswered, Then
  <2> QED
    BY <2>1, <2>2, <2>3
<1> QED
  BY <1>2, <1>3, <1>4, <1>5, ReadsKeep

LEMMA PressReadStep ==
    ASSUME PanelInv, PressOpenOnly \/ ToggleCreate \/ \E t \in items : PressRow(t)
    PROVE  PanelInv'
<1> USE DEF PanelInv
<1>1. /\ UNCHANGED <<mine, stored, refused, dropped, sending, submitting, items, current>>
      /\ replyText' = replyText /\ draft' = draft /\ presses' \in Nat
  BY DEF PressOpenOnly, ToggleCreate, PressRow, Press, boxes, PanelTyped
<1>2. PICK reads \in SUBSET PanelCall :
        /\ \A r \in reads : r.kind \notin Posts /\ r.text = Blank
        /\ myCalls' = (myCalls \ {}) \cup reads
  <2>1. CASE PressOpenOnly
    <3>1. Load \in PanelCall /\ Load.kind \notin Posts /\ Load.text = Blank
      BY ReadsTyped DEF Posts
    <3> QED
      BY <2>1, <3>1 DEF PressOpenOnly
  <2>2. CASE ToggleCreate
    <3>1. myCalls' = (myCalls \ {}) \cup {}
      BY <2>2 DEF ToggleCreate
    <3> QED
      BY <3>1
  <2>3. ASSUME NEW t \in items, PressRow(t)
        PROVE  \E reads \in SUBSET PanelCall :
                  /\ \A r \in reads : r.kind \notin Posts /\ r.text = Blank
                  /\ myCalls' = (myCalls \ {}) \cup reads
    <3>1. t \in MyTickets \cup {Blank}
      BY DEF PanelTyped
    <3>2. Open(t) \in PanelCall /\ Open(t).kind \notin Posts /\ Open(t).text = Blank
      BY <3>1, ReadsTyped DEF Posts
    <3> QED
      BY <2>3, <3>2 DEF PressRow
  <2> QED
    BY <2>1, <2>2, <2>3
<1>3. items' \subseteq MyTickets
      /\ current' \in [ticket : MyTickets \cup {Blank}, open : BOOLEAN] \cup {Blank}
  BY <1>1 DEF PanelTyped
<1> QED
  BY <1>1, <1>2, <1>3, ReadsKeep

LEMMA PanelInitInv == MyInit => PanelInv
<1> SUFFICES ASSUME MyInit PROVE PanelInv
  OBVIOUS
<1>1. Call("mine", Blank, Blank, 0) \in PanelCall /\ Call("mine", Blank, Blank, 0).kind = "mine"
      /\ Call("mine", Blank, Blank, 0).text = Blank
  BY DEF Call, PanelCall
<1>2. \A k \in Posts : Box(k) = Blank /\ Waiting(k) = FALSE
  BY DEF MyInit, Box, Waiting
<1>3. Posted = {}
  BY <1>1 DEF MyInit, Posted, Posts
<1>4. PanelTyped
  BY <1>1, <1>2, MyIssuesAssumption DEF MyInit, PanelTyped, Posts
<1>5. OnePostEach /\ OwnText /\ PostHeld
  BY <1>2, <1>3 DEF MyInit, OnePostEach, OwnText, PostHeld
<1>6. KeptAndRefused /\ RefusedIsShown
  BY <1>3 DEF MyInit, KeptAndRefused, RefusedIsShown
<1> QED
  BY <1>4, <1>5, <1>6 DEF PanelInv

(* The invariant of the panel: at most one reply and one new ticket are awaited, *)
(* each text is of one box, and what may still be posted was kept no more often  *)
(* than it failed.                                                               *)
THEOREM PanelInvariance == MySpec => []PanelInv
<1>1. PanelInv /\ [MyNext]_myVars => PanelInv'
  <2> SUFFICES ASSUME PanelInv, [MyNext]_myVars PROVE PanelInv'
    OBVIOUS
  <2>1. CASE UNCHANGED myVars
    <3>1. /\ UNCHANGED <<mine, stored, refused, dropped, sending, submitting, items, current,
                         myCalls, presses>>
          /\ replyText' = replyText /\ draft' = draft
      BY <2>1 DEF myVars, boxes
    <3>2. myCalls' = (myCalls \ {}) \cup {}
      BY <3>1
    <3>3. /\ presses' \in Nat /\ items' \subseteq MyTickets
          /\ current' \in [ticket : MyTickets \cup {Blank}, open : BOOLEAN] \cup {Blank}
      BY <3>1 DEF PanelInv, PanelTyped
    <3> QED
      BY <3>1, <3>2, <3>3, ReadsKeep
  <2>2. CASE MyNext
    BY <2>2, TypeStep, PostStep, ServePostStep, PostAnswerStep, FailStep, ReadStep, PressReadStep
       DEF MyNext
  <2> QED
    BY <2>1, <2>2
<1> QED
  BY <1>1, PanelInitInv, PTL DEF MySpec

(* A reply or a new ticket is kept once, and once more only for each failure the *)
(* reporter saw, and is on the page until it is kept: for every number of        *)
(* tickets, texts, presses and failing requests (my-issues.page.ts).             *)
THEOREM RepliesPostedOnce == MySpec => []PostedOnce
<1>1. PanelInv => PostedOnce
  <2> SUFFICES ASSUME PanelInv, NEW x \in Texts
               PROVE  /\ stored[x] <= 1 + refused[x]
                      /\ x \in Typed => x \in Written \cup dropped \/ stored[x] > 0
    BY DEF PostedOnce
  <2>1. stored[x] \in Nat /\ refused[x] \in Nat
    BY DEF PanelInv, PanelTyped
  <2>2. stored[x] <= 1 + refused[x]
    BY <2>1 DEF PanelInv, KeptAndRefused
  <2>3. refused[x] > 0 => x \in Written \cup dropped \/ stored[x] > 0
    BY DEF PanelInv, RefusedIsShown, Written, Posts, Box, Posted
  <2> QED
    BY <2>1, <2>2, <2>3 DEF Typed
<1> QED
  BY <1>1, PanelInvariance, PTL

=============================================================================
