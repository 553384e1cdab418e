------------------------------ MODULE PagedList ------------------------------
(* The two paged lists of the support console, admin.page.ts: error history   *)
(* (reloadErrors, sortErrors, filters) and recurring problems (goProblems,    *)
(* sortProblems, one filter value).  The server filters, sorts and pages;     *)
(* its answers may come back in any order, or not at all.                     *)
EXTENDS Integers, FiniteSets

CONSTANTS
    Filters,        \* what the selects and the box can hold, all together
    NoPage,
    MaxPages,       \* bound: pages the server may have
    MaxAsked        \* bound: requests

Sorts == {"desc", "asc", "severity"}
\* The key whose second click flips the direction, and the flipped one.
Flipped(s) == IF s = "desc" THEN "asc" ELSE "desc"

VARIABLES
    sort,           \* errorSort, problemSort
    filter,         \* errorFilters
    typing,         \* history: the search box was typed in since the last request
    shown,          \* the page that is drawn, with its pager
    pagesAsked,     \* requests so far
    pageCalls,      \* requests in flight
    pagesInOrder    \* history: no answer was overtaken, none failed

listVars == <<sort, filter, typing, shown, pagesAsked, pageCalls, pagesInOrder>>

PageCall == [n : Nat \ {0}, sort : Sorts, filter : Filters, page : Nat]
Page == [n : Nat \ {0}, sort : Sorts, filter : Filters, page : Nat, pages : 0 .. MaxPages]

ASSUME PagedListAssumption == MaxPages \in Nat /\ MaxAsked \in Nat /\ NoPage \notin Page

ShownPage == IF shown = NoPage THEN 1 ELSE shown.page

Get(s, f, page) ==
    /\ pagesAsked < MaxAsked /\ pagesAsked' = pagesAsked + 1
    /\ pageCalls' = pageCalls \cup
          {[n |-> pagesAsked + 1, sort |-> s, filter |-> f, page |-> IF page < 1 THEN 1 ELSE page]}
    /\ typing' = FALSE /\ UNCHANGED <<shown, pagesInOrder>>

ListInit ==
    /\ sort \in {"desc", "severity"}         \* occurred_desc, window_count
    /\ filter \in Filters /\ typing = FALSE /\ shown = NoPage
    /\ pagesAsked = 0 /\ pageCalls = {} /\ pagesInOrder = TRUE

\* refresh: the page that is shown, or the first one.
Reload == Get(sort, filter, ShownPage) /\ UNCHANGED <<sort, filter>>

\* Previous and Next are disabled at the ends of what is shown.
GoPrevious ==
    /\ shown # NoPage /\ shown.page > 1
    /\ Get(sort, filter, shown.page - 1) /\ UNCHANGED <<sort, filter>>
GoNext ==
    /\ shown # NoPage /\ shown.page < shown.pages
    /\ Get(sort, filter, shown.page + 1) /\ UNCHANGED <<sort, filter>>

\* Mutation: the page is asked for before the sort is set.
SortByLate(key) ==
    LET chosen == IF key = "desc" /\ sort \in {"desc", "asc"} THEN Flipped(sort) ELSE key
    IN  sort' = chosen /\ Get(sort, filter, 1) /\ UNCHANGED filter

\* A header of the list, back to page one.
SortBy(key) ==
    LET chosen == IF key = "desc" /\ sort \in {"desc", "asc"} THEN Flipped(sort) ELSE key
    IN  sort' = chosen /\ Get(chosen, filter, 1) /\ UNCHANGED filter

\* A select, the check box, or Enter in the search box.
FilterBy(f) == filter' = f /\ Get(sort, f, 1) /\ UNCHANGED sort

\* The search box is bound to the filter, and asks for nothing before Enter: a
\* pager's button takes the new text to another page.
TypeSearch(f) ==
    /\ filter' = f /\ typing' = TRUE
    /\ UNCHANGED <<sort, shown, pagesAsked, pageCalls, pagesInOrder>>

PageAnswered(c, pages) ==
    /\ c \in pageCalls /\ pageCalls' = pageCalls \ {c}
    /\ shown' = [n |-> c.n, sort |-> c.sort, filter |-> c.filter, page |-> c.page, pages |-> pages]
    /\ pagesInOrder' = (pagesInOrder /\ (shown # NoPage => shown.n < c.n))
    /\ UNCHANGED <<sort, filter, typing, pagesAsked>>

\* subscribe without an error callback: the list stays as it is.
PageFailed(c) ==
    /\ c \in pageCalls /\ pageCalls' = pageCalls \ {c}
    /\ pagesInOrder' = FALSE
    /\ UNCHANGED <<sort, filter, typing, shown, pagesAsked>>

ListNext ==
    \/ Reload \/ GoPrevious \/ GoNext
    \/ \E key \in Sorts \ {"asc"} : SortBy(key)
    \/ \E f \in Filters : FilterBy(f) \/ TypeSearch(f)
    \/ \E c \in pageCalls : PageFailed(c) \/ \E pages \in 0 .. MaxPages : PageAnswered(c, pages)

ListSpec == ListInit /\ [][ListNext]_listVars

-----------------------------------------------------------------------------
ListTypeOK ==
    /\ sort \in Sorts /\ filter \in Filters /\ typing \in BOOLEAN
    /\ shown \in Page \cup {NoPage}
    /\ pagesAsked \in 0 .. MaxAsked
    /\ pageCalls \subseteq PageCall /\ (\A c \in pageCalls : c.n <= pagesAsked)
    /\ pagesInOrder \in BOOLEAN

(* ListMatchesControls: when the answers have come in the order they were     *)
(* asked for and none is outstanding, the list is sorted and filtered as its  *)
(* headers, selects and box say (the arrow of sortArrow, the pager's sortBy), *)
(* and while some are outstanding the last of them will make it so - unless   *)
(* the box holds a text that Enter has not been pressed on.                   *)
ListMatchesControls ==
    ~typing =>
        /\ pagesInOrder /\ pageCalls = {} /\ shown # NoPage
              => shown.sort = sort /\ shown.filter = filter
        /\ \A c \in pageCalls : c.n = pagesAsked => c.sort = sort /\ c.filter = filter

=============================================================================
