------------------------- MODULE ErrorTransport_proofs -------------------------
(***************************************************************************)
(* Theorems about the browser's queue, for any number of tabs, any sizes   *)
(* and any mishaps.                                                        *)
(*                                                                         *)
(* Why the backlog is bounded: the reporter adds an entry only while no    *)
(* report waits, and the entry of the report that waits is the last of the *)
(* queue, because nobody else adds one (WaiterLast).  It is released when  *)
(* its entry was in a batch that ended; a batch that holds the last entry  *)
(* is the whole queue, so the queue was no longer than a batch then (Room).*)
(*                                                                         *)
(* Why copies are few: an error lies in at most one place from which an    *)
(* occurrence may still come (a page, a request nobody waits for, the      *)
(* stored queue once no page is up), and every mishap that adds a place is *)
(* counted, so occurrences and places balance with the mishaps (Counted).  *)
(*                                                                         *)
(* Why nothing is lost: the batch is the head of the queue, what a full    *)
(* answer takes off it is recorded, the only tab is mirrored in            *)
(* localStorage, and so few errors are under way that nothing is cut off   *)
(* (Sound, Fits); the premise, once false, stays false (HarmlessBefore).   *)
(***************************************************************************)
EXTENDS ErrorTransport, SequenceTheorems, FiniteSetTheorems, TLAPS

Backlog == Larger(MaxStored, BatchSize)

\* Entries carry the numbers of errors raised so far, so a new one is new.
Numbered(p, r) ==
    /\ p.queue \in Seq(1 .. r) /\ p.batch \in Seq(1 .. r)
    /\ p.waiting \in (1 .. r) \cup {None}

WaiterLast(p) == \A i \in 1 .. Len(p.queue) - 1 : p.queue[i] # p.waiting

Room(p) ==
    /\ Len(p.queue) <= Backlog + (IF p.waiting = None THEN 0 ELSE 1)
    /\ p.waiting \in Elements(p.batch) => Len(p.queue) <= Backlog

Awake(p) == p.queue # <<>> => p.timer \/ p.batch # <<>>

PageInv(p, r) == p \in Page /\ Numbered(p, r) /\ WaiterLast(p) /\ Room(p) /\ Awake(p)

Inv ==
    /\ TypeOK
    /\ stored \in Seq(1 .. raised)
    /\ \A t \in Tabs : PageInv(tab[t], raised)

----------------------------------------------------------------------------
(* The sequences the queue is cut into.                                   *)

LEMMA ElementsOf ==
    ASSUME NEW S, NEW q \in Seq(S)
    PROVE  /\ Elements(q) = {q[i] : i \in 1 .. Len(q)}
           /\ Elements(q) \subseteq S
           /\ q = <<>> => Elements(q) = {}
BY LenProperties, ElementOfSeq DEF Elements

LEMMA FirstIsPrefix ==
    ASSUME NEW S, NEW q \in Seq(S), NEW n \in Nat
    PROVE  /\ First(n, q) \in Seq(S)
           /\ Len(First(n, q)) = Smaller(n, Len(q))
           /\ \A i \in 1 .. Len(First(n, q)) : First(n, q)[i] = q[i]
<1> DEFINE k == Smaller(n, Len(q))
<1>1. Len(q) \in Nat /\ k \in Nat /\ k <= Len(q)
  BY LenProperties DEF Smaller
<1>2. \A i \in 1 .. k : q[i] \in S
  BY <1>1, ElementOfSeq
<1> HIDE DEF k
<1>3. /\ SubSeq(q, 1, k) \in Seq(S)
      /\ Len(SubSeq(q, 1, k)) = IF 1 <= k THEN k - 1 + 1 ELSE 0
      /\ \A i \in 1 .. k - 1 + 1 : SubSeq(q, 1, k)[i] = q[1 + i - 1]
  BY <1>1, <1>2, SubSeqProperties
<1>4. First(n, q) = SubSeq(q, 1, k)
  BY DEF First, k
<1>5. Len(First(n, q)) = k
  BY <1>1, <1>3, <1>4
<1>6. \A i \in 1 .. k : First(n, q)[i] = q[i]
  BY <1>1, <1>3, <1>4
<1> QED BY <1>3, <1>4, <1>5, <1>6 DEF k

LEMMA TailOf ==
    ASSUME NEW S, NEW q \in Seq(S), NEW m \in Nat \ {0}
    PROVE  /\ SubSeq(q, m, Len(q)) \in Seq(S)
           /\ Len(SubSeq(q, m, Len(q))) = IF m <= Len(q) THEN Len(q) - m + 1 ELSE 0
           /\ \A i \in 1 .. Len(q) - m + 1 : SubSeq(q, m, Len(q))[i] = q[m + i - 1]
<1>1. Len(q) \in Nat
  BY LenProperties
<1>2. \A i \in m .. Len(q) : q[i] \in S
  <2> SUFFICES ASSUME NEW i \in m .. Len(q) PROVE q[i] \in S
    OBVIOUS
  <2>1. i \in 1 .. Len(q)
    BY <1>1
  <2> QED BY <2>1, ElementOfSeq
<1> QED BY <1>1, <1>2, SubSeqProperties

LEMMA PersistedIsCapped ==
    ASSUME NEW S, NEW q \in Seq(S)
    PROVE  Persisted(q) \in Seq(S) /\ Len(Persisted(q)) <= MaxStored
<1> DEFINE m == IF Len(q) <= MaxStored THEN 1 ELSE Len(q) - MaxStored + 1
<1>1. Len(q) \in Nat /\ m \in Nat \ {0}
  BY LenProperties, SizesAssumption
<1>2. Len(q) - m + 1 <= MaxStored
  BY <1>1, SizesAssumption
<1> HIDE DEF m
<1>3. /\ SubSeq(q, m, Len(q)) \in Seq(S)
      /\ Len(SubSeq(q, m, Len(q))) <= MaxStored
  BY <1>1, <1>2, TailOf, SizesAssumption
<1> QED BY <1>3 DEF Persisted, m

LEMMA RemoveAtTyped ==
    ASSUME NEW S, NEW q \in Seq(S), NEW i \in DOMAIN q
    PROVE  RemoveAt(q, i) \in Seq(S)
<1>1. Len(q) \in Nat /\ i \in 1 .. Len(q)
  BY LenProperties
<1>2. \A j \in 1 .. i - 1 : q[j] \in S
  <2> SUFFICES ASSUME NEW j \in 1 .. i - 1 PROVE q[j] \in S
    OBVIOUS
  <2>1. j \in 1 .. Len(q)
    BY <1>1
  <2> QED BY <2>1, ElementOfSeq
<1>3. SubSeq(q, 1, i - 1) \in Seq(S)
  BY <1>1, <1>2, SubSeqProperties
<1>4. SubSeq(q, i + 1, Len(q)) \in Seq(S)
  BY <1>1, TailOf
<1> QED BY <1>3, <1>4, ConcatProperties DEF RemoveAt

LEMMA BacklogSize == Backlog \in Nat /\ MaxStored <= Backlog /\ BatchSize <= Backlog
BY SizesAssumption DEF Backlog, Larger

----------------------------------------------------------------------------
(* The rest of the state.                                                 *)

\* Whether the write goes through or not.
LEMMA StoresTyped ==
    ASSUME Inv, NEW n \in Nat, raised <= n, NEW q \in Seq(1 .. n), Stores(q)
    PROVE  /\ stored' \in Seq(1 .. n) /\ Len(stored') <= MaxStored
           /\ unstored' \in Nat
           /\ \/ stored' = Persisted(q) /\ unstored' = unstored
              \/ stored' = stored /\ unstored' = unstored + 1
<1>1. Persisted(q) \in Seq(1 .. n) /\ Len(Persisted(q)) <= MaxStored
  BY PersistedIsCapped
<1>2. stored \in Seq(1 .. n) /\ Len(stored) <= MaxStored /\ unstored \in Nat
  <2>1. raised \in Nat
    BY BoundsAssumption DEF Inv, TypeOK
  <2>2. 1 .. raised \subseteq 1 .. n
    BY <2>1
  <2> QED BY <2>2, SeqMonotonic DEF Inv, TypeOK
<1> QED BY <1>1, <1>2 DEF Stores

LEMMA HappensTyped ==
    ASSUME mishaps \in [Mishap -> Nat], NEW k \in Mishap, Happens(k)
    PROVE  mishaps' \in [Mishap -> Nat]
BY DEF Happens

LEMMA RecordTyped ==
    ASSUME recorded \in [Error -> Nat], NEW body, NEW n, NEW ok, Record(body, n, ok)
    PROVE  recorded' \in [Error -> Nat]
BY DEF Record

LEMMA AbandonedTyped ==
    ASSUME NEW p \in Page, NEW w \in Seq(Seq(Error))
    PROVE  Abandoned(p, w) \subseteq Seq(Seq(Error))
<1>1. p.batch \in Seq(Error)
  BY DEF Page
<1>2. Append(w, p.batch) \in Seq(Seq(Error))
  BY <1>1, AppendProperties
<1> QED BY <1>2 DEF Abandoned

LEMMA ResultsTyped ==
    ASSUME NEW body \in Seq(Error), NEW n \in 0 .. Len(body), NEW ok
    PROVE  Results(body, n, ok) \in Seq(Error \cup {None})
<1> DEFINE k == IF n = 0 THEN InFull(body) ELSE n
<1>1. Len(body) \in Nat /\ k \in Nat /\ k <= Len(body)
  BY LenProperties, SizesAssumption DEF InFull, Smaller
<1>2. \A i \in 1 .. k : body[i] \in Error
  BY <1>1, ElementOfSeq
<1>3. Results(body, n, ok) \in [1 .. k -> Error \cup {None}]
  BY <1>2 DEF Results
<1> HIDE DEF k
<1> QED BY <1>1, <1>3

----------------------------------------------------------------------------
(* One page changes, the others only see more errors raised.              *)

Others ==
    /\ raised' \in 0 .. MaxRaised /\ raised <= raised'
    /\ stored' \in Seq(1 .. raised') /\ Len(stored') <= MaxStored
    /\ accepted' \subseteq 1 .. raised'
    /\ wire' \in Seq(Seq(Error))
    /\ recorded' \in [Error -> Nat]
    /\ told' \subseteq Error \X Error
    /\ mishaps' \in [Mishap -> Nat] /\ unstored' \in Nat

LEMMA StillNumbered ==
    ASSUME NEW p, NEW r \in Nat, NEW r2 \in Nat, r <= r2, PageInv(p, r)
    PROVE  PageInv(p, r2)
<1>1. 1 .. r \subseteq 1 .. r2
  OBVIOUS
<1>2. p.queue \in Seq(1 .. r2) /\ p.batch \in Seq(1 .. r2)
  BY <1>1, SeqMonotonic DEF PageInv, Numbered
<1> QED BY <1>1, <1>2 DEF PageInv, Numbered

LEMMA StepKeepsInv ==
    ASSUME Inv, NEW t \in Tabs, NEW p, Becomes(t, p), PageInv(p, raised'), Others
    PROVE  Inv'
<1>1. raised \in Nat /\ raised' \in Nat /\ raised <= raised'
  BY BoundsAssumption DEF Inv, TypeOK, Others
<1>2. tab' \in [Tabs -> Page]
  BY DEF Inv, TypeOK, Becomes, PageInv
<1>3. ASSUME NEW u \in Tabs PROVE PageInv(tab'[u], raised')
  <2>1. CASE u = t
    <3>1. tab'[u] = p
      BY <2>1 DEF Becomes, Inv, TypeOK
    <3> QED BY <3>1
  <2>2. CASE u # t
    <3>1. tab'[u] = tab[u]
      BY <2>2 DEF Becomes, Inv, TypeOK
    <3>2. PageInv(tab[u], raised)
      BY DEF Inv
    <3> QED BY <1>1, <3>1, <3>2, StillNumbered
  <2> QED BY <2>1, <2>2
<1>4. 1 .. raised' \subseteq Error
  BY BoundsAssumption DEF Others, Error
<1>5. stored' \in Seq(Error)
  BY <1>4, SeqMonotonic DEF Others
<1>6. TypeOK'
  BY <1>2, <1>5 DEF TypeOK, Others
<1>7. \A u \in Tabs : PageInv(tab[u], raised)'
  BY <1>3 DEF PageInv, Numbered, WaiterLast, Room, Awake
<1>8. (stored \in Seq(1 .. raised))'
  BY DEF Others
<1> QED BY <1>6, <1>7, <1>8 DEF Inv

\* Steps that leave the pages alone.
LEMMA PagesKept ==
    ASSUME Inv, UNCHANGED tab, Others
    PROVE  Inv'
<1>1. raised \in Nat /\ raised' \in Nat /\ raised <= raised'
  BY BoundsAssumption DEF Inv, TypeOK, Others
<1>2. \A u \in Tabs : PageInv(tab'[u], raised')
  BY <1>1, StillNumbered DEF Inv
<1>3. 1 .. raised' \subseteq Error
  BY BoundsAssumption DEF Others, Error
<1>4. stored' \in Seq(Error)
  BY <1>3, SeqMonotonic DEF Others
<1>5. TypeOK'
  BY <1>4 DEF TypeOK, Others, Inv
<1>6. \A u \in Tabs : PageInv(tab[u], raised)'
  BY <1>2 DEF PageInv, Numbered, WaiterLast, Room, Awake
<1>7. (stored \in Seq(1 .. raised))'
  BY DEF Others
<1> QED BY <1>5, <1>6, <1>7 DEF Inv

\* What a step may use of the page it is about.
LEMMA PageFacts ==
    ASSUME Inv, NEW t \in Tabs
    PROVE  /\ PageInv(tab[t], raised) /\ tab[t] \in Page
           /\ raised \in Nat /\ raised <= MaxRaised
           /\ tab[t].queue \in Seq(1 .. raised) /\ tab[t].batch \in Seq(1 .. raised)
           /\ tab[t].batch \in Seq(Error)
           /\ Len(tab[t].queue) \in Nat /\ Len(tab[t].batch) \in Nat
           /\ tab[t].queue = <<>> <=> Len(tab[t].queue) = 0
           /\ tab[t].batch = <<>> <=> Len(tab[t].batch) = 0
<1>1. PageInv(tab[t], raised) /\ tab[t] \in Page /\ raised \in Nat /\ raised <= MaxRaised
  BY BoundsAssumption DEF Inv, TypeOK, PageInv
<1>2. tab[t].queue \in Seq(1 .. raised) /\ tab[t].batch \in Seq(1 .. raised)
  BY <1>1 DEF PageInv, Numbered
<1>3. tab[t].batch \in Seq(Error)
  BY <1>1 DEF Page
<1> QED BY <1>1, <1>2, <1>3, LenProperties, EmptySeq

\* The rest of the state when only mishaps, at most, change.
LEMMA OthersKept ==
    ASSUME Inv, UNCHANGED <<stored, unstored, wire, server>>, mishaps' \in [Mishap -> Nat]
    PROVE  Others
BY BoundsAssumption DEF Inv, TypeOK, Others, server

----------------------------------------------------------------------------
(* One lemma for each action.                                             *)

LEMMA EnqueuedAtTheEnd ==
    ASSUME NEW r \in Nat, NEW q \in Seq(1 .. r)
    PROVE  /\ Enqueued(q, r + 1) \in Seq(1 .. r + 1)
           /\ Len(Enqueued(q, r + 1)) \in Nat
           /\ Len(Enqueued(q, r + 1)) <= Len(q) + 1
           /\ \A i \in 1 .. Len(Enqueued(q, r + 1)) - 1 : Enqueued(q, r + 1)[i] \in 1 .. r
<1> DEFINE kept == IF Len(q) >= MaxQueue THEN Tail(q) ELSE q
<1>1. Len(q) \in Nat
  BY LenProperties
<1>2. kept \in Seq(1 .. r) /\ Len(kept) <= Len(q)
  <2>1. CASE Len(q) >= MaxQueue
    <3>1. q # <<>>
      BY <2>1, EmptySeq, SizesAssumption
    <3> QED BY <1>1, <2>1, <3>1, HeadTailProperties
  <2>2. CASE ~(Len(q) >= MaxQueue)
    BY <1>1, <2>2
  <2> QED BY <2>1, <2>2
<1> HIDE DEF kept
<1>3. kept \in Seq(1 .. r + 1) /\ r + 1 \in 1 .. r + 1
  BY <1>2, SeqMonotonic
<1>4. /\ Append(kept, r + 1) \in Seq(1 .. r + 1)
      /\ Len(Append(kept, r + 1)) = Len(kept) + 1
      /\ \A i \in 1 .. Len(kept) : Append(kept, r + 1)[i] = kept[i]
  BY <1>3, AppendProperties
<1>5. Len(kept) \in Nat /\ \A i \in 1 .. Len(kept) : kept[i] \in 1 .. r
  BY <1>2, LenProperties, ElementOfSeq
<1>6. Enqueued(q, r + 1) = Append(kept, r + 1)
  BY DEF Enqueued, kept
<1> HIDE DEF kept
<1>7. \A i \in 1 .. Len(kept) : Append(kept, r + 1)[i] \in 1 .. r
  BY <1>4, <1>5
<1>8. Len(Append(kept, r + 1)) \in Nat /\ Len(Append(kept, r + 1)) <= Len(q) + 1
  BY <1>1, <1>2, <1>4, <1>5
<1>9. Len(Append(kept, r + 1)) - 1 = Len(kept)
  BY <1>4, <1>5
<1> QED BY <1>4, <1>6, <1>7, <1>8, <1>9

LEMMA ReportStep ==
    ASSUME Inv, NEW t \in Tabs, Report(t)
    PROVE  Inv'
<1> DEFINE e == raised + 1
           q == Enqueued(tab[t].queue, e)
           p == [tab[t] EXCEPT !.queue = q, !.waiting = e, !.timer = TRUE]
<1>1. /\ PageInv(tab[t], raised) /\ tab[t] \in Page /\ raised \in Nat
      /\ tab[t].queue \in Seq(1 .. raised) /\ tab[t].batch \in Seq(1 .. raised)
      /\ Len(tab[t].queue) \in Nat
  BY PageFacts
<1>2. /\ raised' = e /\ Becomes(t, p) /\ tab[t].waiting = None
      /\ Stores(q) /\ e <= MaxRaised /\ accepted' = accepted \cup {e}
      /\ UNCHANGED <<wire, recorded, told, mishaps>>
  BY <1>1, BoundsAssumption DEF Report
<1>3. /\ q \in Seq(1 .. e) /\ Len(q) \in Nat /\ Len(q) <= Len(tab[t].queue) + 1
      /\ \A i \in 1 .. Len(q) - 1 : q[i] \in 1 .. raised
  BY <1>1, EnqueuedAtTheEnd
<1> HIDE DEF q
<1>4. /\ p.queue = q /\ p.waiting = e /\ p.timer = TRUE
      /\ p.batch = tab[t].batch
  BY <1>1 DEF Page
<1>5. 1 .. e \subseteq Error /\ 1 .. raised \subseteq 1 .. e /\ e \in Error
  <2>1. raised \in Nat /\ raised + 1 <= MaxRaised /\ MaxRaised \in Nat
    BY <1>1, <1>2, BoundsAssumption
  <2> QED BY <2>1 DEF Error
<1>6. p \in Page
  <2>1. q \in Seq(Error)
    BY <1>3, <1>5, SeqMonotonic
  <2> QED BY <1>1, <1>5, <2>1 DEF Page
<1>7. Numbered(p, e)
  <2>1. tab[t].batch \in Seq(1 .. e)
    BY <1>1, <1>5, SeqMonotonic
  <2> QED BY <1>1, <1>3, <1>4, <2>1 DEF Numbered
<1>8. WaiterLast(p)
  <2> SUFFICES ASSUME NEW i \in 1 .. Len(q) - 1 PROVE q[i] # e
    BY <1>4 DEF WaiterLast
  <2>1. q[i] \in 1 .. raised /\ e \notin 1 .. raised
    BY <1>1, <1>3
  <2> QED BY <2>1
<1>9. Room(p)
  <2>1. Len(tab[t].queue) <= Backlog
    BY <1>1, <1>2, BacklogSize DEF PageInv, Room
  <2>2. e \notin Elements(p.batch)
    BY <1>1, <1>4, ElementsOf
  <2>3. Len(q) <= Backlog + 1 /\ e # None
    BY <1>1, <1>3, <2>1, BacklogSize, NoneAssumption
  <2> QED BY <1>4, <2>2, <2>3 DEF Room
<1>10. Awake(p)
  BY <1>4 DEF Awake
<1>11. Others
  <2>1. stored' \in Seq(1 .. raised') /\ Len(stored') <= MaxStored /\ unstored' \in Nat
    <3>1. e \in Nat /\ raised <= e
      BY <1>1
    <3> QED BY <1>2, <1>3, <3>1, StoresTyped
  <2>2. accepted' \subseteq 1 .. raised'
    BY <1>1, <1>2, <1>5 DEF Inv, TypeOK
  <2> QED BY <1>1, <1>2, <2>1, <2>2 DEF Inv, TypeOK, Others
<1> HIDE DEF p, e
<1> QED BY <1>2, <1>6, <1>7, <1>8, <1>9, <1>10, <1>11, StepKeepsInv DEF PageInv

LEMMA ReportIgnoredStep ==
    ASSUME Inv, NEW t \in Tabs, ReportIgnored(t)
    PROVE  Inv'
<1>1. raised \in Nat /\ raised' = raised + 1 /\ raised' <= MaxRaised
  BY BoundsAssumption DEF Inv, TypeOK, ReportIgnored
<1>2. 1 .. raised \subseteq 1 .. raised'
  BY <1>1
<1>3. stored' \in Seq(1 .. raised')
  BY <1>2, SeqMonotonic DEF Inv, ReportIgnored, storage
<1>4. Others
  BY <1>1, <1>2, <1>3 DEF Others, ReportIgnored, Inv, TypeOK, storage
<1> QED BY <1>4, PagesKept DEF ReportIgnored

LEMMA TimerFiresStep ==
    ASSUME Inv, NEW t \in Tabs, TimerFires(t)
    PROVE  Inv'
<1> DEFINE page == tab[t]
           b == IF page.batch # <<>> THEN page.batch ELSE First(BatchSize, page.queue)
           p == [page EXCEPT !.timer = FALSE, !.batch = b]
<1>1. /\ PageInv(page, raised) /\ page \in Page /\ raised \in Nat
      /\ page.queue \in Seq(1 .. raised) /\ page.batch \in Seq(1 .. raised)
      /\ Len(page.queue) \in Nat /\ page.queue = <<>> <=> Len(page.queue) = 0
      /\ raised <= MaxRaised
  BY PageFacts
<1>2. Becomes(t, p) /\ Others
  <2>1. mishaps' \in [Mishap -> Nat]
    BY DEF TimerFires, Inv, TypeOK
  <2> QED BY <2>1, OthersKept DEF TimerFires, storage
<1>3. raised' = raised
  BY DEF TimerFires, server
<1>4. First(BatchSize, page.queue) \in Seq(1 .. raised)
      /\ Len(First(BatchSize, page.queue)) = Smaller(BatchSize, Len(page.queue))
      /\ \A i \in 1 .. Len(First(BatchSize, page.queue)) :
              First(BatchSize, page.queue)[i] = page.queue[i]
  <2>1. BatchSize \in Nat /\ page.queue \in Seq(1 .. raised)
    BY <1>1, SizesAssumption
  <2> HIDE DEF page
  <2> QED BY <2>1, FirstIsPrefix
<1>5. b \in Seq(1 .. raised)
  BY <1>1, <1>4
<1>6. page.queue # <<>> => b # <<>>
  <2> SUFFICES ASSUME page.queue # <<>>, page.batch = <<>> PROVE b # <<>>
    OBVIOUS
  <2>1. Len(b) # 0
    BY <1>1, <1>4, SizesAssumption DEF Smaller
  <2> QED BY <2>1, EmptySeq
<1>7. page.waiting \in Elements(b) => Len(page.queue) <= Backlog
  <2>1. CASE page.batch # <<>>
    BY <1>1, <2>1 DEF PageInv, Room
  <2>2. CASE page.batch = <<>> /\ page.waiting \in Elements(b)
    <3>1. b = First(BatchSize, page.queue)
      BY <2>2
    <3>2. PICK i \in 1 .. Len(b) : b[i] = page.waiting
      BY <1>5, <2>2, ElementsOf
    <3>3. Len(b) <= Len(page.queue) /\ Len(b) <= BatchSize /\ Len(b) \in Nat
      <4>1. Len(b) = Smaller(BatchSize, Len(page.queue))
        BY <1>4, <3>1
      <4>2. Len(page.queue) \in Nat /\ BatchSize \in Nat
        BY <1>1, SizesAssumption
      <4> HIDE DEF b
      <4> QED BY <4>1, <4>2 DEF Smaller
    <3>4. page.queue[i] = page.waiting
      BY <1>4, <3>1, <3>2
    <3>5. ~(i \in 1 .. Len(page.queue) - 1)
      BY <1>1, <3>4 DEF PageInv, WaiterLast
    <3>6. Len(page.queue) <= BatchSize
      <4>1. Len(page.queue) \in Nat /\ BatchSize \in Nat
        BY <1>1, SizesAssumption
      <4> HIDE DEF b
      <4> QED BY <3>2, <3>3, <3>5, <4>1
    <3> QED BY <1>1, <3>6, BacklogSize, SizesAssumption
  <2> QED BY <2>1, <2>2
<1> HIDE DEF b
<1>8. /\ p.queue = page.queue /\ p.waiting = page.waiting /\ p.batch = b
  BY <1>1 DEF Page
<1>9. p \in Page
  <2>1. 1 .. raised \subseteq Error
    BY <1>1, BoundsAssumption DEF Error
  <2>2. b \in Seq(Error)
    BY <1>5, <2>1, SeqMonotonic
  <2> QED BY <1>1, <2>2 DEF Page
<1>10. Numbered(p, raised) /\ WaiterLast(p) /\ Room(p) /\ Awake(p)
  BY <1>1, <1>5, <1>6, <1>7, <1>8 DEF PageInv, Numbered, WaiterLast, Room, Awake
<1> HIDE DEF p
<1> QED BY <1>2, <1>3, <1>9, <1>10, StepKeepsInv DEF PageInv

\* The server's answer is on its way; nothing else of the page changes.
LEMMA ServeStep ==
    ASSUME Inv, NEW t \in Tabs, Serve(t) \/ ServeInPart(t)
    PROVE  Inv'
<1> DEFINE page == tab[t]
           body == page.batch
<1>1. /\ PageInv(page, raised) /\ page \in Page /\ raised \in Nat
      /\ body \in Seq(Error) /\ Len(body) \in Nat
  BY PageFacts
<1>2. InFull(body) \in 0 .. Len(body)
  BY <1>1, SizesAssumption DEF InFull, Smaller
<1>3. PICK n \in 0 .. InFull(body), ok \in SUBSET Nat :
          /\ Record(body, n, ok)
          /\ Becomes(t, [page EXCEPT !.reply = Results(body, n, ok)])
  BY <1>1, <1>2 DEF Serve, ServeInPart
<1> DEFINE p == [page EXCEPT !.reply = Results(body, n, ok)]
<1>4. p \in Page
  <2>1. n \in 0 .. Len(body)
    BY <1>1, <1>2
  <2>2. Results(body, n, ok) \in Seq(Error \cup {None})
    BY <1>1, <2>1, ResultsTyped
  <2> HIDE DEF body
  <2> QED BY <1>1, <2>2 DEF Page
<1>5. /\ p.queue = page.queue /\ p.batch = page.batch /\ p.timer = page.timer
      /\ p.waiting = page.waiting
  BY <1>1 DEF Page
<1>6. UNCHANGED <<stored, unstored, wire, raised, accepted, told>>
  BY <1>3 DEF Serve, ServeInPart, Record, storage
<1>7. mishaps' \in [Mishap -> Nat]
  <2>1. CASE Serve(t)
    BY <2>1 DEF Serve, Inv, TypeOK
  <2>2. CASE ServeInPart(t)
    BY <2>2, HappensTyped DEF ServeInPart, Inv, TypeOK, Mishap
  <2> QED BY <2>1, <2>2
<1>8. recorded' \in [Error -> Nat]
  BY <1>3, RecordTyped DEF Inv, TypeOK
<1>9. Others
  BY <1>6, <1>7, <1>8, <1>1 DEF Inv, TypeOK, Others
<1>10. Becomes(t, p)
  BY <1>3
<1> HIDE DEF p
<1>11. PageInv(p, raised)
  BY <1>1, <1>4, <1>5 DEF PageInv, Numbered, WaiterLast, Room, Awake
<1> QED BY <1>6, <1>9, <1>10, <1>11, StepKeepsInv

LEMMA ReleasedFacts ==
    ASSUME NEW page, NEW r \in Nat, PageInv(page, r)
    PROVE  /\ Released(page) \in (1 .. r) \cup {None}
           /\ Released(page) = None => Len(page.queue) <= Backlog
           /\ Released(page) # None => /\ Released(page) = page.waiting
                                       /\ Len(page.queue) <= Backlog + 1
<1>1. page.waiting \in (1 .. r) \cup {None} /\ None \notin 1 .. r
  BY NoneAssumption DEF PageInv, Numbered
<1>2. Len(page.queue) <= Backlog + (IF page.waiting = None THEN 0 ELSE 1)
  BY DEF PageInv, Room
<1>3. page.waiting \in Elements(page.batch) => Len(page.queue) <= Backlog
  BY DEF PageInv, Room
<1>4. Backlog \in Nat /\ Len(page.queue) \in Nat
  BY BacklogSize, LenProperties DEF PageInv, Numbered
<1>5. page.waiting = None => Len(page.queue) <= Backlog
  BY <1>2, <1>4
<1> QED BY <1>1, <1>2, <1>3, <1>4, <1>5 DEF Released

\* Both ends of a request leave a rest of the queue and release its callers.
LEMMA RequestEnds ==
    ASSUME NEW page, NEW r \in 0 .. MaxRaised, PageInv(page, r), NEW m \in Nat \ {0},
           NEW p \in Page,
           p.queue = SubSeq(page.queue, m, Len(page.queue)), p.batch = <<>>,
           p.waiting = Released(page), p.queue # <<>> => p.timer
    PROVE  PageInv(p, r)
<1>1. r \in Nat /\ page.queue \in Seq(1 .. r) /\ Len(page.queue) \in Nat
  BY BoundsAssumption, LenProperties DEF PageInv, Numbered
<1>2. /\ p.queue \in Seq(1 .. r)
      /\ Len(p.queue) = IF m <= Len(page.queue) THEN Len(page.queue) - m + 1 ELSE 0
      /\ \A i \in 1 .. Len(page.queue) - m + 1 : p.queue[i] = page.queue[m + i - 1]
  <2> DEFINE q == page.queue
             rest == SubSeq(q, m, Len(q))
  <2>1. q \in Seq(1 .. r)
    BY <1>1
  <2> HIDE DEF q
  <2>2. /\ rest \in Seq(1 .. r)
        /\ Len(rest) = IF m <= Len(q) THEN Len(q) - m + 1 ELSE 0
        /\ \A i \in 1 .. Len(q) - m + 1 : rest[i] = q[m + i - 1]
    BY <2>1, TailOf
  <2>3. p.queue = rest
    BY DEF q
  <2> HIDE DEF rest
  <2> QED BY <2>2, <2>3 DEF q
<1>3. Len(p.queue) \in Nat /\ Len(p.queue) <= Len(page.queue)
  BY <1>1, <1>2
<1>4. Numbered(p, r)
  BY <1>1, <1>2, ReleasedFacts, EmptySeq DEF Numbered
<1>5. WaiterLast(p)
  <2> SUFFICES ASSUME NEW i \in 1 .. Len(p.queue) - 1
               PROVE  p.queue[i] # p.waiting
    BY DEF WaiterLast
  <2>1. i \in 1 .. Len(p.queue) /\ p.queue[i] \in 1 .. r
    BY <1>2, <1>3, ElementOfSeq
  <2>2. CASE Released(page) = None
    BY <2>1, <2>2, NoneAssumption
  <2>3. CASE Released(page) # None
    <3>1. p.waiting = page.waiting
      BY <1>1, <2>3, ReleasedFacts
    <3>2. m + i - 1 \in 1 .. Len(page.queue) - 1 /\ i \in 1 .. Len(page.queue) - m + 1
      BY <1>1, <1>2, <1>3
    <3>3. page.queue[m + i - 1] # page.waiting
      BY <3>2 DEF PageInv, WaiterLast
    <3> QED BY <1>2, <3>1, <3>2, <3>3
  <2> QED BY <2>2, <2>3
<1>6. Room(p)
  <2>1. Elements(p.batch) = {}
    BY DEF Elements
  <2>2. Len(p.queue) <= Backlog + (IF p.waiting = None THEN 0 ELSE 1)
    BY <1>1, <1>3, ReleasedFacts, BacklogSize
  <2> QED BY <2>1, <2>2 DEF Room
<1> QED BY <1>4, <1>5, <1>6 DEF PageInv, Awake

LEMMA ResultForTyped ==
    ASSUME NEW page \in Page, page.reply # None
    PROVE  {page.waiting} \X ResultFor(page.waiting, page.batch, page.reply)
               \subseteq Error \X Error
<1>1. page.reply \in Seq(Error \cup {None}) /\ page.batch \in Seq(Error)
      /\ page.waiting \in Error \cup {None}
  BY DEF Page
<1>2. \A i \in DOMAIN page.reply : page.reply[i] \in Error \cup {None}
  BY <1>1, LenProperties, ElementOfSeq
<1>3. ResultFor(page.waiting, page.batch, page.reply) \subseteq Error
  BY <1>2 DEF ResultFor
<1>4. CASE page.waiting = None
  <2>1. \A j \in DOMAIN page.batch : page.batch[j] \in Error
    BY <1>1, LenProperties, ElementOfSeq
  <2>2. None \notin Error
    BY NoneAssumption DEF Error
  <2>3. ResultFor(page.waiting, page.batch, page.reply) = {}
    BY <1>4, <2>1, <2>2 DEF ResultFor
  <2> QED BY <2>3
<1>5. CASE page.waiting # None
  BY <1>1, <1>3, <1>5
<1> QED BY <1>4, <1>5

LEMMA AnswerStep ==
    ASSUME Inv, NEW t \in Tabs, Answer(t)
    PROVE  Inv'
<1> DEFINE page == tab[t]
           rest == Behind(page)
           p == [page EXCEPT !.queue = rest, !.batch = <<>>, !.reply = None,
                             !.timer = @ \/ rest # <<>>, !.waiting = Released(page)]
<1>1. /\ PageInv(page, raised) /\ page \in Page /\ raised \in Nat /\ raised <= MaxRaised
      /\ page.queue \in Seq(1 .. raised) /\ Len(page.batch) \in Nat
  BY PageFacts
<1>2. rest \in Seq(1 .. raised) /\ rest = SubSeq(page.queue, Len(page.batch) + 1, Len(page.queue))
  BY <1>1, TailOf DEF Behind
<1>3. Released(page) \in (1 .. raised) \cup {None}
  BY <1>1, ReleasedFacts
<1>4. /\ Becomes(t, p) /\ Stores(rest) /\ page.reply # None
      /\ told' = told \cup ({page.waiting} \X
                     ResultFor(page.waiting, page.batch, page.reply))
      /\ UNCHANGED <<wire, raised, accepted, recorded, mishaps>>
  BY DEF Answer
<1>5. Others
  <2>1. stored' \in Seq(1 .. raised) /\ Len(stored') <= MaxStored /\ unstored' \in Nat
    <3>1. raised <= raised
      BY <1>1
    <3> QED BY <1>1, <1>2, <1>4, <3>1, StoresTyped
  <2>2. told' \subseteq Error \X Error
    BY <1>1, <1>4, ResultForTyped DEF Inv, TypeOK
  <2> QED BY <1>1, <1>4, <2>1, <2>2 DEF Inv, TypeOK, Others
<1> HIDE DEF rest
<1>6. 1 .. raised \subseteq Error
  BY <1>1, BoundsAssumption DEF Error
<1>7. p \in Page
  <2>1. rest \in Seq(Error)
    BY <1>2, <1>6, SeqMonotonic
  <2>2. Released(page) \in Error \cup {None} /\ <<>> \in Seq(Error)
    BY <1>3, <1>6, EmptySeq
  <2>3. (page.timer \/ rest # <<>>) \in BOOLEAN
    BY <1>1 DEF Page
  <2> QED BY <1>1, <2>1, <2>2, <2>3 DEF Page
<1>8. /\ p.queue = rest /\ p.batch = <<>> /\ p.waiting = Released(page)
      /\ p.queue # <<>> => p.timer
  BY <1>1 DEF Page
<1> HIDE DEF p
<1>9. PageInv(p, raised)
  <2>1. raised \in 0 .. MaxRaised /\ Len(page.batch) + 1 \in Nat \ {0}
    BY <1>1, BoundsAssumption
  <2>2. p.queue = SubSeq(page.queue, Len(page.batch) + 1, Len(page.queue))
    BY <1>2, <1>8
  <2> QED BY <1>1, <1>7, <1>8, <2>1, <2>2, RequestEnds
<1> QED BY <1>4, <1>5, <1>9, StepKeepsInv

LEMMA NoAnswerStep ==
    ASSUME Inv, NEW t \in Tabs, NoAnswer(t)
    PROVE  Inv'
<1> DEFINE page == tab[t]
           p == [page EXCEPT !.batch = <<>>, !.reply = None,
                             !.timer = TRUE, !.waiting = Released(page)]
<1>1. /\ PageInv(page, raised) /\ page \in Page /\ raised \in Nat /\ raised <= MaxRaised
      /\ page.queue \in Seq(1 .. raised)
  BY PageFacts
<1>2. Released(page) \in (1 .. raised) \cup {None}
  BY <1>1, ReleasedFacts
<1>3. /\ Becomes(t, p) /\ wire' \in Abandoned(page, wire) /\ Happens("unanswered")
      /\ UNCHANGED <<stored, unstored, raised, accepted, recorded, told>>
  BY DEF NoAnswer, server, storage
<1>4. Others
  <2>1. wire' \in Seq(Seq(Error))
    BY <1>1, <1>3, AbandonedTyped DEF Inv, TypeOK
  <2>2. mishaps' \in [Mishap -> Nat]
    BY <1>3, HappensTyped DEF Inv, TypeOK, Mishap
  <2> QED BY <1>1, <1>3, <2>1, <2>2 DEF Inv, TypeOK, Others
<1>5. p \in Page
  <2>1. Released(page) \in Error \cup {None} /\ <<>> \in Seq(Error)
    BY <1>1, <1>2, EmptySeq, BoundsAssumption DEF Error
  <2> QED BY <1>1, <2>1 DEF Page
<1>6. /\ p.queue = page.queue /\ p.batch = <<>> /\ p.waiting = Released(page)
      /\ p.timer
  BY <1>1 DEF Page
<1> HIDE DEF p
<1>7. p.queue = SubSeq(page.queue, 1, Len(page.queue))
  BY <1>1, <1>6, SubSeqFull
<1>8. PageInv(p, raised)
  <2>1. raised \in 0 .. MaxRaised
    BY <1>1, BoundsAssumption
  <2>2. PageInv(page, raised) /\ 1 \in Nat \ {0}
    BY <1>1
  <2> HIDE DEF page
  <2> QED BY <1>5, <1>6, <1>7, <2>1, <2>2, RequestEnds
<1> QED BY <1>3, <1>4, <1>8, StepKeepsInv

\* A page on which nobody waits, nothing is out, and no more is queued than
\* can have been stored.
LEMMA QuietPage ==
    ASSUME NEW r \in 0 .. MaxRaised, NEW p \in Page, p.queue \in Seq(1 .. r),
           Len(p.queue) <= MaxStored, p.batch = <<>>, p.waiting = None,
           p.queue # <<>> => p.timer
    PROVE  PageInv(p, r)
<1>1. Len(p.queue) \in Nat /\ MaxStored \in Nat
  BY LenProperties, SizesAssumption
<1>2. WaiterLast(p)
  <2> SUFFICES ASSUME NEW i \in 1 .. Len(p.queue) - 1
               PROVE  p.queue[i] # None
    BY DEF WaiterLast
  <2>1. i \in 1 .. Len(p.queue)
    BY <1>1
  <2>2. p.queue[i] \in 1 .. r
    BY <2>1, ElementOfSeq
  <2> QED BY <2>2, NoneAssumption
<1>3. Room(p)
  <2>1. Elements(p.batch) = {}
    BY DEF Elements
  <2> QED BY <1>1, <2>1, BacklogSize DEF Room
<1> QED BY <1>2, <1>3, EmptySeq DEF PageInv, Numbered, Awake

LEMMA NoPageTyped == NoPage \in Page
<1>1. <<>> \in Seq(Error)
  BY EmptySeq
<1> QED BY <1>1 DEF NoPage, Page

LEMMA LoadStep ==
    ASSUME Inv, NEW t \in Tabs, Load(t)
    PROVE  Inv'
<1> DEFINE q == First(MaxQueue, stored)
           p == [NoPage EXCEPT !.up = TRUE, !.queue = q, !.timer = (q # <<>>)]
<1>1. /\ raised \in 0 .. MaxRaised /\ stored \in Seq(1 .. raised)
      /\ Len(stored) \in Nat /\ Len(stored) <= MaxStored
  BY LenProperties DEF Inv, TypeOK
<1>2. q \in Seq(1 .. raised) /\ Len(q) = Smaller(MaxQueue, Len(stored))
  BY <1>1, FirstIsPrefix, SizesAssumption
<1>3. /\ Becomes(t, p) /\ stored' = <<>>
      /\ Happens("shared") \/ UNCHANGED mishaps
      /\ UNCHANGED <<unstored, wire, raised, accepted, recorded, told>>
  BY DEF Load, server
<1>4. Len(q) <= MaxStored
  <2> HIDE DEF q
  <2> QED BY <1>1, <1>2, SizesAssumption DEF Smaller
<1> HIDE DEF q
<1>5. p \in Page
  <2>1. q \in Seq(Error)
    BY <1>1, <1>2, SeqMonotonic, BoundsAssumption DEF Error
  <2> QED BY <2>1, NoPageTyped DEF Page
<1>6. /\ p.queue = q /\ p.batch = <<>> /\ p.waiting = None
      /\ p.queue # <<>> => p.timer
  BY DEF NoPage
<1> HIDE DEF p
<1>7. PageInv(p, raised)
  BY <1>1, <1>2, <1>4, <1>5, <1>6, QuietPage
<1>8. Others
  <2>1. mishaps' \in [Mishap -> Nat]
    BY <1>3, HappensTyped DEF Inv, TypeOK, Mishap
  <2>2. stored' \in Seq(1 .. raised) /\ Len(stored') <= MaxStored
    BY <1>3, EmptySeq, SizesAssumption
  <2> QED BY <1>1, <1>3, <2>1, <2>2 DEF Inv, TypeOK, Others
<1> QED BY <1>3, <1>7, <1>8, StepKeepsInv

\* What an unload event leaves in localStorage and on the wire.
LEMMA BeaconStores ==
    ASSUME Inv, NEW t \in Tabs, UNCHANGED raised, BeaconTaken(t) \/ BeaconRefused(t)
    PROVE  stored' \in Seq(1 .. raised') /\ Len(stored') <= MaxStored /\ unstored' \in Nat
<1>1. tab[t].queue \in Seq(1 .. raised) /\ raised \in Nat /\ raised <= raised
  BY PageFacts
<1>2. CASE BeaconTaken(t)
  BY <1>1, <1>2, EmptySeq, StoresTyped DEF BeaconTaken
<1>3. CASE BeaconRefused(t)
  <2>1. CASE tab[t].queue = <<>>
    BY <1>3, <2>1 DEF BeaconRefused, Inv, TypeOK, storage
  <2>2. CASE tab[t].queue # <<>>
    BY <1>1, <1>3, <2>2, StoresTyped DEF BeaconRefused
  <2> QED BY <2>1, <2>2
<1> QED BY <1>2, <1>3

LEMMA PersistedNothing == Persisted(<<>>) = <<>>
BY SizesAssumption DEF Persisted

\* A beacon that is taken is followed by a write of the empty queue, a refused
\* one by a write of the queue; either may fail.
LEMMA BeaconWrites ==
    ASSUME Inv, NEW t \in Tabs, BeaconTaken(t) \/ BeaconRefused(t)
    PROVE  /\ unstored \in Nat /\ unstored' \in Nat /\ unstored <= unstored'
           /\ BeaconTaken(t) => \/ stored' = <<>> /\ unstored' = unstored
                                \/ stored' = stored /\ unstored' = unstored + 1
           /\ BeaconRefused(t) => stored' = stored \/ stored' = Persisted(tab[t].queue)
           /\ BeaconRefused(t) /\ tab[t].queue # <<>> /\ unstored' = unstored
                => stored' = Persisted(tab[t].queue)
<1>1. unstored \in Nat
  BY DEF Inv, TypeOK
<1>2. CASE BeaconTaken(t)
  BY <1>1, <1>2, PersistedNothing DEF BeaconTaken, BeaconRefused, Stores
<1>3. CASE BeaconRefused(t)
  BY <1>1, <1>3, PersistedNothing DEF BeaconTaken, BeaconRefused, Stores, storage
<1> QED BY <1>2, <1>3

LEMMA WireTyped ==
    ASSUME Inv, NEW t \in Tabs
    PROVE  /\ Append(wire, tab[t].queue) \in Seq(Seq(Error))
           /\ Abandoned(tab[t], wire) \subseteq Seq(Seq(Error))
           /\ Abandoned(tab[t], Append(wire, tab[t].queue)) \subseteq Seq(Seq(Error))
<1>1. tab[t] \in Page /\ wire \in Seq(Seq(Error))
  BY PageFacts DEF Inv, TypeOK
<1>2. tab[t].queue \in Seq(Error)
  BY <1>1 DEF Page
<1>3. Append(wire, tab[t].queue) \in Seq(Seq(Error))
  BY <1>1, <1>2, AppendProperties
<1> QED BY <1>1, <1>3, AbandonedTyped

LEMMA HideStep ==
    ASSUME Inv, NEW t \in Tabs, Hide(t)
    PROVE  Inv'
<1> DEFINE page == tab[t]
           p == [page EXCEPT !.queue = <<>>]
<1>1. PageInv(page, raised) /\ page \in Page /\ raised \in Nat
  BY PageFacts
<1>2. UNCHANGED <<raised, accepted, recorded, told>>
  BY DEF Hide, server
<1>3. Others
  <2>1. mishaps' \in [Mishap -> Nat]
    <3>1. Happens("hidden") \/ Happens("overtaken")
      BY DEF Hide
    <3> QED BY <3>1, HappensTyped DEF Inv, TypeOK, Mishap
  <2>2. stored' \in Seq(1 .. raised') /\ Len(stored') <= MaxStored /\ unstored' \in Nat
    BY <1>2, BeaconStores DEF Hide
  <2>3. wire' \in Seq(Seq(Error))
    BY WireTyped DEF Hide, Inv, TypeOK
  <2> QED BY <1>1, <1>2, <2>1, <2>2, <2>3 DEF Inv, TypeOK, Others
<1>4. CASE BeaconTaken(t) /\ Becomes(t, p)
  <2>1. p \in Page
    BY <1>1, EmptySeq DEF Page
  <2>2. /\ p.queue = <<>> /\ p.batch = page.batch /\ p.waiting = page.waiting
    BY <1>1 DEF Page
  <2> HIDE DEF p
  <2>3. Numbered(p, raised) /\ WaiterLast(p) /\ Room(p) /\ Awake(p)
    <3>1. Len(p.queue) = 0
      BY <2>2, EmptySeq
    <3> QED BY <1>1, <2>2, <3>1, EmptySeq, BacklogSize
            DEF PageInv, Numbered, WaiterLast, Room, Awake
  <2> QED BY <1>2, <1>3, <1>4, <2>1, <2>3, StepKeepsInv DEF PageInv
<1>5. CASE BeaconRefused(t) /\ UNCHANGED tab
  BY <1>3, <1>5, PagesKept
<1> QED BY <1>4, <1>5 DEF Hide

LEMMA PageEndsStep ==
    ASSUME Inv, NEW t \in Tabs, Close(t) \/ Crash(t)
    PROVE  Inv'
<1>1. /\ Becomes(t, NoPage) /\ UNCHANGED <<raised, accepted, recorded, told>>
      /\ Happens("closed") \/ Happens("crashed")
  BY DEF Close, Crash, server
<1>2. raised \in 0 .. MaxRaised
  BY DEF Inv, TypeOK
<1>3. stored' \in Seq(1 .. raised') /\ Len(stored') <= MaxStored /\ unstored' \in Nat
  <2>1. CASE Close(t)
    BY <1>1, <2>1, BeaconStores DEF Close
  <2>2. CASE Crash(t)
    BY <1>1, <2>2 DEF Crash, Inv, TypeOK, storage
  <2> QED BY <2>1, <2>2
<1>4. wire' \in Seq(Seq(Error))
  BY WireTyped DEF Close, Crash
<1>5. mishaps' \in [Mishap -> Nat]
  BY <1>1, HappensTyped DEF Inv, TypeOK, Mishap
<1>6. Others
  BY <1>1, <1>2, <1>3, <1>4, <1>5, BoundsAssumption DEF Inv, TypeOK, Others
<1>7. PageInv(NoPage, raised)
  <2>1. /\ NoPage.queue = <<>> /\ NoPage.batch = <<>> /\ NoPage.waiting = None
    BY DEF NoPage
  <2>2. Len(NoPage.queue) <= MaxStored
    BY <2>1, EmptySeq, SizesAssumption
  <2> QED BY <1>2, <2>1, <2>2, EmptySeq, NoPageTyped, QuietPage
<1> QED BY <1>1, <1>6, <1>7, StepKeepsInv

LEMMA WireStep ==
    ASSUME Inv, ServeWire \/ LoseWire
    PROVE  Inv'
<1>1. PICK i \in DOMAIN wire :
          /\ wire' = RemoveAt(wire, i)
          /\ UNCHANGED <<tab, stored, unstored>>
          /\ \E n, ok : Record(wire[i], n, ok)
          /\ Happens("lost") \/ UNCHANGED mishaps
  BY DEF ServeWire, LoseWire, storage
<1>2. wire' \in Seq(Seq(Error))
  BY <1>1, RemoveAtTyped DEF Inv, TypeOK
<1>3. recorded' \in [Error -> Nat] /\ UNCHANGED <<raised, accepted, told>>
  BY <1>1, RecordTyped DEF Inv, TypeOK, Record
<1>4. mishaps' \in [Mishap -> Nat]
  BY <1>1, HappensTyped DEF Inv, TypeOK, Mishap
<1>5. Others
  BY <1>1, <1>2, <1>3, <1>4, BoundsAssumption DEF Inv, TypeOK, Others
<1> QED BY <1>1, <1>5, PagesKept

----------------------------------------------------------------------------

LEMMA InvInit == Init => Inv
<1> SUFFICES ASSUME Init PROVE Inv
  OBVIOUS
<1>1. raised = 0 /\ raised \in 0 .. MaxRaised /\ stored = <<>> /\ wire = <<>>
  BY BoundsAssumption DEF Init
<1>2. stored \in Seq(1 .. raised) /\ stored \in Seq(Error) /\ Len(stored) <= MaxStored
      /\ wire \in Seq(Seq(Error))
  BY <1>1, EmptySeq, SizesAssumption
<1>3. PageInv(NoPage, raised)
  <2>1. /\ NoPage.queue = <<>> /\ NoPage.batch = <<>> /\ NoPage.waiting = None
    BY DEF NoPage
  <2>2. Len(NoPage.queue) <= MaxStored
    BY <2>1, EmptySeq, SizesAssumption
  <2> QED BY <1>1, <2>1, <2>2, EmptySeq, NoPageTyped, QuietPage
<1>4. \A t \in Tabs : tab[t] = NoPage
  BY DEF Init
<1>5. TypeOK
  BY <1>1, <1>2, NoPageTyped DEF Init, TypeOK
<1> QED BY <1>2, <1>3, <1>4, <1>5 DEF Inv

LEMMA InvStep == Inv /\ [Next]_vars => Inv'
<1> SUFFICES ASSUME Inv, [Next]_vars PROVE Inv'
  OBVIOUS
<1>1. ASSUME NEW t \in Tabs, Report(t) PROVE Inv'
  BY <1>1, ReportStep
<1>2. ASSUME NEW t \in Tabs, ReportIgnored(t) PROVE Inv'
  BY <1>2, ReportIgnoredStep
<1>3. ASSUME NEW t \in Tabs, TimerFires(t) PROVE Inv'
  BY <1>3, TimerFiresStep
<1>4. ASSUME NEW t \in Tabs, Serve(t) \/ ServeInPart(t) PROVE Inv'
  BY <1>4, ServeStep
<1>5. ASSUME NEW t \in Tabs, Answer(t) PROVE Inv'
  BY <1>5, AnswerStep
<1>6. ASSUME NEW t \in Tabs, NoAnswer(t) PROVE Inv'
  BY <1>6, NoAnswerStep
<1>7. ASSUME NEW t \in Tabs, Load(t) PROVE Inv'
  BY <1>7, LoadStep
<1>8. ASSUME NEW t \in Tabs, Hide(t) PROVE Inv'
  BY <1>8, HideStep
<1>9. ASSUME NEW t \in Tabs, Close(t) \/ Crash(t) PROVE Inv'
  BY <1>9, PageEndsStep
<1>10. CASE ServeWire \/ LoseWire
  BY <1>10, WireStep
<1>11. CASE UNCHANGED vars
  BY <1>11 DEF vars, Inv, TypeOK, PageInv, Numbered, WaiterLast, Room, Awake
<1> QED BY <1>1, <1>2, <1>3, <1>4, <1>5, <1>6, <1>7, <1>8, <1>9, <1>10, <1>11 DEF Next

(* The invariant: types, numbers in the order of raising, the waiting      *)
(* report's entry last, room for one more, and a timer for what is queued. *)
THEOREM Invariance == Spec => []Inv
<1>1. Init => Inv
  BY InvInit
<1>2. Inv /\ [Next]_vars => Inv'
  BY InvStep
<1> QED BY <1>1, <1>2, PTL DEF Spec

(* Every variable of the transport stays in its domain.                    *)
THEOREM TransportTyped == Spec => []TypeOK
<1>1. Inv => TypeOK
  BY DEF Inv
<1> QED BY <1>1, Invariance, PTL

(* However long the server is away, a page's queue never holds more than   *)
(* one entry above what is stored or sent at once: with the sizes of the   *)
(* default configuration enqueue (72-78) drops nothing.                    *)
THEOREM BacklogStaysSmall == Spec => []BacklogBounded
<1>1. Inv => BacklogBounded
  <2> SUFFICES ASSUME Inv, NEW t \in Tabs
               PROVE  Len(tab[t].queue) <= Backlog + 1
    BY DEF BacklogBounded, Backlog
  <2>1. PageInv(tab[t], raised) /\ Len(tab[t].queue) \in Nat
    BY PageFacts
  <2> QED BY <2>1, BacklogSize DEF PageInv, Room
<1> QED BY <1>1, Invariance, PTL

(* Whatever is queued has a timer, or a request whose end sets one.        *)
THEOREM QueueAwake == Spec => []NeverStalls
<1>1. Inv => NeverStalls
  BY DEF Inv, PageInv, Awake, NeverStalls
<1> QED BY <1>1, Invariance, PTL

----------------------------------------------------------------------------
(* Reference numbers.                                                      *)

(* What came back for a place of the batch is the number of the error sent *)
(* in that place, and the server has recorded it.                          *)
Honest(p, rec) ==
    p.reply # None =>
        /\ p.batch # <<>>
        /\ \A i \in DOMAIN p.reply \cap DOMAIN p.batch :
              p.reply[i] # None => p.reply[i] = p.batch[i] /\ rec[p.batch[i]] > 0

HonestInv == OwnReference /\ \A t \in Tabs : Honest(tab[t], recorded)

Grows == \A e \in Error : recorded[e] \in Nat /\ recorded'[e] \in Nat
                            /\ recorded[e] <= recorded'[e]

LEMMA RecordGrows ==
    ASSUME Inv, NEW body, NEW n, NEW ok, Record(body, n, ok)
    PROVE  Grows /\ \A e \in RecordedOf(body, n, ok) \cap Error : recorded'[e] > 0
<1>1. /\ recorded \in [Error -> Nat]
      /\ \A e \in Error :
            recorded'[e] = recorded[e] + (IF e \in RecordedOf(body, n, ok) THEN 1 ELSE 0)
  BY DEF Record, Inv, TypeOK
<1> QED BY <1>1 DEF Grows

(* A page that keeps its request, or has no answer, stays honest.          *)
LEMMA HonestKept ==
    ASSUME NEW p \in Page, Honest(p, recorded), Grows, NEW q,
           q.reply = None \/ (q.reply = p.reply /\ q.batch = p.batch)
    PROVE  Honest(q, recorded')
<1> SUFFICES ASSUME q.reply # None
             PROVE  Honest(q, recorded')
  BY DEF Honest
<1>1. q.reply = p.reply /\ q.batch = p.batch /\ p.batch \in Seq(Error)
  BY DEF Page
<1>2. \A i \in DOMAIN p.batch : p.batch[i] \in Error
  BY <1>1, ElementOfSeq, LenProperties
<1> QED BY <1>1, <1>2 DEF Honest, Grows

(* One page changes.                                                       *)
LEMMA HonestStep ==
    ASSUME Inv, HonestInv, Grows, told' = told, NEW t \in Tabs, NEW page,
           Becomes(t, page), Honest(page, recorded')
    PROVE  HonestInv'
<1>1. tab \in [Tabs -> Page] /\ tab' = [tab EXCEPT ![t] = page]
  BY DEF Inv, TypeOK, Becomes
<1>2. \A u \in Tabs : Honest(tab'[u], recorded')
  <2> TAKE u \in Tabs
  <2>1. CASE u = t
    BY <1>1, <2>1
  <2>2. CASE u # t
    BY <1>1, <2>2, HonestKept DEF HonestInv
  <2> QED BY <2>1, <2>2
<1>3. OwnReference'
  BY DEF HonestInv, OwnReference, Grows
<1> QED BY <1>2, <1>3 DEF HonestInv

LEMMA HonestServe ==
    ASSUME Inv, HonestInv, NEW t \in Tabs, Serve(t) \/ ServeInPart(t)
    PROVE  HonestInv'
<1> DEFINE body == tab[t].batch
<1>1. /\ tab[t] \in Page /\ body \in Seq(Error) /\ body # <<>>
      /\ \A i \in DOMAIN body : body[i] \in Error
  <2>1. tab[t] \in Page
    BY DEF Inv, TypeOK
  <2>2. body \in Seq(Error)
    BY <2>1 DEF Page
  <2>3. body # <<>>
    BY DEF Serve, ServeInPart, Asked
  <2> HIDE DEF body
  <2>4. \A i \in DOMAIN body : body[i] \in Error
    BY <2>2, ElementOfSeq, LenProperties
  <2> QED BY <2>1, <2>2, <2>3, <2>4
<1>2. InFull(body) \in 0 .. Len(body)
  BY <1>1, LenProperties, SizesAssumption DEF InFull, Smaller
<1>3. PICK n \in 0 .. InFull(body), ok \in SUBSET Nat :
          /\ Record(body, n, ok)
          /\ Becomes(t, [tab[t] EXCEPT !.reply = Results(body, n, ok)])
  BY <1>2 DEF Serve, ServeInPart
<1> DEFINE page == [tab[t] EXCEPT !.reply = Results(body, n, ok)]
<1>4. Grows /\ \A e \in RecordedOf(body, n, ok) \cap Error : recorded'[e] > 0
  BY <1>3, RecordGrows
<1>5. page.reply = Results(body, n, ok) /\ page.batch = body
  BY <1>1 DEF Page
<1> HIDE DEF page, body
<1>6. Honest(page, recorded')
  <2> SUFFICES ASSUME NEW i \in DOMAIN Results(body, n, ok) \cap DOMAIN body,
                      Results(body, n, ok)[i] # None
               PROVE  Results(body, n, ok)[i] = body[i] /\ recorded'[body[i]] > 0
    BY <1>1, <1>5 DEF Honest
  <2>1. i \in ok \cap 1 .. n /\ Results(body, n, ok)[i] = body[i]
    BY DEF Results
  <2>2. body[i] \in RecordedOf(body, n, ok) \cap Error
    BY <1>1, <2>1 DEF RecordedOf
  <2> QED BY <1>4, <2>1, <2>2
<1>7. told' = told
  BY <1>3 DEF Record
<1> QED BY <1>3, <1>4, <1>6, <1>7, HonestStep DEF page

LEMMA HonestAnswer ==
    ASSUME Inv, HonestInv, NEW t \in Tabs, Answer(t)
    PROVE  HonestInv'
<1> DEFINE page == tab[t]
           given == {page.waiting} \X ResultFor(page.waiting, page.batch, page.reply)
<1>1. page \in Page /\ Honest(page, recorded) /\ tab \in [Tabs -> Page]
  BY DEF Inv, TypeOK, HonestInv
<1>2. told' = told \cup given /\ recorded' = recorded /\ page.reply # None
  BY DEF Answer
<1>3. PICK rest, timer, waiting :
          Becomes(t, [page EXCEPT !.queue = rest, !.batch = <<>>, !.reply = None,
                                  !.timer = timer, !.waiting = waiting])
  BY DEF Answer
<1>4. \A u \in Tabs : Honest(tab'[u], recorded')
  BY <1>1, <1>2, <1>3 DEF Becomes, Honest, HonestInv, Page
<1>5. ASSUME NEW e \in Error, NEW ref \in Error, <<e, ref>> \in given
      PROVE  ref = e /\ recorded[e] > 0
  <2>1. e = page.waiting /\ ref \in ResultFor(e, page.batch, page.reply)
    BY <1>5
  <2>2. PICK i \in DOMAIN page.batch \cap DOMAIN page.reply :
            page.batch[i] = e /\ ref = page.reply[i] /\ page.reply[i] # None
    BY <2>1 DEF ResultFor
  <2> QED BY <1>1, <1>2, <2>2 DEF Honest
<1> HIDE DEF given
<1>6. OwnReference'
  BY <1>2, <1>5 DEF HonestInv, OwnReference
<1> QED BY <1>4, <1>6 DEF HonestInv

(* The other callbacks of a page leave its request alone, or end it.       *)
LEMMA HonestCallback ==
    ASSUME Inv, HonestInv, NEW t \in Tabs,
           \/ Report(t) \/ ReportIgnored(t) \/ TimerFires(t) \/ NoAnswer(t)
           \/ Load(t) \/ Hide(t) \/ Close(t) \/ Crash(t)
    PROVE  HonestInv'
<1>1. tab[t] \in Page /\ Honest(tab[t], recorded) /\ recorded \in [Error -> Nat]
      /\ tab \in [Tabs -> Page]
  BY DEF Inv, TypeOK, HonestInv
<1>2. told' = told /\ recorded' = recorded
  BY DEF Report, ReportIgnored, TimerFires, NoAnswer, Load, Hide, Close, Crash, server
<1>3. Grows
  BY <1>1, <1>2 DEF Grows
<1>4. PICK q : Becomes(t, q)
               /\ (q.reply = None \/ (q.reply = tab[t].reply /\ q.batch = tab[t].batch))
  <2>1. CASE Report(t)
    <3> DEFINE q == [tab[t] EXCEPT
                !.queue = Enqueued(tab[t].queue, raised + 1), !.waiting = raised + 1,
                !.timer = TRUE]
    <3>1. q.reply = tab[t].reply /\ q.batch = tab[t].batch
      BY <1>1 DEF Page
    <3>2. Becomes(t, q)
      BY <2>1 DEF Report
    <3> QED BY <3>1, <3>2
  <2>2. CASE ReportIgnored(t) \/ UNCHANGED tab
    <3>1. tab' = tab
      BY <2>2 DEF ReportIgnored
    <3>2. Becomes(t, tab[t])
      BY <1>1, <3>1 DEF Becomes
    <3> QED BY <3>2
  <2>3. CASE TimerFires(t)
    <3>1. tab[t].reply # None => tab[t].batch # <<>>
      BY <1>1 DEF Honest
    <3> DEFINE q == [tab[t] EXCEPT !.timer = FALSE,
                        !.batch = IF @ # <<>> THEN @ ELSE First(BatchSize, tab[t].queue)]
    <3>2. q.reply = tab[t].reply /\ (tab[t].batch # <<>> => q.batch = tab[t].batch)
      BY <1>1 DEF Page
    <3>3. Becomes(t, q)
      BY <2>3 DEF TimerFires
    <3> QED BY <3>1, <3>2, <3>3
  <2>4. CASE NoAnswer(t)
    <3> DEFINE q == [tab[t] EXCEPT !.batch = <<>>, !.reply = None,
                                   !.timer = TRUE, !.waiting = Released(tab[t])]
    <3>1. q.reply = None
      BY <1>1 DEF Page
    <3>2. Becomes(t, q)
      BY <2>4 DEF NoAnswer
    <3> QED BY <3>1, <3>2
  <2>5. CASE Load(t)
    <3> DEFINE q == [NoPage EXCEPT !.up = TRUE, !.queue = First(MaxQueue, stored),
                                   !.timer = (First(MaxQueue, stored) # <<>>)]
    <3>1. q.reply = None
      BY DEF NoPage
    <3>2. Becomes(t, q)
      BY <2>5 DEF Load
    <3> QED BY <3>1, <3>2
  <2>6. CASE Hide(t)
    <3>1. CASE UNCHANGED tab
      BY <2>2, <3>1
    <3>2. CASE Becomes(t, [tab[t] EXCEPT !.queue = <<>>])
      <4> DEFINE q == [tab[t] EXCEPT !.queue = <<>>]
      <4>1. q.reply = tab[t].reply /\ q.batch = tab[t].batch
        BY <1>1 DEF Page
      <4> QED BY <3>2, <4>1
    <3> QED BY <2>6, <3>1, <3>2 DEF Hide
  <2>7. CASE Close(t) \/ Crash(t)
    BY <2>7 DEF Close, Crash, NoPage
  <2> QED BY <2>1, <2>2, <2>3, <2>4, <2>5, <2>6, <2>7
<1>5. Honest(q, recorded')
  BY <1>1, <1>3, <1>4, HonestKept
<1> QED BY <1>2, <1>3, <1>4, <1>5, HonestStep

LEMMA HonestWire ==
    ASSUME Inv, HonestInv, ServeWire \/ LoseWire
    PROVE  HonestInv'
<1>1. PICK body, n, ok : Record(body, n, ok)
  BY DEF ServeWire, LoseWire
<1>2. Grows /\ UNCHANGED <<tab, told>>
  BY <1>1, RecordGrows DEF ServeWire, LoseWire, Record
<1>3. \A t \in Tabs : Honest(tab'[t], recorded')
  BY <1>2, HonestKept DEF HonestInv, Inv, TypeOK
<1>4. OwnReference'
  BY <1>2 DEF HonestInv, OwnReference, Grows
<1> QED BY <1>3, <1>4 DEF HonestInv

LEMMA HonestInit == Init => HonestInv
BY DEF Init, HonestInv, Honest, OwnReference, NoPage

LEMMA HonestNext == Inv /\ HonestInv /\ [Next]_vars => HonestInv'
<1> SUFFICES ASSUME Inv, HonestInv, [Next]_vars PROVE HonestInv'
  OBVIOUS
<1>1. CASE UNCHANGED vars
  BY <1>1 DEF vars, HonestInv, Honest, OwnReference
<1>2. CASE Next
  BY <1>2, HonestServe, HonestAnswer, HonestCallback, HonestWire DEF Next
<1> QED BY <1>1, <1>2

(* The invariant behind it: what came back for a place of the batch is the *)
(* number of the error sent in that place.                                 *)
THEOREM HonestInvariance == Spec => []HonestInv
<1>1. Init => HonestInv
  BY HonestInit
<1>2. Inv /\ HonestInv /\ [Next]_vars => HonestInv'
  BY HonestNext
<1> QED BY <1>1, <1>2, Invariance, PTL DEF Spec

(* The reference number that report returns is the one of its own error,   *)
(* though results are matched by their position after the endpoint dropped *)
(* throttled entries and failed on others.                                 *)
THEOREM NobodyElsesReference == Spec => []OwnReference
<1>1. HonestInv => OwnReference
  BY DEF HonestInv
<1> QED BY <1>1, HonestInvariance, PTL

----------------------------------------------------------------------------
(* Runs: sequences of accepted errors without repetition.                  *)

Bit(b) == IF b THEN 1 ELSE 0

Once(q) == \A i, j \in 1 .. Len(q) : q[i] = q[j] => i = j
RunOf(q, S) == Elements(q) \subseteq S /\ Once(q)

LEMMA NoRun == ASSUME NEW S PROVE RunOf(<<>>, S)
<1>1. Len(<<>>) = 0 /\ DOMAIN <<>> = {}
  OBVIOUS
<1> QED BY <1>1 DEF RunOf, Elements, Once

LEMMA FirstOfRun ==
    ASSUME NEW S, NEW q \in Seq(S), NEW n \in Nat, NEW T, RunOf(q, T)
    PROVE  /\ RunOf(First(n, q), T) /\ Elements(First(n, q)) \subseteq Elements(q)
           /\ \A j \in 1 .. Len(q) : q[j] \in Elements(First(n, q)) => j <= Len(First(n, q))
           /\ Len(q) <= n => Elements(First(n, q)) = Elements(q)
<1>1. /\ First(n, q) \in Seq(S) /\ Len(First(n, q)) = Smaller(n, Len(q))
      /\ \A i \in 1 .. Len(First(n, q)) : First(n, q)[i] = q[i]
  BY FirstIsPrefix
<1> DEFINE p == First(n, q)
<1> HIDE DEF p
<1>2. Len(q) \in Nat /\ Len(p) \in Nat /\ Len(p) <= Len(q) /\ (Len(q) <= n => Len(p) = Len(q))
  BY <1>1, LenProperties DEF Smaller, p
<1>3. Elements(p) = {p[i] : i \in 1 .. Len(p)} /\ Elements(q) = {q[i] : i \in 1 .. Len(q)}
  BY <1>1, ElementsOf DEF p
<1>4. \A i \in 1 .. Len(p) : i \in 1 .. Len(q) /\ p[i] = q[i]
  BY <1>1, <1>2 DEF p
<1>5. Elements(p) \subseteq Elements(q)
  BY <1>3, <1>4
<1>6. Once(p) /\ Elements(p) \subseteq T
  BY <1>4, <1>5 DEF RunOf, Once
<1>7. ASSUME NEW j \in 1 .. Len(q), q[j] \in Elements(p) PROVE j <= Len(p)
  <2>1. PICK i \in 1 .. Len(p) : q[j] = p[i]
    BY <1>3, <1>7
  <2>2. i = j
    BY <1>4, <2>1 DEF RunOf, Once
  <2> QED BY <1>2, <2>1, <2>2
<1>8. Len(q) <= n => Elements(p) = Elements(q)
  BY <1>2, <1>3, <1>4
<1> QED BY <1>5, <1>6, <1>7, <1>8 DEF p, RunOf

LEMMA RestOfRun ==
    ASSUME NEW S, NEW q \in Seq(S), NEW m \in Nat \ {0}, NEW T, RunOf(q, T)
    PROVE  LET p == SubSeq(q, m, Len(q)) IN
           /\ RunOf(p, T) /\ Elements(p) \subseteq Elements(q)
           /\ \A e \in Elements(p) : \E j \in m .. Len(q) : q[j] = e
           /\ \A j \in m .. Len(q) : q[j] \in Elements(p)
<1> DEFINE p == SubSeq(q, m, Len(q))
<1>1. /\ p \in Seq(S)
      /\ Len(p) = IF m <= Len(q) THEN Len(q) - m + 1 ELSE 0
      /\ \A i \in 1 .. Len(q) - m + 1 : p[i] = q[m + i - 1]
  BY TailOf
<1> HIDE DEF p
<1>2. Len(q) \in Nat /\ Len(p) \in Nat
  BY <1>1, LenProperties
<1>3. Elements(p) = {p[i] : i \in 1 .. Len(p)} /\ Elements(q) = {q[i] : i \in 1 .. Len(q)}
  BY <1>1, ElementsOf
<1>4. ASSUME NEW i \in 1 .. Len(p)
      PROVE  m + i - 1 \in m .. Len(q) /\ m + i - 1 \in 1 .. Len(q) /\ p[i] = q[m + i - 1]
  <2>1. i \in 1 .. Len(q) - m + 1
    BY <1>1, <1>2
  <2> QED BY <1>1, <1>2, <2>1
<1>5. \A e \in Elements(p) : \E j \in m .. Len(q) : q[j] = e
  BY <1>3, <1>4
<1>6. Elements(p) \subseteq Elements(q)
  BY <1>3, <1>4
<1>7. ASSUME NEW i \in 1 .. Len(p), NEW j \in 1 .. Len(p), p[i] = p[j] PROVE i = j
  <2>1. m + i - 1 = m + j - 1
    BY <1>4, <1>7 DEF RunOf, Once
  <2> QED BY <1>2, <2>1
<1>8. ASSUME NEW j \in m .. Len(q) PROVE q[j] \in Elements(p)
  <2>1. j - m + 1 \in 1 .. Len(q) - m + 1 /\ j - m + 1 \in 1 .. Len(p) /\ m + (j - m + 1) - 1 = j
    BY <1>1, <1>2
  <2>2. p[j - m + 1] = q[j]
    BY <1>1, <2>1
  <2> QED BY <1>3, <2>1, <2>2
<1>9. RunOf(p, T)
  BY <1>6, <1>7 DEF RunOf, Once
<1> QED BY <1>5, <1>6, <1>8, <1>9 DEF p

LEMMA PersistedRun ==
    ASSUME NEW S, NEW q \in Seq(S), NEW T, RunOf(q, T)
    PROVE  RunOf(Persisted(q), T) /\ (Len(q) <= MaxStored => Elements(Persisted(q)) = Elements(q))
<1> DEFINE m == IF Len(q) <= MaxStored THEN 1 ELSE Len(q) - MaxStored + 1
<1>1. Len(q) \in Nat /\ m \in Nat \ {0}
  BY LenProperties, SizesAssumption
<1>2. Persisted(q) = SubSeq(q, m, Len(q))
  BY DEF Persisted
<1>3. Len(q) <= MaxStored => m = 1
  OBVIOUS
<1> HIDE DEF m
<1>4. /\ RunOf(Persisted(q), T) /\ Elements(Persisted(q)) \subseteq Elements(q)
      /\ \A j \in m .. Len(q) : q[j] \in Elements(Persisted(q))
  BY <1>1, <1>2, RestOfRun
<1>5. Elements(q) = {q[i] : i \in 1 .. Len(q)}
  BY ElementsOf
<1> QED BY <1>3, <1>4, <1>5

LEMMA EnqueuedRun ==
    ASSUME NEW r \in Nat, NEW q \in Seq(1 .. r), NEW T, RunOf(q, T)
    PROVE  LET p == Enqueued(q, r + 1) IN
           /\ RunOf(p, T \cup {r + 1}) /\ Elements(p) \subseteq Elements(q) \cup {r + 1}
           /\ r + 1 \in Elements(p)
           /\ \A j \in 1 .. Len(p) : p[j] = r + 1 \/ \E k \in 1 .. Len(q) : k >= j /\ p[j] = q[k]
           /\ Len(q) < MaxQueue => /\ Len(q) < Len(p) /\ \A j \in 1 .. Len(q) : p[j] = q[j]
                                   /\ Elements(q) \subseteq Elements(p)
<1> DEFINE kept == IF Len(q) >= MaxQueue THEN Tail(q) ELSE q
           p == Enqueued(q, r + 1)
<1>1. Len(q) \in Nat /\ MaxQueue \in Nat \ {0}
  BY LenProperties, SizesAssumption
<1>2. /\ kept \in Seq(1 .. r) /\ Len(kept) <= Len(q)
      /\ \A j \in 1 .. Len(kept) : \E k \in 1 .. Len(q) : k >= j /\ kept[j] = q[k]
      /\ Once(kept) /\ (Len(q) < MaxQueue => kept = q)
  <2>1. CASE Len(q) >= MaxQueue
    <3>1. q # <<>>
      BY <1>1, <2>1, EmptySeq
    <3>2. kept \in Seq(1 .. r) /\ Len(kept) = Len(q) - 1 /\ \A j \in 1 .. Len(kept) : kept[j] = q[j + 1]
      BY <1>1, <2>1, <3>1, HeadTailProperties
    <3> HIDE DEF kept
    <3>3. \A j \in 1 .. Len(kept) : j + 1 \in 1 .. Len(q) /\ j + 1 >= j
      BY <1>1, <3>2
    <3>4. Once(kept)
      <4> SUFFICES ASSUME NEW i \in 1 .. Len(kept), NEW j \in 1 .. Len(kept), kept[i] = kept[j]
                   PROVE  i = j
        BY DEF Once
      <4>1. /\ i + 1 \in 1 .. Len(q) /\ j + 1 \in 1 .. Len(q)
            /\ q[i + 1] = q[j + 1]
        BY <3>2, <3>3
      <4>2. i + 1 = j + 1
        BY <4>1 DEF RunOf, Once
      <4>3. i \in Int /\ j \in Int
        OBVIOUS
      <4> QED BY <4>2, <4>3
    <3>5. Len(kept) <= Len(q)
      BY <1>1, <3>2
    <3>6. \A j \in 1 .. Len(kept) : \E k \in 1 .. Len(q) : k >= j /\ kept[j] = q[k]
      BY <3>2, <3>3
    <3>7. Len(q) < MaxQueue => kept = q
      BY <1>1, <2>1
    <3> QED BY <3>2, <3>4, <3>5, <3>6, <3>7
  <2>2. CASE ~(Len(q) >= MaxQueue)
    <3>1. kept = q
      BY <2>2
    <3> HIDE DEF kept
    <3> QED BY <1>1, <3>1 DEF RunOf
  <2> QED BY <2>1, <2>2
<1>3. p = Append(kept, r + 1)
  BY DEF Enqueued
<1> HIDE DEF kept, p
<1>4. kept \in Seq(1 .. r + 1) /\ Len(kept) \in Nat
  BY <1>2, SeqMonotonic, LenProperties
<1>5. /\ p \in Seq(1 .. r + 1) /\ Len(p) = Len(kept) + 1 /\ p[Len(kept) + 1] = r + 1
      /\ \A i \in 1 .. Len(kept) : p[i] = kept[i]
  BY <1>3, <1>4, AppendProperties
<1>6. \A j \in 1 .. Len(kept) : kept[j] # r + 1
  BY <1>2, ElementOfSeq
<1>7. \A j \in 1 .. Len(p) : j \in 1 .. Len(kept) \/ j = Len(kept) + 1
  BY <1>4, <1>5
<1>8. \A j \in 1 .. Len(p) : p[j] = r + 1 \/ \E k \in 1 .. Len(q) : k >= j /\ p[j] = q[k]
  BY <1>2, <1>5, <1>7
<1>9. Once(p)
  <2> SUFFICES ASSUME NEW i \in 1 .. Len(p), NEW j \in 1 .. Len(p), p[i] = p[j] PROVE i = j
    BY DEF Once
  <2>1. CASE i \in 1 .. Len(kept) /\ j \in 1 .. Len(kept)
    BY <1>2, <1>5, <2>1 DEF Once
  <2>2. CASE i = Len(kept) + 1 /\ j = Len(kept) + 1
    BY <2>2
  <2>3. CASE (i \in 1 .. Len(kept)) # (j \in 1 .. Len(kept))
    BY <1>5, <1>6, <1>7, <2>3
  <2> QED BY <1>7, <2>1, <2>2, <2>3
<1>10. Elements(p) = {p[i] : i \in 1 .. Len(p)} /\ Elements(q) = {q[i] : i \in 1 .. Len(q)}
  BY <1>5, ElementsOf
<1>11. Elements(p) \subseteq Elements(q) \cup {r + 1}
  BY <1>8, <1>10
<1>12. r + 1 \in Elements(p)
  BY <1>4, <1>5, <1>10
<1>13. Len(q) < MaxQueue => /\ Len(q) < Len(p) /\ \A j \in 1 .. Len(q) : p[j] = q[j]
                            /\ Elements(q) \subseteq Elements(p)
  <2> SUFFICES ASSUME Len(q) < MaxQueue
               PROVE  /\ Len(q) < Len(p) /\ \A j \in 1 .. Len(q) : p[j] = q[j]
                      /\ Elements(q) \subseteq Elements(p)
    OBVIOUS
  <2>1. kept = q /\ Len(q) < Len(p) /\ \A j \in 1 .. Len(q) : p[j] = q[j] /\ j \in 1 .. Len(p)
    BY <1>1, <1>2, <1>4, <1>5
  <2> QED BY <1>10, <2>1
<1>14. RunOf(p, T \cup {r + 1})
  BY <1>9, <1>11 DEF RunOf
<1> QED BY <1>8, <1>11, <1>12, <1>13, <1>14 DEF p

LEMMA RunLength ==
    ASSUME NEW S, NEW q \in Seq(S), NEW T, IsFiniteSet(T), RunOf(q, T)
    PROVE  Len(q) \in Nat /\ Cardinality(T) \in Nat /\ Len(q) <= Cardinality(T)
<1> DEFINE f == [i \in 1 .. Len(q) |-> q[i]]
<1>1. Len(q) \in Nat /\ Elements(q) = {q[i] : i \in 1 .. Len(q)}
  BY LenProperties, ElementsOf
<1>2. f \in Injection(1 .. Len(q), T)
  <2>1. f \in [1 .. Len(q) -> T]
    BY <1>1 DEF RunOf
  <2>2. \A i, j \in 1 .. Len(q) : f[i] = f[j] => i = j
    BY DEF RunOf, Once
  <2> HIDE DEF f
  <2>3. IsInjective(f)
    BY <2>1, <2>2 DEF IsInjective
  <2> QED BY <2>1, <2>3 DEF Injection
<1>3. Cardinality(1 .. Len(q)) = Len(q)
  <2> DEFINE n == Len(q)
  <2>1. n \in Nat /\ 1 \in Int /\ n \in Int
    BY <1>1
  <2> HIDE DEF n
  <2>2. Cardinality(1 .. n) = IF 1 > n THEN 0 ELSE n - 1 + 1
    BY <2>1, FS_Interval
  <2>3. Cardinality(1 .. n) = n
    BY <2>1, <2>2
  <2> QED BY <2>3 DEF n
<1>4. Cardinality(1 .. Len(q)) <= Cardinality(T) /\ Cardinality(T) \in Nat
  BY <1>2, FS_Injection, FS_CardinalityType
<1> QED BY <1>1, <1>3, <1>4

----------------------------------------------------------------------------
(* How many copies of an error there can be: each is recorded, or in one   *)
(* of the places that Tally counts, and moves between them one at a time.  *)

(* Where the copies of an error are that may yet be recorded: a page that has to send *)
(* it or waits for an answer about it, a request nobody waits for, and the stored     *)
(* queue once no page is up.                                                          *)
Holds(p, e) == IF e \in Elements(p.batch) THEN p.reply = None ELSE e \in Elements(p.queue)
Holders(e) == {t \in Tabs : Holds(tab[t], e)}
Carriers(w, e) == {i \in 1 .. Len(w) : e \in Elements(w[i])}
NobodyUp == \A t \in Tabs : ~tab[t].up
Rests(e) == NobodyUp /\ e \in Elements(stored)

Blame ==
    mishaps["unanswered"] + mishaps["overtaken"] + mishaps["closed"] + mishaps["crashed"]
        + mishaps["shared"]
Faults == Blame + unstored

Tally(e) ==
    recorded[e] + Cardinality(Holders(e)) + Cardinality(Carriers(wire, e)) + Bit(Rests(e))

Counted == \A e \in Error : Tally(e) <= 1 + Faults

\* Entries are accepted errors, each at most once in a queue, a request or the
\* stored copy; what lies behind the length of the batch was not sent with it.
WireRuns(w, S) == \A i \in 1 .. Len(w) : RunOf(w[i], S)
Runs ==
    /\ RunOf(stored, accepted) /\ WireRuns(wire, accepted)
    /\ \A e \in Error : recorded[e] > 0 => e \in accepted

Shape(p, S) ==
    /\ RunOf(p.queue, S) /\ RunOf(p.batch, S)
    /\ ~p.up => p = NoPage
    /\ \A j \in 1 .. Len(p.queue) : p.queue[j] \in Elements(p.batch) => j <= Len(p.batch)

CopyInv == Runs /\ Counted /\ \A t \in Tabs : Shape(tab[t], accepted)

LEMMA BitOf == \A b \in BOOLEAN : Bit(b) \in {0, 1} /\ (b <=> Bit(b) = 1)
  BY DEF Bit

\* One page more or less has the error to send.
LEMMA HolderMoves ==
    ASSUME Inv, NEW t \in Tabs, NEW p, Becomes(t, p), NEW e
    PROVE  /\ Cardinality(Holders(e)) \in Nat /\ Cardinality(Holders(e)') \in Nat
           /\ Cardinality(Holders(e)') + Bit(Holds(tab[t], e)) = Cardinality(Holders(e)) + Bit(Holds(p, e))
<1>1. tab'[t] = p /\ \A u \in Tabs \ {t} : tab'[u] = tab[u]
  BY DEF Inv, TypeOK, Becomes
<1>2. IsFiniteSet(Holders(e)) /\ IsFiniteSet(Holders(e)')
  BY TabsAssumption, FS_Subset DEF Holders
<1>3. Cardinality(Holders(e)) \in Nat /\ Cardinality(Holders(e)') \in Nat
  BY <1>2, FS_CardinalityType
<1>4. (t \in Holders(e) <=> Holds(tab[t], e)) /\ (t \in Holders(e)' <=> Holds(p, e))
  BY <1>1 DEF Holders
<1>5. \A u \in Tabs \ {t} : u \in Holders(e)' <=> u \in Holders(e)
  BY <1>1 DEF Holders
<1>6. Holders(e) \subseteq Tabs /\ Holders(e)' \subseteq Tabs
  BY DEF Holders
<1> DEFINE before == Holders(e)
           after == Holders(e)'
<1> DEFINE left == before \ {t}
<1>7. left = after \ {t}
  BY <1>5, <1>6
<1>8. /\ Cardinality(left) = IF t \in before THEN Cardinality(before) - 1 ELSE Cardinality(before)
      /\ Cardinality(left) = IF t \in after THEN Cardinality(after) - 1 ELSE Cardinality(after)
  <2>1. Cardinality(left) = IF t \in before THEN Cardinality(before) - 1 ELSE Cardinality(before)
    BY <1>2, FS_RemoveElement
  <2>2. Cardinality(after \ {t}) = IF t \in after THEN Cardinality(after) - 1 ELSE Cardinality(after)
    BY <1>2, FS_RemoveElement
  <2> HIDE DEF left
  <2> QED BY <1>7, <2>1, <2>2
<1>9. /\ (t \in before => Bit(Holds(tab[t], e)) = 1) /\ (t \notin before => Bit(Holds(tab[t], e)) = 0)
      /\ (t \in after => Bit(Holds(p, e)) = 1) /\ (t \notin after => Bit(Holds(p, e)) = 0)
  BY <1>4 DEF Bit
<1> HIDE DEF before, after, left
<1>10. Cardinality(before) \in Nat /\ Cardinality(after) \in Nat
  BY <1>3 DEF before, after
<1> DEFINE gone == Bit(Holds(tab[t], e))
           come == Bit(Holds(p, e))
<1>11. /\ (t \in before => gone = 1) /\ (t \notin before => gone = 0)
       /\ (t \in after => come = 1) /\ (t \notin after => come = 0)
  BY <1>9
<1> HIDE DEF gone, come
<1>12. Cardinality(after) + gone = Cardinality(before) + come
  BY <1>8, <1>10, <1>11
<1> QED BY <1>3, <1>12 DEF before, after, gone, come

LEMMA CarriersTyped ==
    ASSUME NEW S, NEW w \in Seq(S), NEW e
    PROVE  IsFiniteSet(Carriers(w, e)) /\ Cardinality(Carriers(w, e)) \in Nat
<1>1. Len(w) \in Nat /\ Carriers(w, e) \subseteq 1 .. Len(w)
  BY LenProperties DEF Carriers
<1>2. IsFiniteSet(1 .. Len(w))
  BY <1>1, FS_Interval
<1>3. IsFiniteSet(Carriers(w, e))
  BY <1>1, <1>2, FS_Subset
<1> QED BY <1>3, FS_CardinalityType

\* A request nobody waits for carries its entries until the server has taken it.
LEMMA CarrierAdded ==
    ASSUME NEW S, NEW w \in Seq(S), NEW body \in S, NEW e
    PROVE  Cardinality(Carriers(Append(w, body), e)) = Cardinality(Carriers(w, e)) + Bit(e \in Elements(body))
<1>1. /\ Len(w) \in Nat /\ Len(Append(w, body)) = Len(w) + 1
      /\ \A i \in 1 .. Len(w) : Append(w, body)[i] = w[i]
      /\ Append(w, body)[Len(w) + 1] = body
  BY LenProperties, AppendProperties
<1>2. IsFiniteSet(Carriers(w, e)) /\ Cardinality(Carriers(w, e)) \in Nat
  BY CarriersTyped
<1>3. Len(w) + 1 \notin Carriers(w, e)
  BY <1>1 DEF Carriers
<1>4. CASE e \in Elements(body)
  <2>1. Carriers(Append(w, body), e) = Carriers(w, e) \cup {Len(w) + 1}
    BY <1>1, <1>4 DEF Carriers
  <2> QED BY <1>2, <1>3, <1>4, <2>1, FS_AddElement DEF Bit
<1>5. CASE e \notin Elements(body)
  <2>1. Carriers(Append(w, body), e) = Carriers(w, e)
    BY <1>1, <1>5 DEF Carriers
  <2> QED BY <1>2, <1>5, <2>1 DEF Bit
<1> QED BY <1>4, <1>5

LEMMA RemovedOne ==
    ASSUME NEW S, NEW w \in Seq(S), NEW i \in DOMAIN w
    PROVE  /\ i \in 1 .. Len(w) /\ Len(w) \in Nat
           /\ Len(RemoveAt(w, i)) = Len(w) - 1
           /\ \A j \in 1 .. Len(w) - 1 : RemoveAt(w, i)[j] = IF j < i THEN w[j] ELSE w[j + 1]
<1>1. Len(w) \in Nat /\ i \in 1 .. Len(w)
  BY LenProperties
<1>2. \A j \in 1 .. i - 1 : w[j] \in S
  <2> SUFFICES ASSUME NEW j \in 1 .. i - 1 PROVE w[j] \in S
    OBVIOUS
  <2>1. j \in 1 .. Len(w)
    BY <1>1
  <2> QED BY <2>1, ElementOfSeq
<1> DEFINE u == SubSeq(w, 1, i - 1)
           v == SubSeq(w, i + 1, Len(w))
<1>3. /\ u \in Seq(S) /\ Len(u) = i - 1 /\ \A j \in 1 .. i - 1 : u[j] = w[j]
  <2>1. /\ u \in Seq(S) /\ Len(u) = (IF 1 <= i - 1 THEN i - 1 - 1 + 1 ELSE 0)
        /\ \A j \in 1 .. i - 1 - 1 + 1 : u[j] = w[1 + j - 1]
    BY <1>1, <1>2, SubSeqProperties
  <2> HIDE DEF u
  <2> QED BY <1>1, <2>1
<1>4. /\ v \in Seq(S) /\ Len(v) = Len(w) - i /\ \A j \in 1 .. Len(w) - i : v[j] = w[i + j]
  <2>1. /\ v \in Seq(S) /\ Len(v) = (IF i + 1 <= Len(w) THEN Len(w) - (i + 1) + 1 ELSE 0)
        /\ \A j \in 1 .. Len(w) - (i + 1) + 1 : v[j] = w[i + 1 + j - 1]
    BY <1>1, TailOf
  <2> HIDE DEF v
  <2> QED BY <1>1, <2>1
<1>5. RemoveAt(w, i) = u \o v
  BY DEF RemoveAt
<1> HIDE DEF u, v
<1>6. /\ Len(u \o v) = Len(u) + Len(v)
      /\ \A j \in 1 .. Len(u) + Len(v) : (u \o v)[j] = IF j <= Len(u) THEN u[j] ELSE v[j - Len(u)]
  BY <1>3, <1>4, ConcatProperties
<1>7. Len(u) + Len(v) = Len(w) - 1
  BY <1>1, <1>3, <1>4
<1>8. ASSUME NEW j \in 1 .. Len(w) - 1
      PROVE  (u \o v)[j] = IF j < i THEN w[j] ELSE w[j + 1]
  <2>1. CASE j < i
    <3>1. j \in 1 .. i - 1 /\ j <= Len(u)
      BY <1>1, <1>3, <2>1
    <3> QED BY <1>3, <1>6, <1>7, <2>1, <3>1
  <2>2. CASE ~(j < i)
    <3>1. j - Len(u) \in 1 .. Len(w) - i /\ ~(j <= Len(u)) /\ i + (j - Len(u)) = j + 1
      BY <1>1, <1>3, <2>2
    <3> QED BY <1>4, <1>6, <1>7, <2>2, <3>1
  <2> QED BY <2>1, <2>2
<1> QED BY <1>1, <1>5, <1>6, <1>7, <1>8

LEMMA CarrierTaken ==
    ASSUME NEW S, NEW w \in Seq(S), NEW i \in DOMAIN w, NEW e
    PROVE  Cardinality(Carriers(RemoveAt(w, i), e)) + Bit(e \in Elements(w[i])) = Cardinality(Carriers(w, e))
<1> DEFINE x == RemoveAt(w, i)
           to == Carriers(w, e) \ {i}
           f == [j \in Carriers(x, e) |-> IF j < i THEN j ELSE j + 1]
<1>1. /\ i \in 1 .. Len(w) /\ Len(w) \in Nat /\ Len(x) = Len(w) - 1
      /\ \A j \in 1 .. Len(w) - 1 : x[j] = IF j < i THEN w[j] ELSE w[j + 1]
  BY RemovedOne
<1> HIDE DEF x
<1>2. IsFiniteSet(Carriers(w, e)) /\ Cardinality(Carriers(w, e)) \in Nat
  BY CarriersTyped
<1>3. \A j \in Carriers(x, e) : j \in 1 .. Len(w) - 1 /\ e \in Elements(x[j])
  BY <1>1 DEF Carriers
<1>4. f \in [Carriers(x, e) -> to]
  <2> SUFFICES ASSUME NEW j \in Carriers(x, e) PROVE (IF j < i THEN j ELSE j + 1) \in to
    OBVIOUS
  <2>1. CASE j < i
    BY <1>1, <1>3, <2>1 DEF Carriers
  <2>2. CASE ~(j < i)
    BY <1>1, <1>3, <2>2 DEF Carriers
  <2> QED BY <2>1, <2>2
<1>5. \A j, k \in Carriers(x, e) : f[j] = f[k] => j = k
  <2> SUFFICES ASSUME NEW j \in Carriers(x, e), NEW k \in Carriers(x, e), f[j] = f[k] PROVE j = k
    OBVIOUS
  <2>1. j \in Nat /\ k \in Nat /\ i \in Nat
    BY <1>1, <1>3
  <2> QED BY <2>1
<1>6. \A m \in to : \E j \in Carriers(x, e) : f[j] = m
  <2> SUFFICES ASSUME NEW m \in to PROVE \E j \in Carriers(x, e) : f[j] = m
    OBVIOUS
  <2>1. m \in 1 .. Len(w) /\ m # i /\ e \in Elements(w[m])
    BY DEF Carriers
  <2>2. CASE m < i
    <3>1. m \in 1 .. Len(w) - 1 /\ x[m] = w[m]
      BY <1>1, <2>1, <2>2
    <3>2. m \in Carriers(x, e)
      BY <1>1, <2>1, <3>1 DEF Carriers
    <3> QED BY <2>2, <3>2
  <2>3. CASE ~(m < i)
    <3>1. m - 1 \in 1 .. Len(w) - 1 /\ ~(m - 1 < i) /\ (m - 1) + 1 = m
      BY <1>1, <2>1, <2>3
    <3>2. x[m - 1] = w[m]
      BY <1>1, <3>1
    <3>3. m - 1 \in Carriers(x, e)
      BY <1>1, <2>1, <3>1, <3>2 DEF Carriers
    <3> QED BY <3>1, <3>3
  <2> QED BY <2>2, <2>3
<1>7. IsFiniteSet(to) /\ Cardinality(to) = IF i \in Carriers(w, e) THEN Cardinality(Carriers(w, e)) - 1
                                          ELSE Cardinality(Carriers(w, e))
  BY <1>2, FS_RemoveElement
<1>8. Cardinality(Carriers(x, e)) = Cardinality(to)
  <2> HIDE DEF f, to
  <2>1. f \in Injection(Carriers(x, e), to) /\ f \in Surjection(Carriers(x, e), to)
    BY <1>4, <1>5, <1>6 DEF Injection, IsInjective, Surjection
  <2> QED BY <1>7, <2>1, FS_Injection
<1>9. i \in Carriers(w, e) <=> e \in Elements(w[i])
  BY <1>1 DEF Carriers
<1> HIDE DEF to
<1> QED BY <1>2, <1>7, <1>8, <1>9 DEF x, Bit

\* What a tally counts besides the pages.
Elsewhere(e) == recorded[e] + Cardinality(Carriers(wire, e)) + Bit(Rests(e))

LEMMA FaultsTyped ==
    ASSUME Inv
    PROVE  Blame \in Nat /\ unstored \in Nat /\ Faults \in Nat /\ Faults = Blame + unstored
<1>1. \A k \in Mishap : mishaps[k] \in Nat
  BY DEF Inv, TypeOK
<1>2. Blame \in Nat
  BY <1>1 DEF Blame, Mishap
<1>3. unstored \in Nat
  BY DEF Inv, TypeOK
<1> QED BY <1>2, <1>3 DEF Faults

LEMMA HappensCounts ==
    ASSUME Inv, NEW k \in Mishap, Happens(k)
    PROVE  /\ Blame' \in Nat /\ Faults' = Blame' + unstored'
           /\ k \in {"refused", "lost", "hidden"} => Blame' = Blame
           /\ k \notin {"refused", "lost", "hidden"} => Blame' = Blame + 1
<1>1. mishaps \in [Mishap -> Nat] /\ mishaps' = [mishaps EXCEPT ![k] = @ + 1]
  BY DEF Inv, TypeOK, Happens
<1>2. \A m \in Mishap : mishaps'[m] = IF m = k THEN mishaps[m] + 1 ELSE mishaps[m]
  BY <1>1
<1>3. \A m \in Mishap : mishaps[m] \in Nat
  BY <1>1
<1>4. /\ Blame' \in Nat
      /\ k \in {"refused", "lost", "hidden"} => Blame' = Blame
      /\ k \notin {"refused", "lost", "hidden"} => Blame' = Blame + 1
  <2>1. \A m \in {"unanswered", "overtaken", "closed", "crashed", "shared"} :
          /\ mishaps[m] \in Nat /\ mishaps'[m] \in Nat
          /\ m # k => mishaps'[m] = mishaps[m]
          /\ m = k => mishaps'[m] = mishaps[m] + 1
    BY <1>2, <1>3 DEF Mishap
  <2>2. k \in {"refused", "lost", "hidden"} => Blame' = Blame
    BY <2>1 DEF Blame
  <2>3. CASE k = "unanswered"
    BY <2>1, <2>3 DEF Blame
  <2>4. CASE k = "overtaken"
    BY <2>1, <2>4 DEF Blame
  <2>5. CASE k = "closed"
    BY <2>1, <2>5 DEF Blame
  <2>6. CASE k = "crashed"
    BY <2>1, <2>6 DEF Blame
  <2>7. CASE k = "shared"
    BY <2>1, <2>7 DEF Blame
  <2>8. Blame' \in Nat
    BY <2>1 DEF Blame
  <2> QED BY <2>2, <2>3, <2>4, <2>5, <2>6, <2>7, <2>8 DEF Mishap
<1> QED BY <1>4 DEF Faults

\* A mishap in a step that may also fail to store the queue.
LEMMA FaultsOfMishap ==
    ASSUME Inv, NEW k \in Mishap, Happens(k),
           unstored \in Nat, unstored' \in Nat, unstored <= unstored'
    PROVE  /\ Faults \in Nat /\ Faults' \in Nat /\ Faults <= Faults'
           /\ k \notin {"refused", "lost", "hidden"}
                => Faults + 1 <= Faults' /\ Faults + 1 + unstored' = Faults' + unstored
<1>1. Blame \in Nat /\ Faults \in Nat /\ Faults = Blame + unstored
  BY FaultsTyped
<1>2. /\ Blame' \in Nat /\ Faults' = Blame' + unstored'
      /\ k \in {"refused", "lost", "hidden"} => Blame' = Blame
      /\ k \notin {"refused", "lost", "hidden"} => Blame' = Blame + 1
  BY HappensCounts
<1>3. \A b, c, u, v \in Nat :
        /\ c + v \in Nat
        /\ c = b /\ u <= v => b + u <= c + v
  OBVIOUS
<1>4. CASE k \in {"refused", "lost", "hidden"}
  BY <1>1, <1>2, <1>3, <1>4
<1>5. CASE k \notin {"refused", "lost", "hidden"}
  <2>1. Blame' = Blame + 1
    BY <1>2, <1>5
  <2>2. Faults' = Blame + 1 + unstored'
    BY <1>2, <2>1
  <2>3. PICK b \in Nat, u \in Nat, v \in Nat : b = Blame /\ u = unstored /\ v = unstored'
    BY <1>1
  <2>4. u <= v /\ Faults = b + u /\ Faults' = b + 1 + v
    BY <1>1, <2>2, <2>3
  <2>5. /\ b + 1 + v \in Nat /\ b + u <= b + 1 + v /\ b + u + 1 <= b + 1 + v
        /\ b + u + 1 + v = b + 1 + v + u
    BY <2>4
  <2> QED BY <1>1, <1>5, <2>3, <2>4, <2>5
<1> QED BY <1>4, <1>5

\* When only the queue was stored, or was not.
LEMMA FaultsAfterWrite ==
    ASSUME Inv, UNCHANGED mishaps, unstored' \in {unstored, unstored + 1}
    PROVE  Faults \in Nat /\ Faults' \in Nat /\ Faults <= Faults'
<1>1. Blame' = Blame
  BY DEF Blame
<1> QED BY <1>1, FaultsTyped DEF Faults

LEMMA ElsewhereTyped ==
    ASSUME Inv, NEW e \in Error
    PROVE  /\ Elsewhere(e) \in Nat /\ recorded[e] \in Nat
           /\ Cardinality(Carriers(wire, e)) \in Nat
           /\ Elsewhere(e) = recorded[e] + Cardinality(Carriers(wire, e)) + Bit(Rests(e))
<1>1. recorded[e] \in Nat
  BY DEF Inv, TypeOK
<1>2. Cardinality(Carriers(wire, e)) \in Nat
  BY CarriersTyped DEF Inv, TypeOK
<1>3. Bit(Rests(e)) \in Nat
  BY DEF Bit
<1> QED BY <1>1, <1>2, <1>3 DEF Elsewhere

LEMMA TallyStep ==
    ASSUME Inv, Inv', NEW t \in Tabs, NEW p, Becomes(t, p), NEW e \in Error
    PROVE  /\ Tally(e) \in Nat /\ Tally(e)' \in Nat
           /\ Elsewhere(e) \in Nat /\ Elsewhere(e)' \in Nat
           /\ Bit(Holds(tab[t], e)) \in Nat /\ Bit(Holds(p, e)) \in Nat
           /\ Bit(Holds(tab[t], e)) + Elsewhere(e) <= Tally(e)
           /\ Tally(e)' + Bit(Holds(tab[t], e)) + Elsewhere(e)
                = Tally(e) + Bit(Holds(p, e)) + Elsewhere(e)'
<1>1. Elsewhere(e) \in Nat
  BY ElsewhereTyped
<1>2. Elsewhere(e)' \in Nat
  <2>1. recorded'[e] \in Nat
    BY DEF Inv, TypeOK
  <2>2. Cardinality(Carriers(wire', e)) \in Nat
    BY CarriersTyped DEF Inv, TypeOK
  <2>3. Bit(Rests(e)') \in Nat
    BY DEF Bit
  <2> QED BY <2>1, <2>2, <2>3 DEF Elsewhere, Carriers, Bit
<1>3. /\ Cardinality(Holders(e)) \in Nat /\ Cardinality(Holders(e)') \in Nat
      /\ Cardinality(Holders(e)') + Bit(Holds(tab[t], e)) = Cardinality(Holders(e)) + Bit(Holds(p, e))
  BY HolderMoves
<1>4. Tally(e) = Cardinality(Holders(e)) + Elsewhere(e)
  BY <1>1, <1>3, ElsewhereTyped DEF Tally, Bit
<1>5. Tally(e)' = Cardinality(Holders(e)') + Elsewhere(e)'
  <2>1. recorded'[e] \in Nat
    BY DEF Inv, TypeOK
  <2>2. Cardinality(Carriers(wire, e)') \in Nat
    BY CarriersTyped DEF Inv, TypeOK, Carriers
  <2>3. Bit(Rests(e))' \in Nat
    BY DEF Bit
  <2>4. /\ Tally(e)' = recorded'[e] + Cardinality(Holders(e)') + Cardinality(Carriers(wire, e)') + Bit(Rests(e))'
        /\ Elsewhere(e)' = recorded'[e] + Cardinality(Carriers(wire, e)') + Bit(Rests(e))'
    BY DEF Tally, Elsewhere
  <2> QED BY <1>3, <2>1, <2>2, <2>3, <2>4
<1>6. Bit(Holds(tab[t], e)) \in Nat /\ Bit(Holds(p, e)) \in Nat
  BY DEF Bit
<1>7. Bit(Holds(tab[t], e)) <= Cardinality(Holders(e))
  <2>1. CASE Holds(tab[t], e)
    <3>1. t \in Holders(e)
      BY <2>1 DEF Holders
    <3>2. IsFiniteSet(Holders(e))
      BY TabsAssumption, FS_Subset DEF Holders
    <3>3. Cardinality(Holders(e)) # 0
      BY <3>1, <3>2, FS_EmptySet
    <3> QED BY <1>3, <2>1, <3>3 DEF Bit
  <2>2. CASE ~Holds(tab[t], e)
    BY <1>3, <2>2 DEF Bit
  <2> QED BY <2>1, <2>2
<1> HIDE DEF Inv
<1> DEFINE gone == Bit(Holds(tab[t], e))
           come == Bit(Holds(p, e))
           many == Cardinality(Holders(e))
           after == Cardinality(Holders(e)')
           rest == Elsewhere(e)
           rest2 == Elsewhere(e)'
<1>8. /\ gone \in Nat /\ come \in Nat /\ many \in Nat /\ after \in Nat /\ rest \in Nat /\ rest2 \in Nat
      /\ after + gone = many + come /\ gone <= many
      /\ Tally(e) = many + rest /\ Tally(e)' = after + rest2
  BY <1>1, <1>2, <1>3, <1>4, <1>5, <1>6, <1>7
<1> HIDE DEF gone, come, many, after, rest, rest2
<1>9. /\ many + rest \in Nat /\ after + rest2 \in Nat /\ gone + rest <= many + rest
      /\ (after + rest2) + gone + rest = (many + rest) + come + rest2
  BY <1>8
<1>10. /\ Tally(e) \in Nat /\ Tally(e)' \in Nat /\ gone + rest <= Tally(e)
       /\ Tally(e)' + gone + rest = Tally(e) + come + rest2
  BY <1>8, <1>9
<1> QED BY <1>8, <1>10 DEF gone, come, rest, rest2

\* A run stays one when more errors are accepted.
LEMMA StillRuns ==
    ASSUME NEW S, NEW T, S \subseteq T, NEW p, Shape(p, S)
    PROVE  Shape(p, T)
BY DEF Shape, RunOf

\* Taken together, what is elsewhere grows by no more than the page gives away
\* and the mishap allows, unless the error is a new one.
LEMMA CopyStep ==
    ASSUME Inv, Inv', CopyInv, NEW t \in Tabs, NEW p, Becomes(t, p), accepted \subseteq accepted',
           Shape(p, accepted'), Runs', Faults' \in Nat, Faults <= Faults',
           \A e \in Error :
              \/ Bit(Holds(p, e)) + Elsewhere(e)' + Faults
                   <= Bit(Holds(tab[t], e)) + Elsewhere(e) + Faults'
              \/ Tally(e) = 0 /\ Bit(Holds(p, e)) + Elsewhere(e)' <= 1
    PROVE  CopyInv'
<1>1. Faults \in Nat
  BY FaultsTyped
<1>2. ASSUME NEW e \in Error PROVE Tally(e)' <= 1 + Faults'
  <2> DEFINE gone == Bit(Holds(tab[t], e))
             come == Bit(Holds(p, e))
             rest == Elsewhere(e)
             rest2 == Elsewhere(e)'
             n == Tally(e)
             n2 == Tally(e)'
             f == Faults
             f2 == Faults'
  <2>1. /\ n \in Nat /\ n2 \in Nat /\ rest \in Nat /\ rest2 \in Nat /\ gone \in Nat /\ come \in Nat
        /\ gone + rest <= n /\ n2 + gone + rest = n + come + rest2
    BY TallyStep
  <2>2. n <= 1 + f
    BY DEF CopyInv, Counted
  <2>3. \/ come + rest2 + f <= gone + rest + f2
        \/ n = 0 /\ come + rest2 <= 1
    OBVIOUS
  <2>4. f \in Nat /\ f2 \in Nat /\ f <= f2
    BY <1>1
  <2> HIDE DEF gone, come, rest, rest2, n, n2, f, f2
  <2>5. n2 <= 1 + f2
    BY <2>1, <2>2, <2>3, <2>4
  <2> QED BY <2>5 DEF n2, f2
<1>3. Counted'
  BY <1>2 DEF Counted
<1>4. ASSUME NEW u \in Tabs PROVE Shape(tab'[u], accepted')
  <2>1. CASE u = t
    <3>1. tab'[u] = p
      BY <2>1 DEF Becomes, Inv, TypeOK
    <3> QED BY <3>1
  <2>2. CASE u # t
    <3>1. tab'[u] = tab[u]
      BY <2>2 DEF Becomes, Inv, TypeOK
    <3>2. Shape(tab[u], accepted)
      BY DEF CopyInv
    <3> QED BY <3>1, <3>2, StillRuns
  <2> QED BY <2>1, <2>2
<1>5. \A u \in Tabs : Shape(tab[u], accepted)'
  BY <1>4 DEF Shape, RunOf, Once, Elements
<1> QED BY <1>3, <1>5 DEF CopyInv

LEMMA FreshIsNowhere ==
    ASSUME Inv, CopyInv, NEW e \in Error, e \notin accepted
    PROVE  /\ Tally(e) = 0 /\ recorded[e] = 0
           /\ Carriers(wire, e) = {} /\ Cardinality(Carriers(wire, e)) = 0
<1>1. recorded[e] = 0
  <2>1. recorded[e] \in Nat /\ ~(recorded[e] > 0)
    BY DEF Inv, TypeOK, CopyInv, Runs
  <2> QED BY <2>1
<1>2. Holders(e) = {}
  <2> SUFFICES ASSUME NEW t \in Tabs PROVE ~Holds(tab[t], e)
    BY DEF Holders
  <2> QED BY DEF CopyInv, Shape, RunOf, Holds
<1>3. Carriers(wire, e) = {}
  BY DEF CopyInv, Runs, WireRuns, RunOf, Carriers
<1>4. ~Rests(e)
  BY DEF CopyInv, Runs, RunOf, Rests
<1>5. Cardinality({}) = 0
  BY FS_EmptySet
<1> QED BY <1>1, <1>2, <1>3, <1>4, <1>5 DEF Tally, Bit

LEMMA WireAppended ==
    ASSUME NEW S, NEW U, NEW w \in Seq(U), NEW b \in U, WireRuns(w, S), RunOf(b, S)
    PROVE  WireRuns(Append(w, b), S)
<1>1. /\ Len(w) \in Nat /\ Len(Append(w, b)) = Len(w) + 1 /\ Append(w, b)[Len(w) + 1] = b
      /\ \A i \in 1 .. Len(w) : Append(w, b)[i] = w[i]
  BY LenProperties, AppendProperties
<1>2. \A i \in 1 .. Len(w) + 1 : i \in 1 .. Len(w) \/ i = Len(w) + 1
  BY <1>1
<1> HIDE DEF RunOf
<1> QED BY <1>1, <1>2 DEF WireRuns

\* A request the page stops waiting for adds the copy the page had out.
LEMMA AbandonedRuns ==
    ASSUME NEW page, page.batch \in Seq(Error), NEW w \in Seq(Seq(Error)),
           NEW S, WireRuns(w, S), RunOf(page.batch, S), NEW v \in Abandoned(page, w)
    PROVE  /\ WireRuns(v, S)
           /\ \A e : /\ Cardinality(Carriers(w, e)) \in Nat /\ Cardinality(Carriers(v, e)) \in Nat
                     /\ Cardinality(Carriers(v, e))
                          <= Cardinality(Carriers(w, e))
                               + Bit(e \in Elements(page.batch) /\ page.reply = None)
<1>1. \A e : Cardinality(Carriers(w, e)) \in Nat
  BY CarriersTyped
<1>2. CASE v = w
  BY <1>1, <1>2 DEF Bit
<1>3. CASE v = Append(w, page.batch) /\ page.reply = None
  <2>1. WireRuns(v, S)
    BY <1>3, WireAppended
  <2>2. ASSUME NEW e
        PROVE  Cardinality(Carriers(v, e)) = Cardinality(Carriers(w, e)) + Bit(e \in Elements(page.batch))
    BY <1>3, CarrierAdded
  <2>3. \A e : Bit(e \in Elements(page.batch)) \in Nat
    BY DEF Bit
  <2>4. ASSUME NEW e
        PROVE  Bit(e \in Elements(page.batch) /\ page.reply = None) = Bit(e \in Elements(page.batch))
    BY <1>3 DEF Bit
  <2>5. ASSUME NEW e
        PROVE  /\ Cardinality(Carriers(v, e)) \in Nat
               /\ Cardinality(Carriers(v, e))
                    <= Cardinality(Carriers(w, e))
                         + Bit(e \in Elements(page.batch) /\ page.reply = None)
    BY <1>1, <2>2, <2>3, <2>4
  <2> QED BY <1>1, <2>1, <2>5
<1> QED BY <1>2, <1>3 DEF Abandoned

LEMMA UpFacts ==
    ASSUME NEW t \in Tabs, tab[t].up, NEW e
    PROVE  Bit(Rests(e)) = 0
BY DEF Rests, NobodyUp, Bit

\* What the step of a page may use.
LEMMA CopyFacts ==
    ASSUME Inv, HonestInv, CopyInv, NEW t \in Tabs
    PROVE  /\ tab[t] \in Page /\ Shape(tab[t], accepted)
           /\ tab[t].queue \in Seq(Error) /\ tab[t].batch \in Seq(Error)
           /\ Len(tab[t].queue) \in Nat /\ Len(tab[t].batch) \in Nat
           /\ Elements(tab[t].queue) = {tab[t].queue[i] : i \in 1 .. Len(tab[t].queue)}
           /\ tab[t].batch = <<>> => Elements(tab[t].batch) = {} /\ tab[t].reply = None
           /\ ~tab[t].up => tab[t].batch = <<>> /\ tab[t].queue = <<>>
<1>1. tab[t] \in Page /\ Shape(tab[t], accepted)
  BY DEF Inv, TypeOK, CopyInv
<1>2. tab[t].queue \in Seq(Error) /\ tab[t].batch \in Seq(Error)
  BY <1>1 DEF Page
<1>3. /\ Len(tab[t].queue) \in Nat /\ Len(tab[t].batch) \in Nat
      /\ Elements(tab[t].queue) = {tab[t].queue[i] : i \in 1 .. Len(tab[t].queue)}
      /\ tab[t].batch = <<>> => Elements(tab[t].batch) = {}
  BY <1>2, LenProperties, ElementsOf
<1>4. tab[t].batch = <<>> => tab[t].reply = None
  BY DEF HonestInv, Honest
<1>5. ~tab[t].up => tab[t].batch = <<>> /\ tab[t].queue = <<>>
  BY <1>1 DEF Shape, NoPage
<1> QED BY <1>1, <1>2, <1>3, <1>4, <1>5

LEMMA UpAfter ==
    ASSUME Inv, NEW t \in Tabs, NEW p, Becomes(t, p), p.up, NEW e
    PROVE  Bit(Rests(e))' = 0
<1>1. tab'[t] = p
  BY DEF Becomes, Inv, TypeOK
<1> QED BY <1>1 DEF Rests, NobodyUp, Bit

----------------------------------------------------------------------------
(* One lemma for each action.                                              *)

LEMMA RunsAfter ==
    ASSUME RunOf(stored', accepted'), WireRuns(wire', accepted'),
           \A e \in Error : recorded'[e] > 0 => e \in accepted'
    PROVE  Runs'
BY DEF Runs, WireRuns, RunOf, Once, Elements

LEMMA CopyReport ==
    ASSUME Inv, Inv', HonestInv, CopyInv, NEW t \in Tabs, Report(t)
    PROVE  CopyInv'
<1> DEFINE page == tab[t]
           r == raised + 1
           q == Enqueued(page.queue, r)
           p == [page EXCEPT !.queue = q, !.waiting = r, !.timer = TRUE]
<1>1. /\ page \in Page /\ Shape(page, accepted) /\ page.queue \in Seq(1 .. raised)
      /\ page.batch \in Seq(1 .. raised) /\ raised \in Nat
  BY CopyFacts, PageFacts
<1>2. /\ page.up /\ Becomes(t, p) /\ accepted' = accepted \cup {r} /\ Stores(q)
      /\ UNCHANGED <<wire, recorded, mishaps>> /\ r \in Error /\ r \notin accepted
  <2>1. raised < MaxRaised /\ MaxRaised \in Nat /\ accepted \subseteq 1 .. raised
    BY BoundsAssumption DEF Report, Inv, TypeOK
  <2>2. r \in Error /\ r \notin accepted
    BY <1>1, <2>1 DEF Error
  <2> QED BY <2>2 DEF Report
<1>3. /\ RunOf(q, accepted') /\ Elements(q) \subseteq Elements(page.queue) \cup {r}
      /\ \A j \in 1 .. Len(q) : q[j] = r \/ \E k \in 1 .. Len(page.queue) : k >= j /\ q[j] = page.queue[k]
  <2>1. RunOf(page.queue, accepted)
    BY <1>1 DEF Shape
  <2> HIDE DEF page
  <2> QED BY <1>1, <1>2, <2>1, EnqueuedRun
<1>4. q \in Seq(1 .. r) /\ Len(q) \in Nat
  <2> HIDE DEF page
  <2> QED BY <1>1, EnqueuedAtTheEnd
<1>5. p.queue = q /\ p.batch = page.batch /\ p.reply = page.reply /\ p.up = page.up
  BY <1>1 DEF Page
<1> HIDE DEF p, q
<1>6. r \notin Elements(page.batch)
  <2> HIDE DEF page
  <2>1. Elements(page.batch) \subseteq 1 .. raised
    BY <1>1, ElementsOf
  <2> QED BY <1>1, <2>1
<1>7. Shape(p, accepted')
  <2>1. RunOf(p.batch, accepted')
    BY <1>1, <1>2, <1>5 DEF Shape, RunOf
  <2>2. ASSUME NEW j \in 1 .. Len(q), q[j] \in Elements(page.batch) PROVE j <= Len(page.batch)
    <3>1. PICK k \in 1 .. Len(page.queue) : k >= j /\ q[j] = page.queue[k]
      BY <1>3, <1>6, <2>2
    <3>2. k <= Len(page.batch)
      BY <1>1, <2>2, <3>1 DEF Shape
    <3>3. Len(page.batch) \in Nat /\ Len(page.queue) \in Nat
      BY PageFacts
    <3> QED BY <1>4, <3>1, <3>2, <3>3
  <2> QED BY <1>2, <1>3, <1>5, <2>1, <2>2 DEF Shape
<1>8. Runs'
  <2>1. RunOf(stored', accepted')
    <3>1. RunOf(stored, accepted')
      BY <1>2 DEF CopyInv, Runs, RunOf
    <3> QED BY <1>2, <1>3, <1>4, <3>1, PersistedRun DEF Stores
  <2>2. WireRuns(wire', accepted')
    BY <1>2 DEF CopyInv, Runs, WireRuns, RunOf
  <2>3. \A e \in Error : recorded'[e] > 0 => e \in accepted'
    BY <1>2 DEF CopyInv, Runs
  <2> QED BY <2>1, <2>2, <2>3, RunsAfter
<1>9. Faults \in Nat /\ Faults' \in Nat /\ Faults <= Faults'
  BY <1>2, FaultsAfterWrite DEF Stores
<1>10. ASSUME NEW e \in Error
       PROVE  \/ Bit(Holds(p, e)) + Elsewhere(e)' + Faults
                   <= Bit(Holds(tab[t], e)) + Elsewhere(e) + Faults'
              \/ Tally(e) = 0 /\ Bit(Holds(p, e)) + Elsewhere(e)' <= 1
  <2>1. Bit(Rests(e)) = 0 /\ Bit(Rests(e))' = 0
    BY <1>2, <1>5, UpFacts, UpAfter
  <2>2. Elsewhere(e)' = Elsewhere(e) /\ Elsewhere(e) \in Nat
    BY <1>2, <2>1, ElsewhereTyped DEF Elsewhere, Carriers
  <2>3. CASE e = r
    <3>1. Tally(e) = 0 /\ recorded[e] = 0 /\ Cardinality(Carriers(wire, e)) = 0
      BY <1>2, <2>3, FreshIsNowhere
    <3>2. Elsewhere(e) = 0
      BY <2>1, <3>1 DEF Elsewhere
    <3>3. Bit(Holds(p, e)) \in {0, 1}
      BY DEF Bit
    <3> QED BY <2>2, <3>1, <3>2, <3>3
  <2>4. CASE e # r
    <3>1. Holds(p, e) => Holds(tab[t], e)
      BY <1>3, <1>5, <2>4 DEF Holds
    <3>2. /\ Bit(Holds(p, e)) \in Nat /\ Bit(Holds(tab[t], e)) \in Nat
          /\ Bit(Holds(p, e)) <= Bit(Holds(tab[t], e))
      BY <3>1 DEF Bit
    <3> QED BY <1>9, <2>2, <3>2
  <2> QED BY <2>3, <2>4
<1> QED BY <1>2, <1>7, <1>8, <1>9, <1>10, CopyStep

\* Everything the tallies are about stays.
LEMMA CopyKept ==
    ASSUME Inv, CopyInv, UNCHANGED <<tab, stored, unstored, wire, accepted, recorded, mishaps>>
    PROVE  CopyInv'
<1>1. Runs'
  BY DEF CopyInv, Runs, WireRuns, RunOf, Once, Elements
<1>2. Counted'
  <2> SUFFICES ASSUME NEW e \in Error PROVE Tally(e)' <= 1 + Faults'
    BY DEF Counted
  <2>1. Tally(e)' = Tally(e) /\ Faults' = Faults
    BY DEF Tally, Faults, Blame, Holders, Holds, Carriers, Rests, NobodyUp
  <2> QED BY <2>1 DEF CopyInv, Counted
<1>3. \A t \in Tabs : Shape(tab[t], accepted)'
  BY DEF CopyInv, Shape, RunOf, Once, Elements
<1> QED BY <1>1, <1>2, <1>3 DEF CopyInv

LEMMA CopyTimer ==
    ASSUME Inv, Inv', HonestInv, CopyInv, NEW t \in Tabs, TimerFires(t)
    PROVE  CopyInv'
<1> DEFINE page == tab[t]
           b == IF page.batch # <<>> THEN page.batch ELSE First(BatchSize, page.queue)
           p == [page EXCEPT !.timer = FALSE, !.batch = b]
<1>1. /\ page \in Page /\ Shape(page, accepted) /\ page.queue \in Seq(Error)
      /\ page.batch = <<>> => Elements(page.batch) = {} /\ page.reply = None
  BY CopyFacts
<1>2. /\ page.up /\ Becomes(t, p)
      /\ UNCHANGED <<stored, unstored, wire, accepted, recorded, mishaps>>
  BY DEF TimerFires, server, storage
<1>3. /\ p.queue = page.queue /\ p.batch = b /\ p.reply = page.reply /\ p.up = page.up
  BY <1>1 DEF Page
<1>4. LET f == First(BatchSize, page.queue) IN
      /\ RunOf(f, accepted) /\ Elements(f) \subseteq Elements(page.queue)
      /\ \A j \in 1 .. Len(page.queue) : page.queue[j] \in Elements(f) => j <= Len(f)
  <2>1. BatchSize \in Nat /\ RunOf(page.queue, accepted)
    BY <1>1, SizesAssumption DEF Shape
  <2> HIDE DEF page
  <2> QED BY <1>1, <2>1, FirstOfRun
<1> HIDE DEF p
<1>5. Shape(p, accepted')
  BY <1>1, <1>2, <1>3, <1>4 DEF Shape
<1>6. Runs'
  BY <1>2 DEF CopyInv, Runs, WireRuns, RunOf, Once, Elements
<1>7. Faults' = Faults /\ Faults \in Nat
  BY <1>2, FaultsTyped DEF Faults, Blame
<1>8. ASSUME NEW e \in Error
      PROVE  Bit(Holds(p, e)) + Elsewhere(e)' + Faults
                <= Bit(Holds(tab[t], e)) + Elsewhere(e) + Faults'
  <2>1. Bit(Rests(e)) = 0 /\ Bit(Rests(e))' = 0
    BY <1>2, <1>3, UpFacts, UpAfter
  <2>2. Elsewhere(e)' = Elsewhere(e) /\ Elsewhere(e) \in Nat
    BY <1>2, <2>1, ElsewhereTyped DEF Elsewhere, Carriers
  <2>3. Holds(p, e) <=> Holds(tab[t], e)
    BY <1>1, <1>3, <1>4 DEF Holds
  <2>4. Bit(Holds(p, e)) = Bit(Holds(tab[t], e)) /\ Bit(Holds(p, e)) \in Nat
    BY <2>3 DEF Bit
  <2> QED BY <1>7, <2>2, <2>4
<1> QED BY <1>2, <1>5, <1>6, <1>7, <1>8, CopyStep

LEMMA CopyServe ==
    ASSUME Inv, Inv', HonestInv, CopyInv, NEW t \in Tabs, Serve(t) \/ ServeInPart(t)
    PROVE  CopyInv'
<1> DEFINE page == tab[t]
           body == page.batch
<1>1. /\ page \in Page /\ Shape(page, accepted) /\ body \in Seq(Error)
      /\ ~page.up => body = <<>>
  BY CopyFacts
<1>2. body # <<>> /\ page.reply = None /\ page.up
  BY <1>1 DEF Serve, ServeInPart, Asked
<1>3. InFull(body) \in 0 .. Len(body) /\ Len(body) \in Nat
  BY <1>1, LenProperties, SizesAssumption DEF InFull, Smaller
<1>4. PICK n \in 0 .. InFull(body), ok \in SUBSET Nat :
          /\ Record(body, n, ok)
          /\ Becomes(t, [page EXCEPT !.reply = Results(body, n, ok)])
          /\ UNCHANGED mishaps \/ Happens("refused")
  BY <1>3 DEF Serve, ServeInPart
<1>5. UNCHANGED <<stored, unstored, wire, accepted>>
  BY <1>4 DEF Serve, ServeInPart, Record, storage
<1> DEFINE p == [page EXCEPT !.reply = Results(body, n, ok)]
<1>6. p.queue = page.queue /\ p.batch = body /\ p.reply # None /\ p.up
  <2>1. p.queue = page.queue /\ p.batch = body /\ p.reply = Results(body, n, ok) /\ p.up
    BY <1>1, <1>2 DEF Page
  <2> HIDE DEF body
  <2>2. n \in 0 .. Len(body)
    BY <1>3
  <2>3. Results(body, n, ok) \in Seq(Error \cup {None})
    BY <1>1, <2>2, ResultsTyped
  <2>4. Seq(Error \cup {None}) \subseteq Seq(Nat \cup {None})
    <3>1. Error \cup {None} \subseteq Nat \cup {None}
      BY DEF Error
    <3> QED BY <3>1, SeqMonotonic
  <2> QED BY <2>1, <2>3, <2>4, NoneAssumption
<1>7. Becomes(t, p)
  BY <1>4
<1> HIDE DEF p
<1>8. RecordedOf(body, n, ok) \subseteq Elements(body)
  <2>1. DOMAIN body = 1 .. Len(body) /\ 1 .. n \subseteq 1 .. Len(body)
    BY <1>1, <1>3, LenProperties
  <2> QED BY <2>1 DEF RecordedOf, Elements
<1>9. \A e \in Error : recorded[e] \in Nat /\ recorded'[e] = recorded[e] + Bit(e \in RecordedOf(body, n, ok))
  BY <1>4 DEF Record, Inv, TypeOK, Bit
<1>10. Shape(p, accepted')
  BY <1>1, <1>5, <1>6 DEF Shape
<1>11. Runs'
  <2>1. \A e \in Error : recorded'[e] > 0 => e \in accepted'
    <3> SUFFICES ASSUME NEW e \in Error, recorded'[e] > 0, e \notin accepted PROVE FALSE
      BY <1>5
    <3>1. e \notin RecordedOf(body, n, ok)
      BY <1>1, <1>8 DEF Shape, RunOf
    <3>2. recorded'[e] = recorded[e]
      BY <1>9, <3>1 DEF Bit
    <3> QED BY <3>2 DEF CopyInv, Runs
  <2> QED BY <1>5, <2>1 DEF CopyInv, Runs, WireRuns, RunOf, Once, Elements
<1>12. Faults' = Faults /\ Faults \in Nat
  <2>1. CASE UNCHANGED mishaps
    BY <1>5, <2>1, FaultsTyped DEF Faults, Blame
  <2>2. CASE Happens("refused")
    BY <1>5, <2>2, FaultsTyped, HappensCounts DEF Mishap
  <2> QED BY <1>4, <2>1, <2>2
<1>13. ASSUME NEW e \in Error
       PROVE  Bit(Holds(p, e)) + Elsewhere(e)' + Faults
                <= Bit(Holds(tab[t], e)) + Elsewhere(e) + Faults'
  <2>1. Bit(Rests(e)) = 0 /\ Bit(Rests(e))' = 0
    BY <1>2, <1>6, <1>7, UpFacts, UpAfter
  <2>2. /\ Elsewhere(e) \in Nat /\ Cardinality(Carriers(wire, e)) \in Nat
        /\ Elsewhere(e) = recorded[e] + Cardinality(Carriers(wire, e))
    BY <2>1, ElsewhereTyped
  <2>3. Elsewhere(e)' = recorded'[e] + Cardinality(Carriers(wire, e))
    <3>1. Elsewhere(e)' = recorded'[e] + Cardinality(Carriers(wire, e)) + 0
      BY <1>5, <2>1 DEF Elsewhere, Carriers
    <3>2. recorded'[e] \in Nat
      BY DEF Inv, TypeOK
    <3> QED BY <2>2, <3>1, <3>2
  <2>4. /\ Bit(Holds(p, e)) \in Nat /\ Bit(Holds(tab[t], e)) \in Nat /\ Bit(e \in RecordedOf(body, n, ok)) \in Nat
        /\ Bit(Holds(p, e)) + Bit(e \in RecordedOf(body, n, ok)) <= Bit(Holds(tab[t], e))
    <3>1. CASE e \in Elements(body)
      <4>1. Holds(tab[t], e) /\ ~Holds(p, e)
        BY <1>2, <1>6, <3>1 DEF Holds
      <4> QED BY <4>1 DEF Bit
    <3>2. CASE e \notin Elements(body)
      <4>1. (Holds(tab[t], e) <=> Holds(p, e)) /\ e \notin RecordedOf(body, n, ok)
        BY <1>6, <1>8, <3>2 DEF Holds
      <4> QED BY <4>1 DEF Bit
    <3> QED BY <3>1, <3>2
  <2> DEFINE got == Bit(e \in RecordedOf(body, n, ok))
             come == Bit(Holds(p, e))
             gone == Bit(Holds(tab[t], e))
             many == Cardinality(Carriers(wire, e))
  <2>5. recorded[e] \in Nat /\ recorded'[e] = recorded[e] + got
    BY <1>9
  <2>6. /\ come \in Nat /\ gone \in Nat /\ got \in Nat /\ many \in Nat /\ come + got <= gone
        /\ Elsewhere(e) = recorded[e] + many /\ Elsewhere(e)' = recorded'[e] + many
    BY <2>2, <2>3, <2>4
  <2> HIDE DEF got, come, gone, many
  <2>7. come + (recorded[e] + got + many) + Faults <= gone + (recorded[e] + many) + Faults
    BY <1>12, <2>5, <2>6
  <2>8. come + Elsewhere(e)' + Faults <= gone + Elsewhere(e) + Faults'
    BY <1>12, <2>5, <2>6, <2>7
  <2> QED BY <2>8 DEF come, gone
<1> QED BY <1>5, <1>7, <1>10, <1>11, <1>12, <1>13, CopyStep

\* Where nothing is recorded only requests and the stored copy count.
LEMMA NothingRecorded ==
    ASSUME Inv, Inv', NEW e \in Error, UNCHANGED recorded, Faults' \in Nat,
           NEW come \in Nat, NEW gone \in Nat,
           come + Cardinality(Carriers(wire', e)) + Bit(Rests(e))' + Faults
              <= gone + Cardinality(Carriers(wire, e)) + Bit(Rests(e)) + Faults'
    PROVE  come + Elsewhere(e)' + Faults <= gone + Elsewhere(e) + Faults'
<1> DEFINE many == Cardinality(Carriers(wire, e))
           many2 == Cardinality(Carriers(wire', e))
           kept == Bit(Rests(e))
           kept2 == Bit(Rests(e))'
           rest == Elsewhere(e)
           rest2 == Elsewhere(e)'
           n == recorded[e]
           f == Faults
           f2 == Faults'
<1>1. many \in Nat /\ many2 \in Nat
  BY CarriersTyped DEF Inv, TypeOK
<1>2. kept \in Nat /\ kept2 \in Nat /\ n \in Nat /\ f \in Nat /\ f2 \in Nat
  BY FaultsTyped DEF Bit, Inv, TypeOK
<1>3. rest = n + many + kept /\ rest2 = n + many2 + kept2
  BY DEF Elsewhere, Carriers
<1>4. come + many2 + kept2 + f <= gone + many + kept + f2
  OBVIOUS
<1> HIDE DEF many, many2, kept, kept2, rest, rest2, n, f, f2
<1>5. come + rest2 + f <= gone + rest + f2
  BY <1>1, <1>2, <1>3, <1>4
<1> QED BY <1>5 DEF rest, rest2, f, f2

LEMMA WireKept ==
    ASSUME CopyInv, UNCHANGED wire, UNCHANGED accepted
    PROVE  WireRuns(wire', accepted')
BY DEF CopyInv, Runs, WireRuns

LEMMA RunsAgain ==
    ASSUME CopyInv, RunOf(stored', accepted'), WireRuns(wire', accepted'), UNCHANGED <<recorded, accepted>>
    PROVE  Runs'
BY RunsAfter DEF CopyInv, Runs

LEMMA CopyAnswer ==
    ASSUME Inv, Inv', HonestInv, CopyInv, NEW t \in Tabs, Answer(t)
    PROVE  CopyInv'
<1> DEFINE page == tab[t]
           rest == Behind(page)
           p == [page EXCEPT !.queue = rest, !.batch = <<>>, !.reply = None,
                             !.timer = @ \/ rest # <<>>, !.waiting = Released(page)]
<1>1. /\ page \in Page /\ Shape(page, accepted) /\ page.queue \in Seq(Error)
      /\ Len(page.queue) \in Nat /\ Len(page.batch) \in Nat
      /\ ~page.up => page.batch = <<>>
  BY CopyFacts
<1>2. /\ page.batch # <<>> /\ page.reply # None /\ Becomes(t, p) /\ Stores(rest)
      /\ UNCHANGED <<wire, accepted, recorded, mishaps>> /\ page.up
  BY <1>1 DEF Answer
<1>3. /\ p.queue = rest /\ p.batch = <<>> /\ p.reply = None /\ p.up
  BY <1>1, <1>2 DEF Page
<1>4. /\ RunOf(rest, accepted) /\ Elements(rest) \subseteq Elements(page.queue)
      /\ \A e \in Elements(rest) : \E j \in Len(page.batch) + 1 .. Len(page.queue) : page.queue[j] = e
      /\ rest \in Seq(Error)
  <2>1. RunOf(page.queue, accepted) /\ Len(page.batch) + 1 \in Nat \ {0}
    BY <1>1 DEF Shape
  <2>2. rest = SubSeq(page.queue, Len(page.batch) + 1, Len(page.queue))
    BY DEF Behind
  <2> DEFINE queue == page.queue
             m == Len(page.batch) + 1
  <2>3. queue \in Seq(Error) /\ RunOf(queue, accepted) /\ m \in Nat \ {0}
    BY <1>1, <2>1
  <2> HIDE DEF page, rest, queue, m
  <2>4. SubSeq(queue, m, Len(queue)) \in Seq(Error)
    BY <2>3, TailOf
  <2>5. LET r == SubSeq(queue, m, Len(queue)) IN
        /\ RunOf(r, accepted) /\ Elements(r) \subseteq Elements(queue)
        /\ \A e \in Elements(r) : \E j \in m .. Len(queue) : queue[j] = e
    BY <2>3, RestOfRun
  <2>6. rest = SubSeq(queue, m, Len(queue))
    BY <2>2 DEF queue, m
  <2> QED BY <2>4, <2>5, <2>6 DEF queue, m
<1>5. \A e \in Elements(rest) : e \notin Elements(page.batch)
  <2> SUFFICES ASSUME NEW e \in Elements(rest), e \in Elements(page.batch) PROVE FALSE
    OBVIOUS
  <2>1. PICK j \in Len(page.batch) + 1 .. Len(page.queue) : page.queue[j] = e
    BY <1>4
  <2>2. j \in 1 .. Len(page.queue)
    BY <1>1, <2>1
  <2>3. j <= Len(page.batch)
    BY <1>1, <2>1, <2>2 DEF Shape
  <2> QED BY <1>1, <2>1, <2>3
<1> HIDE DEF p, rest
<1>6. Elements(<<>>) = {} /\ RunOf(<<>>, accepted)
  BY NoRun DEF Elements
<1>7. Shape(p, accepted')
  BY <1>2, <1>3, <1>4, <1>6 DEF Shape
<1>8. Runs'
  <2>1. RunOf(stored', accepted')
    BY <1>2, <1>4, PersistedRun DEF Stores, CopyInv, Runs
  <2> QED BY <1>2, <2>1, WireKept, RunsAgain
<1>9. Faults \in Nat /\ Faults' \in Nat /\ Faults <= Faults'
  BY <1>2, FaultsAfterWrite DEF Stores
<1>10. ASSUME NEW e \in Error
       PROVE  Bit(Holds(p, e)) + Elsewhere(e)' + Faults
                <= Bit(Holds(tab[t], e)) + Elsewhere(e) + Faults'
  <2>1. Bit(Rests(e)) = 0 /\ Bit(Rests(e))' = 0
    BY <1>2, <1>3, UpFacts, UpAfter
  <2>2. Holds(p, e) => Holds(tab[t], e)
    BY <1>3, <1>4, <1>5, <1>6 DEF Holds
  <2>3. /\ Bit(Holds(p, e)) \in Nat /\ Bit(Holds(tab[t], e)) \in Nat
        /\ Bit(Holds(p, e)) <= Bit(Holds(tab[t], e))
    BY <2>2 DEF Bit
  <2>4. Cardinality(Carriers(wire, e)) \in Nat /\ wire' = wire
    BY <1>2, ElsewhereTyped
  <2> QED BY <1>2, <1>9, <2>1, <2>3, <2>4, NothingRecorded
<1> QED BY <1>2, <1>7, <1>8, <1>9, <1>10, CopyStep

LEMMA CopyNoAnswer ==
    ASSUME Inv, Inv', HonestInv, CopyInv, NEW t \in Tabs, NoAnswer(t)
    PROVE  CopyInv'
<1> DEFINE page == tab[t]
           p == [page EXCEPT !.batch = <<>>, !.reply = None,
                             !.timer = TRUE, !.waiting = Released(page)]
<1>1. /\ page \in Page /\ Shape(page, accepted) /\ page.batch \in Seq(Error)
      /\ ~page.up => page.batch = <<>>
  BY CopyFacts
<1>2. /\ page.batch # <<>> /\ Becomes(t, p) /\ wire' \in Abandoned(page, wire) /\ Happens("unanswered")
      /\ UNCHANGED <<stored, unstored, accepted, recorded>> /\ page.up
  BY <1>1 DEF NoAnswer, server, storage
<1>3. /\ p.queue = page.queue /\ p.batch = <<>> /\ p.reply = None /\ p.up
  BY <1>1, <1>2 DEF Page
<1> HIDE DEF p
<1>4. /\ WireRuns(wire', accepted)
      /\ \A e : /\ Cardinality(Carriers(wire, e)) \in Nat /\ Cardinality(Carriers(wire', e)) \in Nat
                /\ Cardinality(Carriers(wire', e))
                     <= Cardinality(Carriers(wire, e)) + Bit(e \in Elements(page.batch) /\ page.reply = None)
  <2>1. wire \in Seq(Seq(Error)) /\ WireRuns(wire, accepted) /\ RunOf(page.batch, accepted)
    BY <1>1 DEF Inv, TypeOK, CopyInv, Runs, Shape
  <2> HIDE DEF page
  <2> QED BY <1>1, <1>2, <2>1, AbandonedRuns
<1>5. Elements(<<>>) = {} /\ RunOf(<<>>, accepted)
  BY NoRun DEF Elements
<1>6. Shape(p, accepted')
  BY <1>1, <1>2, <1>3, <1>5 DEF Shape
<1>7. Runs'
  BY <1>2, <1>4, RunsAgain DEF CopyInv, Runs
<1>8. Faults' = Faults + 1 /\ Faults \in Nat /\ Faults' \in Nat
  BY <1>2, FaultsTyped, HappensCounts DEF Mishap
<1>9. ASSUME NEW e \in Error
      PROVE  Bit(Holds(p, e)) + Elsewhere(e)' + Faults
                <= Bit(Holds(tab[t], e)) + Elsewhere(e) + Faults'
  <2>1. Bit(Rests(e)) = 0 /\ Bit(Rests(e))' = 0
    BY <1>2, <1>3, UpFacts, UpAfter
  <2> DEFINE come == Bit(Holds(p, e))
             gone == Bit(Holds(tab[t], e))
             sent == Bit(e \in Elements(page.batch) /\ page.reply = None)
             many == Cardinality(Carriers(wire, e))
             many2 == Cardinality(Carriers(wire', e))
  <2>2. come \in Nat /\ gone \in Nat /\ sent \in Nat /\ come + sent <= gone + 1
    <3>1. (e \in Elements(page.batch) /\ page.reply = None) => Holds(tab[t], e)
      BY DEF Holds
    <3> QED BY <3>1 DEF Bit
  <2>3. many \in Nat /\ many2 \in Nat /\ many2 <= many + sent
    BY <1>4
  <2> HIDE DEF come, gone, sent, many, many2
  <2>4. come + many2 + Bit(Rests(e))' + Faults <= gone + many + Bit(Rests(e)) + Faults'
    BY <1>8, <2>1, <2>2, <2>3
  <2> QED BY <1>2, <1>8, <2>2, <2>4, NothingRecorded DEF come, gone, many, many2
<1> QED BY <1>2, <1>6, <1>7, <1>8, <1>9, CopyStep

LEMMA CopyLoad ==
    ASSUME Inv, Inv', HonestInv, CopyInv, NEW t \in Tabs, Load(t)
    PROVE  CopyInv'
<1> DEFINE q == First(MaxQueue, stored)
           p == [NoPage EXCEPT !.up = TRUE, !.queue = q, !.timer = (q # <<>>)]
<1>1. /\ ~tab[t].up /\ Becomes(t, p) /\ stored' = <<>>
      /\ UNCHANGED <<unstored, wire, accepted, recorded>>
  BY DEF Load, server
<1>2. /\ p.queue = q /\ p.batch = <<>> /\ p.reply = None /\ p.up
  BY DEF NoPage
<1>3. RunOf(q, accepted) /\ Elements(q) \subseteq Elements(stored) /\ q \in Seq(Error)
  <2>1. stored \in Seq(Error) /\ MaxQueue \in Nat /\ RunOf(stored, accepted)
    BY SizesAssumption DEF Inv, TypeOK, CopyInv, Runs
  <2> QED BY <2>1, FirstOfRun, FirstIsPrefix
<1>4. Elements(<<>>) = {} /\ RunOf(<<>>, accepted)
  BY NoRun DEF Elements
<1>5. /\ Faults' \in Nat /\ Faults \in Nat /\ Faults <= Faults'
      /\ q # <<>> /\ ~NobodyUp => Faults' = Faults + 1
  <2>1. CASE q # <<>> /\ \E u \in Tabs : tab[u].up
    <3>1. Happens("shared")
      BY <2>1 DEF Load
    <3> QED BY <1>1, <3>1, FaultsTyped, HappensCounts DEF Mishap
  <2>2. CASE ~(q # <<>> /\ \E u \in Tabs : tab[u].up)
    <3>1. UNCHANGED mishaps
      BY <2>2 DEF Load
    <3> QED BY <1>1, <2>2, <3>1, FaultsTyped DEF Faults, Blame, NobodyUp
  <2> QED BY <2>1, <2>2
<1> HIDE DEF p, q
<1>6. Shape(p, accepted')
  BY <1>1, <1>2, <1>3, <1>4 DEF Shape
<1>7. Runs'
  BY <1>1, <1>4, WireKept, RunsAgain
<1>8. ASSUME NEW e \in Error
      PROVE  Bit(Holds(p, e)) + Elsewhere(e)' + Faults
                <= Bit(Holds(tab[t], e)) + Elsewhere(e) + Faults'
  <2>1. Bit(Rests(e))' = 0
    BY <1>1, <1>2, UpAfter
  <2> DEFINE come == Bit(Holds(p, e))
             gone == Bit(Holds(tab[t], e))
             kept == Bit(Rests(e))
             many == Cardinality(Carriers(wire, e))
             f == Faults
             f2 == Faults'
  <2>2. Holds(p, e) <=> e \in Elements(q)
    BY <1>2, <1>4 DEF Holds
  <2>3. Holds(p, e) => q # <<>> /\ e \in Elements(stored)
    BY <1>3, <1>4, <2>2
  <2>4. come \in Nat /\ gone \in Nat /\ kept \in Nat /\ come + f <= kept + f2
    <3>1. come \in {0, 1} /\ kept \in {0, 1} /\ gone \in {0, 1} /\ (come = 1 => Holds(p, e))
          /\ (Rests(e) => kept = 1)
      BY DEF Bit
    <3>2. come = 1 => kept = 1 \/ Faults' = Faults + 1
      BY <1>5, <2>3, <3>1 DEF Rests
    <3>3. f \in Nat /\ f2 \in Nat /\ f <= f2 /\ (come = 1 => kept = 1 \/ f2 = f + 1)
      BY <1>5, <3>2
    <3> HIDE DEF come, kept, gone, f, f2
    <3> QED BY <3>1, <3>3
  <2>5. many \in Nat /\ wire' = wire
    BY <1>1, ElsewhereTyped
  <2>6. f \in Nat /\ f2 \in Nat
    BY <1>5
  <2> HIDE DEF come, gone, kept, many, f, f2
  <2>7. come + many + 0 + f <= gone + many + kept + f2
    BY <2>4, <2>5, <2>6
  <2> QED BY <1>1, <1>5, <2>1, <2>4, <2>5, <2>7, NothingRecorded DEF come, gone, kept, many, f, f2
<1> QED BY <1>1, <1>5, <1>6, <1>7, <1>8, CopyStep

LEMMA CopyHide ==
    ASSUME Inv, Inv', HonestInv, CopyInv, NEW t \in Tabs, Hide(t)
    PROVE  CopyInv'
<1> DEFINE page == tab[t]
<1>1. /\ page \in Page /\ Shape(page, accepted) /\ page.queue \in Seq(Error)
      /\ wire \in Seq(Seq(Error)) /\ WireRuns(wire, accepted) /\ tab \in [Tabs -> Page]
  BY CopyFacts DEF Inv, TypeOK, CopyInv, Runs
<1>2. /\ page.up /\ UNCHANGED <<accepted, recorded>> /\ (BeaconTaken(t) \/ BeaconRefused(t))
      /\ Happens(IF page.batch = <<>> THEN "hidden" ELSE "overtaken")
  BY DEF Hide, server
<1>3. /\ Faults \in Nat /\ Faults' \in Nat /\ Faults <= Faults'
      /\ page.batch # <<>> => Faults + 1 <= Faults'
  <2>1. unstored \in Nat /\ unstored' \in Nat /\ unstored <= unstored'
    BY <1>2, BeaconWrites
  <2>2. CASE page.batch = <<>>
    BY <1>2, <2>1, <2>2, FaultsOfMishap DEF Mishap
  <2>3. CASE page.batch # <<>>
    BY <1>2, <2>1, <2>3, FaultsOfMishap DEF Mishap
  <2> QED BY <2>2, <2>3
<1>4. Elements(<<>>) = {} /\ RunOf(<<>>, accepted) /\ Len(<<>>) = 0
  BY NoRun DEF Elements
<1>5. CASE BeaconTaken(t) /\ Becomes(t, [page EXCEPT !.queue = <<>>]) /\ wire' = Append(wire, page.queue)
  <2> DEFINE p == [page EXCEPT !.queue = <<>>]
  <2>1. p.queue = <<>> /\ p.batch = page.batch /\ p.reply = page.reply /\ p.up
    BY <1>1, <1>2 DEF Page
  <2>2. Becomes(t, p) /\ RunOf(stored', accepted)
    BY <1>4, <1>5, BeaconWrites DEF CopyInv, Runs
  <2> HIDE DEF p
  <2>3. Shape(p, accepted')
    BY <1>1, <1>2, <1>4, <2>1 DEF Shape
  <2>4. Runs'
    <3>1. RunOf(page.queue, accepted)
      BY <1>1 DEF Shape
    <3> HIDE DEF page
    <3>2. WireRuns(wire', accepted')
      BY <1>1, <1>2, <1>5, <3>1, WireAppended
    <3> QED BY <1>2, <1>4, <2>2, <3>2, RunsAgain
  <2>5. ASSUME NEW e \in Error
        PROVE  Bit(Holds(p, e)) + Elsewhere(e)' + Faults
                  <= Bit(Holds(tab[t], e)) + Elsewhere(e) + Faults'
    <3>1. Bit(Rests(e)) = 0 /\ Bit(Rests(e))' = 0
      BY <1>2, <2>1, <2>2, UpFacts, UpAfter
    <3> DEFINE come == Bit(Holds(p, e))
               gone == Bit(Holds(tab[t], e))
               sent == Bit(e \in Elements(page.queue))
               many == Cardinality(Carriers(wire, e))
               many2 == Cardinality(Carriers(wire', e))
    <3>2. /\ come \in Nat /\ gone \in Nat /\ sent \in Nat /\ come <= gone /\ sent <= 1
          /\ page.batch = <<>> => come + sent <= gone
      <4>1. Holds(p, e) => Holds(tab[t], e)
        BY <1>4, <2>1 DEF Holds
      <4>2. page.batch = <<>> => ~Holds(p, e) /\ (Holds(tab[t], e) <=> e \in Elements(page.queue))
        BY <1>4, <2>1 DEF Holds
      <4> QED BY <4>1, <4>2 DEF Bit
    <3>3. many2 = many + sent
      <4> HIDE DEF page
      <4> QED BY <1>1, <1>5, CarrierAdded
    <3>4. many \in Nat
      BY ElsewhereTyped
    <3> HIDE DEF come, gone, sent, many, many2
    <3>5. come + many2 + Bit(Rests(e))' + Faults <= gone + many + Bit(Rests(e)) + Faults'
      <4>1. /\ Faults \in Nat /\ Faults' \in Nat /\ Faults <= Faults' /\ many2 \in Nat
            /\ come + sent <= gone \/ Faults + 1 <= Faults'
        BY <1>3, <3>2, <3>3, <3>4
      <4>2. \A c, g, m, x, f, h \in Nat : c <= g /\ x <= 1 /\ f <= h /\ (c + x <= g \/ f + 1 <= h)
                => c + (m + x) + 0 + f <= g + m + 0 + h
        OBVIOUS
      <4>3. come + (many + sent) + 0 + Faults <= gone + many + 0 + Faults'
        BY <3>2, <3>4, <4>1, <4>2
      <4> QED BY <3>1, <3>3, <4>3
    <3> QED BY <1>2, <1>3, <3>2, <3>5, NothingRecorded DEF come, gone, many, many2
  <2> QED BY <1>2, <1>3, <2>2, <2>3, <2>4, <2>5, CopyStep
<1>6. CASE BeaconRefused(t) /\ UNCHANGED <<tab, wire>>
  <2>1. Becomes(t, page)
    BY <1>1, <1>6 DEF Becomes
  <2>2. Runs'
    <3>1. RunOf(stored, accepted) /\ RunOf(page.queue, accepted)
      BY <1>1 DEF CopyInv, Runs, Shape
    <3>2. stored' = stored \/ stored' = Persisted(page.queue)
      BY <1>6, BeaconWrites
    <3> HIDE DEF page
    <3>3. RunOf(stored', accepted')
      BY <1>1, <1>2, <3>1, <3>2, PersistedRun
    <3> QED BY <1>2, <1>6, <3>3, WireKept, RunsAgain
  <2>3. ASSUME NEW e \in Error
        PROVE  Bit(Holds(page, e)) + Elsewhere(e)' + Faults
                  <= Bit(Holds(tab[t], e)) + Elsewhere(e) + Faults'
    <3>1. Bit(Rests(e)) = 0 /\ Bit(Rests(e))' = 0
      BY <1>2, <2>1, UpFacts, UpAfter
    <3>2. Cardinality(Carriers(wire, e)) \in Nat /\ wire' = wire
      BY <1>6, ElsewhereTyped
    <3>3. Bit(Holds(page, e)) \in Nat
      BY DEF Bit
    <3> HIDE DEF page
    <3> QED BY <1>2, <1>3, <3>1, <3>2, <3>3, NothingRecorded DEF page
  <2>4. Shape(page, accepted')
    BY <1>1, <1>2
  <2> QED BY <1>2, <1>3, <2>1, <2>2, <2>3, <2>4, CopyStep
<1> QED BY <1>5, <1>6 DEF Hide

\* What becomes of the copies of a page that ends.
LEMMA EndedPage ==
    ASSUME Inv, HonestInv, CopyInv, NEW t \in Tabs, tab[t].up, Close(t) \/ Crash(t), NEW e
    PROVE  /\ WireRuns(wire', accepted) /\ RunOf(stored', accepted)
           /\ Cardinality(Carriers(wire, e)) \in Nat /\ Cardinality(Carriers(wire', e)) \in Nat
           /\ unstored \in Nat /\ unstored' \in Nat
           /\ Cardinality(Carriers(wire', e)) + Bit(Rests(e))' + unstored
                <= Cardinality(Carriers(wire, e)) + Bit(Holds(tab[t], e)) + 1 + unstored'
<1> DEFINE page == tab[t]
           sent == Bit(e \in Elements(page.batch) /\ page.reply = None)
           rest == Bit(Rests(e))'
           held == Bit(Holds(page, e))
           left == Bit(e \in Elements(page.queue))
<1>1. /\ page \in Page /\ RunOf(page.queue, accepted) /\ page.queue \in Seq(Error)
      /\ page.batch \in Seq(Error) /\ RunOf(page.batch, accepted)
      /\ wire \in Seq(Seq(Error)) /\ WireRuns(wire, accepted) /\ RunOf(stored, accepted)
  BY CopyFacts DEF Inv, TypeOK, CopyInv, Runs, Shape
<1>2. /\ sent \in Nat /\ held \in Nat /\ left \in Nat /\ left <= 1 /\ sent <= held
      /\ rest \in Nat /\ rest <= 1
  BY DEF Bit, Holds
<1>0. unstored \in Nat /\ unstored' \in Nat /\ unstored <= unstored'
  <2>1. unstored \in Nat
    BY DEF Inv, TypeOK
  <2>2. CASE Close(t)
    BY <2>2, BeaconWrites DEF Close
  <2>3. CASE Crash(t)
    BY <2>1, <2>3 DEF Crash, storage
  <2> QED BY <2>1, <2>2, <2>3
<1>3. CASE BeaconTaken(t) /\ wire' \in Abandoned(page, Append(wire, page.queue))
  <2>1. \/ stored' = <<>> /\ rest = 0
        \/ stored' = stored /\ unstored' = unstored + 1
    <3>1. stored' = <<>> => rest = 0
      BY DEF Rests, Bit, Elements
    <3> QED BY <1>3, <3>1, BeaconWrites
  <2>2. RunOf(stored', accepted)
    BY <1>1, <2>1, NoRun
  <2> DEFINE u == Append(wire, page.queue)
             many == Cardinality(Carriers(wire, e))
             many1 == Cardinality(Carriers(u, e))
             many2 == Cardinality(Carriers(wire', e))
  <2> HIDE DEF page
  <2>3. u \in Seq(Seq(Error)) /\ WireRuns(u, accepted) /\ many1 = many + left
    BY <1>1, WireAppended, CarrierAdded, AppendProperties
  <2> HIDE DEF u
  <2>4. WireRuns(wire', accepted) /\ many1 \in Nat /\ many2 \in Nat /\ many2 <= many1 + sent
    BY <1>1, <1>3, <2>3, AbandonedRuns DEF u
  <2>5. many \in Nat
    BY <1>1, CarriersTyped
  <2> HIDE DEF sent, rest, held, left, many, many1, many2
  <2>6. many2 + rest + unstored <= many + held + 1 + unstored'
    <3>1. rest + unstored <= unstored'
      BY <1>0, <1>2, <2>1
    <3>3. many2 <= many + held + 1
      BY <1>2, <2>3, <2>4, <2>5
    <3>4. \A a, b, c, h, x, y \in Nat : b + x <= y /\ a <= c + h + 1 => a + b + x <= c + h + 1 + y
      OBVIOUS
    <3> QED BY <1>0, <1>2, <2>4, <2>5, <3>1, <3>3, <3>4
  <2> QED BY <1>0, <2>2, <2>4, <2>5, <2>6 DEF page, rest, held, many, many2
<1>4. CASE (stored' = stored \/ stored' = Persisted(page.queue)) /\ wire' \in Abandoned(page, wire)
  <2> DEFINE many == Cardinality(Carriers(wire, e))
             many2 == Cardinality(Carriers(wire', e))
  <2> HIDE DEF page
  <2>1. RunOf(stored', accepted)
    BY <1>1, <1>4, PersistedRun
  <2>2. WireRuns(wire', accepted) /\ many \in Nat /\ many2 \in Nat /\ many2 <= many + sent
    BY <1>1, <1>4, AbandonedRuns
  <2> HIDE DEF sent, rest, held, left, many, many2
  <2>3. many2 + rest + unstored <= many + held + 1 + unstored'
    <3>1. many2 + rest <= many + held + 1
      BY <1>2, <2>2
    <3>2. \A a, b, c, h, u, v \in Nat : u <= v /\ a + b <= c + h + 1 => a + b + u <= c + h + 1 + v
      OBVIOUS
    <3> QED BY <1>0, <1>2, <2>2, <3>1, <3>2
  <2> QED BY <1>0, <2>1, <2>2, <2>3 DEF page, rest, held, many, many2
<1>5. (BeaconTaken(t) /\ wire' \in Abandoned(page, Append(wire, page.queue)))
      \/ ((stored' = stored \/ stored' = Persisted(page.queue)) /\ wire' \in Abandoned(page, wire))
  BY BeaconWrites DEF Close, Crash, storage
<1> QED BY <1>3, <1>4, <1>5

LEMMA CopyEnds ==
    ASSUME Inv, Inv', HonestInv, CopyInv, NEW t \in Tabs, Close(t) \/ Crash(t)
    PROVE  CopyInv'
<1>1. /\ tab[t].up /\ Becomes(t, NoPage) /\ UNCHANGED <<accepted, recorded>>
      /\ Happens("closed") \/ Happens("crashed")
  BY DEF Close, Crash, server
<1>2. /\ Faults + 1 + unstored' = Faults' + unstored
      /\ unstored \in Nat /\ unstored' \in Nat /\ unstored <= unstored'
      /\ Faults \in Nat /\ Faults' \in Nat /\ Faults <= Faults'
  <2>1. unstored \in Nat /\ unstored' \in Nat /\ unstored <= unstored'
    <3>1. CASE Close(t)
      BY <3>1, BeaconWrites DEF Close
    <3>2. CASE Crash(t)
      BY <3>2, FaultsTyped DEF Crash, storage
    <3> QED BY <3>1, <3>2
  <2> QED BY <1>1, <2>1, FaultsOfMishap DEF Mishap
<1>3. /\ NoPage.queue = <<>> /\ NoPage.batch = <<>> /\ NoPage.reply = None /\ Elements(<<>>) = {}
      /\ Len(<<>>) = 0
  BY DEF NoPage, Elements
<1>4. Shape(NoPage, accepted')
  BY <1>3, NoRun DEF Shape
<1>5. ASSUME NEW e \in Error
      PROVE  /\ WireRuns(wire', accepted) /\ RunOf(stored', accepted)
             /\ Bit(Holds(NoPage, e)) + Elsewhere(e)' + Faults
                  <= Bit(Holds(tab[t], e)) + Elsewhere(e) + Faults'
  <2> DEFINE come == Bit(Holds(NoPage, e))
             held == Bit(Holds(tab[t], e))
             rest == Bit(Rests(e))'
             many == Cardinality(Carriers(wire, e))
             many2 == Cardinality(Carriers(wire', e))
  <2>1. /\ WireRuns(wire', accepted) /\ RunOf(stored', accepted)
        /\ many \in Nat /\ many2 \in Nat
        /\ many2 + rest + unstored <= many + held + 1 + unstored'
    BY <1>1, EndedPage
  <2>2. come = 0
    BY <1>3 DEF Holds, Bit
  <2>3. Bit(Rests(e)) = 0 /\ held \in Nat /\ rest \in Nat
    BY <1>1, UpFacts DEF Bit
  <2> HIDE DEF come, held, rest, many, many2
  <2>4. come + many2 + rest + Faults <= held + many + Bit(Rests(e)) + Faults'
    <3>1. \A a, b, c, d, u, v, f, g \in Nat :
            a + b + u <= c + d + 1 + v /\ f + 1 + v = g + u => 0 + a + b + f <= d + c + 0 + g
      OBVIOUS
    <3>2. 0 + many2 + rest + Faults <= held + many + 0 + Faults'
      BY <1>2, <2>1, <2>3, <3>1
    <3> QED BY <2>2, <2>3, <3>2
  <2>5. come \in Nat /\ held \in Nat
    BY <2>2, <2>3
  <2> QED BY <1>1, <1>2, <2>1, <2>4, <2>5, NothingRecorded DEF come, held, rest, many, many2
<1>6. Runs'
  <2>1. WireRuns(wire', accepted) /\ RunOf(stored', accepted)
    BY <1>1, EndedPage
  <2> QED BY <1>1, <2>1, RunsAgain
<1> QED BY <1>1, <1>2, <1>4, <1>5, <1>6, CopyStep

LEMMA CopyWire ==
    ASSUME Inv, Inv', CopyInv, ServeWire \/ LoseWire
    PROVE  CopyInv'
<1>0. PICK i \in DOMAIN wire :
          /\ wire' = RemoveAt(wire, i)
          /\ UNCHANGED <<tab, stored, unstored>>
          /\ \E ok : Record(wire[i], InFull(wire[i]), ok)
          /\ UNCHANGED mishaps \/ Happens("lost")
  BY DEF ServeWire, LoseWire, storage
<1> DEFINE n == InFull(wire[i])
<1>1. PICK ok :
          /\ wire' = RemoveAt(wire, i)
          /\ UNCHANGED <<tab, stored, unstored>>
          /\ Record(wire[i], n, ok)
          /\ UNCHANGED mishaps \/ Happens("lost")
  BY <1>0
<1>2. /\ wire \in Seq(Seq(Error)) /\ WireRuns(wire, accepted)
      /\ accepted' = accepted
  BY <1>1 DEF Inv, TypeOK, CopyInv, Runs, Record
<1>3. /\ i \in 1 .. Len(wire) /\ Len(wire) \in Nat /\ Len(wire') = Len(wire) - 1
      /\ \A j \in 1 .. Len(wire) - 1 : wire'[j] = IF j < i THEN wire[j] ELSE wire[j + 1]
  BY <1>1, <1>2, RemovedOne
<1>4. wire[i] \in Seq(Error) /\ RunOf(wire[i], accepted)
  BY <1>2, <1>3, ElementOfSeq DEF WireRuns
<1>5. n \in Nat /\ n <= Len(wire[i]) /\ DOMAIN wire[i] = 1 .. Len(wire[i])
  BY <1>4, LenProperties, SizesAssumption DEF InFull, Smaller
<1> HIDE DEF n
<1>6. RecordedOf(wire[i], n, ok) \subseteq Elements(wire[i])
  BY <1>5 DEF RecordedOf, Elements
<1>7. \A e \in Error : recorded[e] \in Nat /\ recorded'[e] = recorded[e] + Bit(e \in RecordedOf(wire[i], n, ok))
  BY <1>1 DEF Record, Inv, TypeOK, Bit
<1>8. Runs'
  <2>1. WireRuns(wire', accepted)
    <3> SUFFICES ASSUME NEW j \in 1 .. Len(wire) - 1 PROVE RunOf(wire'[j], accepted)
      BY <1>3 DEF WireRuns
    <3>1. j \in 1 .. Len(wire) /\ (~(j < i) => j + 1 \in 1 .. Len(wire))
      BY <1>3
    <3> HIDE DEF RunOf
    <3> QED BY <1>2, <1>3, <3>1 DEF WireRuns
  <2>2. \A e \in Error : recorded'[e] > 0 => e \in accepted
    <3> SUFFICES ASSUME NEW e \in Error, recorded'[e] > 0, e \notin accepted PROVE FALSE
      OBVIOUS
    <3>1. e \notin RecordedOf(wire[i], n, ok)
      BY <1>4, <1>6 DEF RunOf
    <3>2. recorded'[e] = recorded[e]
      BY <1>7, <3>1 DEF Bit
    <3> QED BY <3>2 DEF CopyInv, Runs
  <2>3. RunOf(stored', accepted')
    BY <1>1, <1>2 DEF CopyInv, Runs
  <2> QED BY <1>2, <2>1, <2>2, <2>3, RunsAfter
<1>9. Faults' = Faults /\ Faults \in Nat
  <2>1. CASE UNCHANGED mishaps
    BY <1>1, <2>1, FaultsTyped DEF Faults, Blame
  <2>2. CASE Happens("lost")
    BY <1>1, <2>2, FaultsTyped, HappensCounts DEF Mishap
  <2> QED BY <1>1, <2>1, <2>2
<1>10. ASSUME NEW e \in Error PROVE Tally(e)' <= 1 + Faults'
  <2> DEFINE got == Bit(e \in RecordedOf(wire[i], n, ok))
             took == Bit(e \in Elements(wire[i]))
             many == Cardinality(Carriers(wire, e))
             many2 == Cardinality(Carriers(wire', e))
             pages == Cardinality(Holders(e))
             rest == Bit(Rests(e))
  <2>1. got \in Nat /\ took \in Nat /\ rest \in Nat /\ got <= took
    BY <1>6 DEF Bit
  <2>2. many2 + took = many
    BY <1>1, <1>2, CarrierTaken
  <2>3. many \in Nat /\ many2 \in Nat
    BY CarriersTyped DEF Inv, TypeOK
  <2>4. pages \in Nat
    <3>1. IsFiniteSet(Holders(e))
      BY TabsAssumption, FS_Subset DEF Holders
    <3> QED BY <3>1, FS_CardinalityType
  <2>5. recorded[e] + pages + many + rest <= 1 + Faults
    BY DEF CopyInv, Counted, Tally
  <2>6. Tally(e)' = recorded'[e] + pages + many2 + rest
    BY <1>1 DEF Tally, Holders, Holds, Carriers, Rests, NobodyUp
  <2>7. recorded[e] \in Nat /\ recorded'[e] = recorded[e] + got
    BY <1>7
  <2> DEFINE n1 == recorded[e]
             n2 == recorded'[e]
             faults == Faults
  <2>8. /\ n1 \in Nat /\ n2 = n1 + got /\ faults \in Nat
        /\ n1 + pages + many + rest <= 1 + faults
    BY <1>9, <2>5, <2>7
  <2>9. Tally(e)' = n2 + pages + many2 + rest /\ Faults' = faults
    BY <1>9, <2>6
  <2> HIDE DEF got, took, many, many2, pages, rest, n1, n2, faults
  <2>10. n2 + pages + many2 + rest <= 1 + faults
    BY <2>1, <2>2, <2>3, <2>4, <2>8
  <2> QED BY <2>9, <2>10
<1>11. ASSUME NEW t \in Tabs PROVE Shape(tab[t], accepted)'
  <2>1. tab' = tab /\ accepted' = accepted /\ Shape(tab[t], accepted)
    BY <1>1, <1>2 DEF CopyInv
  <2> QED BY <2>1 DEF Shape, RunOf, Once, Elements
<1> QED BY <1>8, <1>10, <1>11 DEF CopyInv, Counted

LEMMA CopyInit == Init => CopyInv
<1> SUFFICES ASSUME Init PROVE CopyInv
  OBVIOUS
<1>1. /\ \A t \in Tabs : tab[t] = NoPage
      /\ stored = <<>> /\ wire = <<>> /\ \A e \in Error : recorded[e] = 0
      /\ Len(<<>>) = 0 /\ Elements(<<>>) = {}
  BY DEF Init, Elements
<1>2. /\ NoPage.queue = <<>> /\ NoPage.batch = <<>> /\ NoPage.reply = None
  BY DEF NoPage
<1>3. Runs
  BY <1>1, NoRun DEF Runs, WireRuns
<1>4. \A t \in Tabs : Shape(tab[t], accepted)
  BY <1>1, <1>2, NoRun DEF Shape
<1>5. Faults = 0
  BY DEF Init, Faults, Blame, Mishap
<1>6. ASSUME NEW e \in Error PROVE Tally(e) = 0
  <2>1. Holders(e) = {} /\ Carriers(wire, e) = {} /\ ~Rests(e)
    BY <1>1, <1>2 DEF Holders, Holds, Carriers, Rests
  <2>2. Cardinality({}) = 0
    BY FS_EmptySet
  <2>3. Cardinality(Holders(e)) = 0 /\ Cardinality(Carriers(wire, e)) = 0
    BY <2>1, <2>2
  <2>4. Bit(Rests(e)) = 0
    BY <2>1 DEF Bit
  <2> QED BY <1>1, <2>3, <2>4 DEF Tally
<1> QED BY <1>3, <1>4, <1>5, <1>6 DEF CopyInv, Counted

LEMMA CopyNext == Inv /\ Inv' /\ HonestInv /\ CopyInv /\ [Next]_vars => CopyInv'
<1> SUFFICES ASSUME Inv, Inv', HonestInv, CopyInv, [Next]_vars PROVE CopyInv'
  OBVIOUS
<1>1. ASSUME NEW t \in Tabs, Report(t) PROVE CopyInv'
  BY <1>1, CopyReport
<1>2. ASSUME NEW t \in Tabs, ReportIgnored(t) PROVE CopyInv'
  BY <1>2, CopyKept DEF ReportIgnored, storage
<1>3. ASSUME NEW t \in Tabs, TimerFires(t) PROVE CopyInv'
  BY <1>3, CopyTimer
<1>4. ASSUME NEW t \in Tabs, Serve(t) \/ ServeInPart(t) PROVE CopyInv'
  BY <1>4, CopyServe
<1>5. ASSUME NEW t \in Tabs, Answer(t) PROVE CopyInv'
  BY <1>5, CopyAnswer
<1>6. ASSUME NEW t \in Tabs, NoAnswer(t) PROVE CopyInv'
  BY <1>6, CopyNoAnswer
<1>7. ASSUME NEW t \in Tabs, Load(t) PROVE CopyInv'
  BY <1>7, CopyLoad
<1>8. ASSUME NEW t \in Tabs, Hide(t) PROVE CopyInv'
  BY <1>8, CopyHide
<1>9. ASSUME NEW t \in Tabs, Close(t) \/ Crash(t) PROVE CopyInv'
  BY <1>9, CopyEnds
<1>10. CASE ServeWire \/ LoseWire
  BY <1>10, CopyWire
<1>11. CASE UNCHANGED vars
  BY <1>11, CopyKept DEF vars
<1> QED BY <1>1, <1>2, <1>3, <1>4, <1>5, <1>6, <1>7, <1>8, <1>9, <1>10, <1>11 DEF Next

(* The invariant behind the bound on copies: an error's occurrences at the *)
(* server, and the places from which one more may still be recorded, are   *)
(* together at most one more than the mishaps that copy.                   *)
THEOREM CopiesCounted == Spec => []CopyInv
<1>1. Init => CopyInv
  BY CopyInit
<1>2. Inv /\ Inv' /\ HonestInv /\ CopyInv /\ [Next]_vars => CopyInv'
  BY CopyNext
<1> QED BY <1>1, <1>2, Invariance, HonestInvariance, PTL DEF Spec

(* A retry after a lost answer, a beacon and a restored queue may record   *)
(* an error again, but each such mishap at most once: the transport itself *)
(* (flush, settle, restoreQueue, the unload beacon) duplicates nothing.    *)
THEOREM FewCopies == Spec => []CopiesBounded
<1>1. ASSUME Inv, CopyInv PROVE CopiesBounded
  <2>1. ASSUME NEW e \in Error PROVE recorded[e] <= 1 + Faults
    <3>1. recorded[e] \in Nat /\ Cardinality(Carriers(wire, e)) \in Nat /\ Bit(Rests(e)) \in Nat
      BY <1>1, ElsewhereTyped DEF Bit
    <3>2. Cardinality(Holders(e)) \in Nat
      <4>1. IsFiniteSet(Holders(e))
        BY TabsAssumption, FS_Subset DEF Holders
      <4> QED BY <4>1, FS_CardinalityType
    <3>3. recorded[e] + Cardinality(Holders(e)) + Cardinality(Carriers(wire, e)) + Bit(Rests(e))
            <= 1 + Faults
      BY <1>1 DEF CopyInv, Counted, Tally
    <3>4. Faults \in Nat
      BY <1>1, FaultsTyped
    <3> QED BY <3>1, <3>2, <3>3, <3>4
  <2>2. \A k \in Mishap : mishaps[k] \in Nat
    BY <1>1 DEF Inv, TypeOK
  <2>3. ASSUME NEW e \in Error
        PROVE  recorded[e] <= 1 + mishaps["unanswered"] + mishaps["overtaken"] + mishaps["closed"]
                                + mishaps["crashed"] + mishaps["shared"] + unstored
    <3>1. \A k \in {"unanswered", "overtaken", "closed", "crashed", "shared"} : mishaps[k] \in Nat
      BY <2>2 DEF Mishap
    <3>2. recorded[e] \in Nat /\ unstored \in Nat
      BY <1>1 DEF Inv, TypeOK
    <3>3. \A r, a, b, c, d, f, g \in Nat : r <= 1 + ((a + b + c + d + f) + g)
            => r <= 1 + a + b + c + d + f + g
      OBVIOUS
    <3>4. recorded[e] <= 1 + ((mishaps["unanswered"] + mishaps["overtaken"] + mishaps["closed"]
                                + mishaps["crashed"] + mishaps["shared"]) + unstored)
      BY <2>1 DEF Faults, Blame
    <3> QED BY <3>1, <3>2, <3>3, <3>4
  <2> QED BY <2>3 DEF CopiesBounded
<1> QED BY <1>1, CopiesCounted, Invariance, PTL

----------------------------------------------------------------------------
(* Nothing is lost while nothing harmful happened.                         *)

Died == mishaps["closed"] + mishaps["crashed"]
Intact == Died = 0 /\ unstored = 0

\* The batch is the head of the queue, and once answered all of it is recorded.
Prefix(p) == Len(p.batch) <= Len(p.queue) /\ \A i \in 1 .. Len(p.batch) : p.queue[i] = p.batch[i]
Answered(p, rec) == p.reply # None => \A e \in Elements(p.batch) : rec[e] > 0

\* While no page has died and every write went through the stored copy of an only
\* tab has its whole queue, and nothing is stored before the first page.
Mirrored(p) == Cardinality(Tabs) = 1 => Elements(p.queue) \subseteq Elements(stored)

Safe(e) ==
    \/ recorded[e] > 0 \/ (\E t \in Tabs : e \in Elements(tab[t].queue))
    \/ Carriers(wire, e) # {} \/ Rests(e)

Sound ==
    /\ \A t \in Tabs : Prefix(tab[t]) /\ Answered(tab[t], recorded)
    /\ Intact => /\ NobodyUp => stored = <<>>
                 /\ \A t \in Tabs : Mirrored(tab[t])
    /\ \A e \in accepted : Safe(e)

LossInv == Harmless => Sound

Worsens ==
    /\ accepted \subseteq accepted' /\ unstored <= unstored'
    /\ \A k \in Mishap : mishaps[k] <= mishaps'[k]

Limit == Smaller(MaxQueue, Smaller(MaxStored, ServerTake))

LEMMA OneTab ==
    ASSUME Cardinality(Tabs) = 1, NEW t \in Tabs, NEW u \in Tabs
    PROVE  u = t
<1>1. Cardinality(Tabs \ {t}) = Cardinality(Tabs) - 1 /\ IsFiniteSet(Tabs \ {t})
  BY TabsAssumption, FS_RemoveElement
<1>2. Tabs \ {t} = {}
  BY <1>1, FS_EmptySet
<1> QED BY <1>2

LEMMA AcceptedFinite ==
    ASSUME NEW r \in Nat, NEW A \in SUBSET (1 .. r)
    PROVE  IsFiniteSet(A) /\ Cardinality(A) \in Nat
<1>1. IsFiniteSet(1 .. r)
  BY FS_Interval
<1>2. IsFiniteSet(A)
  BY <1>1, FS_Subset
<1> QED BY <1>2, FS_CardinalityType

\* Harmless ends for good.
LEMMA HarmlessBefore ==
    ASSUME Inv, Inv', Worsens, Harmless'
    PROVE  Harmless
<1>1. \A k \in Mishap : mishaps[k] \in Nat /\ mishaps'[k] \in Nat /\ mishaps[k] <= mishaps'[k]
  BY DEF Inv, TypeOK, Worsens
<1>2. Cardinality(accepted) <= Limit
  <2>1. IsFiniteSet(accepted') /\ Cardinality(accepted') \in Nat /\ Cardinality(accepted) \in Nat
    <3>1. raised \in Nat /\ accepted \in SUBSET (1 .. raised)
      BY DEF Inv, TypeOK
    <3>2. raised' \in Nat /\ accepted' \in SUBSET (1 .. raised')
      BY DEF Inv, TypeOK
    <3>3. IsFiniteSet(accepted') /\ Cardinality(accepted') \in Nat
      BY <3>2, AcceptedFinite
    <3> QED BY <3>1, <3>3, AcceptedFinite
  <2>2. Cardinality(accepted) <= Cardinality(accepted')
    BY <2>1, FS_Subset DEF Worsens
  <2>3. Cardinality(accepted') <= Limit /\ Limit \in Nat
    BY SizesAssumption DEF Harmless, Limit, Smaller
  <2> QED BY <2>1, <2>2, <2>3
<1>3. \A k \in {"refused", "lost", "overtaken"} : mishaps[k] = 0
  BY <1>1 DEF Harmless, Mishap
<1>4. unstored' = 0 => unstored = 0
  BY DEF Inv, TypeOK, Worsens
<1>5. LET died == mishaps["closed"] + mishaps["crashed"]
      IN  \/ died = 0
          \/ Cardinality(Tabs) = 1 /\ unstored = 0 /\ (mishaps["crashed"] = 0 \/ died = 1)
  <2>1. LET died == mishaps'["closed"] + mishaps'["crashed"]
        IN  \/ died = 0
            \/ Cardinality(Tabs) = 1 /\ unstored' = 0 /\ (mishaps'["crashed"] = 0 \/ died = 1)
    BY DEF Harmless
  <2>2. \A k \in {"closed", "crashed"} : mishaps[k] \in Nat /\ mishaps'[k] \in Nat /\ mishaps[k] <= mishaps'[k]
    BY <1>1 DEF Mishap
  <2> QED BY <1>4, <2>1, <2>2
<1> QED BY <1>2, <1>3, <1>5 DEF Harmless, Limit

\* So few errors fit into every queue, request and stored copy.
LEMMA Fits ==
    ASSUME NEW T, IsFiniteSet(T), Cardinality(T) <= Limit, NEW S, NEW q \in Seq(S), RunOf(q, T)
    PROVE  Len(q) \in Nat /\ Len(q) <= MaxQueue /\ Len(q) <= MaxStored /\ Len(q) <= ServerTake
<1>1. Len(q) \in Nat /\ Cardinality(T) \in Nat /\ Len(q) <= Cardinality(T)
  BY RunLength
<1>2. Limit \in Nat /\ Limit <= MaxQueue /\ Limit <= MaxStored /\ Limit <= ServerTake
  BY SizesAssumption DEF Limit, Smaller
<1> QED BY <1>1, <1>2, SizesAssumption

LEMMA HarmlessLimit == ASSUME Harmless PROVE Cardinality(accepted) <= Limit
  BY DEF Harmless, Limit

LEMMA LossStep ==
    ASSUME Inv, Sound, NEW t \in Tabs, NEW p, Becomes(t, p), Grows,
           Prefix(p), Answered(p, recorded'),
           Intact' => /\ p.up
                      /\ Cardinality(Tabs) = 1 => Elements(p.queue) \subseteq Elements(stored'),
           \A e \in accepted' : Safe(e)'
    PROVE  Sound'
<1>1. tab'[t] = p /\ \A u \in Tabs \ {t} : tab'[u] = tab[u]
  BY DEF Inv, TypeOK, Becomes
<1>2. ASSUME NEW u \in Tabs PROVE Prefix(tab'[u]) /\ Answered(tab'[u], recorded')
  <2>1. CASE u = t
    BY <1>1, <2>1
  <2>2. CASE u # t
    <3>1. tab'[u] = tab[u] /\ Prefix(tab[u]) /\ Answered(tab[u], recorded) /\ tab[u].batch \in Seq(Error)
      BY <1>1, <2>2, PageFacts DEF Sound
    <3>2. Elements(tab[u].batch) \subseteq Error
      BY <3>1, ElementsOf
    <3>3. Answered(tab[u], recorded')
      BY <3>1, <3>2 DEF Answered, Grows
    <3> QED BY <3>1, <3>3
  <2> QED BY <2>1, <2>2
<1>3. ASSUME Intact' PROVE ~NobodyUp'
  BY <1>1, <1>3 DEF NobodyUp
<1>4. ASSUME Intact', NEW u \in Tabs, Cardinality(Tabs) = 1
      PROVE  Elements(tab'[u].queue) \subseteq Elements(stored')
  <2>1. u = t
    BY <1>4, OneTab
  <2> QED BY <1>1, <1>4, <2>1
<1>5. \A u \in Tabs : Prefix(tab[u])' /\ Answered(tab[u], recorded)'
  BY <1>2 DEF Prefix, Answered, Elements
<1>6. Intact' => \A u \in Tabs : Mirrored(tab[u])'
  BY <1>4 DEF Mirrored, Elements
<1>7. (Intact => (NobodyUp => stored = <<>>) /\ \A u \in Tabs : Mirrored(tab[u]))'
  BY <1>3, <1>6
<1> QED BY <1>5, <1>7 DEF Sound

LEMMA SafeMoves ==
    ASSUME Inv, NEW t \in Tabs, NEW p, Becomes(t, p), NEW e, Safe(e)
    PROVE  /\ \/ recorded[e] > 0 \/ e \in Elements(tab[t].queue) \/ Carriers(wire, e) # {} \/ Rests(e)
              \/ Safe(e)'
           /\ (recorded'[e] > 0 \/ e \in Elements(p.queue) \/ Carriers(wire', e) # {} \/ Rests(e)') => Safe(e)'
<1>1. tab'[t] = p /\ \A u \in Tabs \ {t} : tab'[u] = tab[u]
  BY DEF Inv, TypeOK, Becomes
<1>2. ASSUME NEW u \in Tabs, e \in Elements(tab[u].queue), u # t PROVE Safe(e)'
  <2>1. e \in Elements(tab'[u].queue)
    BY <1>1, <1>2
  <2> QED BY <2>1 DEF Safe, Elements
<1>3. e \in Elements(p.queue) => Safe(e)'
  BY <1>1 DEF Safe, Elements
<1>4. recorded'[e] > 0 \/ Carriers(wire', e) # {} \/ Rests(e)' => Safe(e)'
  BY DEF Safe, Carriers
<1>5. \/ recorded[e] > 0 \/ e \in Elements(tab[t].queue) \/ Carriers(wire, e) # {} \/ Rests(e)
      \/ Safe(e)'
  BY <1>2 DEF Safe
<1> QED BY <1>3, <1>4, <1>5

----------------------------------------------------------------------------
(* One lemma for each action.                                              *)

Calm == Inv /\ Inv' /\ HonestInv /\ CopyInv /\ CopyInv' /\ Sound /\ Harmless /\ Harmless'

\* What the step of a page may use while nothing happened.
LEMMA CalmFacts ==
    ASSUME Calm, NEW t \in Tabs
    PROVE  /\ Inv /\ Inv' /\ HonestInv /\ CopyInv /\ Sound
           /\ tab[t] \in Page /\ Prefix(tab[t]) /\ Answered(tab[t], recorded)
           /\ tab[t].queue \in Seq(Error) /\ tab[t].batch \in Seq(Error)
           /\ RunOf(tab[t].queue, accepted) /\ RunOf(tab[t].batch, accepted)
           /\ Len(tab[t].queue) \in Nat /\ Len(tab[t].batch) \in Nat
           /\ tab[t].batch = <<>> => Elements(tab[t].batch) = {} /\ tab[t].reply = None
           /\ ~tab[t].up => tab[t].batch = <<>> /\ tab[t].queue = <<>>
           /\ \A e \in accepted : Safe(e) /\ e \in Error
<1>1. Inv /\ Inv' /\ HonestInv /\ CopyInv /\ Sound
  BY DEF Calm
<1>2. accepted \subseteq Error
  BY <1>1, BoundsAssumption DEF Inv, TypeOK, Error
<1>3. Prefix(tab[t]) /\ Answered(tab[t], recorded) /\ \A e \in accepted : Safe(e)
  BY <1>1 DEF Sound
<1> QED BY <1>1, <1>2, <1>3, CopyFacts DEF Shape

LEMMA SameRecorded == ASSUME Inv, UNCHANGED recorded PROVE Grows
  BY DEF Inv, TypeOK, Grows

LEMMA AtRest == ASSUME NEW t \in Tabs, tab[t].up, NEW e PROVE ~Rests(e)
  BY DEF Rests, NobodyUp

LEMMA CalmMishaps ==
    ASSUME Inv, NEW k \in Mishap, Happens(k), Harmless'
    PROVE  /\ k \in {"unanswered", "hidden", "closed", "crashed", "shared"}
           /\ k \in {"unanswered", "hidden", "shared"} => Died' = Died
           /\ k \in {"closed", "crashed"} => /\ Died' = Died + 1 /\ Died \in Nat
                                            /\ Cardinality(Tabs) = 1 /\ unstored' = 0
           /\ k = "crashed" => Died = 0
<1>1. \A m \in Mishap : mishaps[m] \in Nat /\ mishaps'[m] = IF m = k THEN mishaps[m] + 1 ELSE mishaps[m]
  BY DEF Happens, Inv, TypeOK
<1>2. \A m \in {"refused", "lost", "overtaken"} : mishaps'[m] = 0
  BY DEF Harmless
<1>3. k \in {"unanswered", "hidden", "closed", "crashed", "shared"}
  <2>1. mishaps'[k] # 0
    BY <1>1
  <2> QED BY <1>2, <2>1 DEF Mishap
<1>4. /\ mishaps["closed"] \in Nat /\ mishaps["crashed"] \in Nat
      /\ mishaps'["closed"] = mishaps["closed"] + (IF k = "closed" THEN 1 ELSE 0)
      /\ mishaps'["crashed"] = mishaps["crashed"] + (IF k = "crashed" THEN 1 ELSE 0)
  BY <1>1 DEF Mishap
<1>5. LET died == mishaps'["closed"] + mishaps'["crashed"]
      IN  \/ died = 0
          \/ Cardinality(Tabs) = 1 /\ unstored' = 0 /\ (mishaps'["crashed"] = 0 \/ died = 1)
  BY DEF Harmless
<1> QED BY <1>3, <1>4, <1>5 DEF Died

\* While everything goes well a write that was due went through.
LEMMA WrittenWhileIntact ==
    ASSUME Inv, NEW q, Stores(q), unstored' = 0
    PROVE  stored' = Persisted(q)
<1>1. unstored \in Nat
  BY DEF Inv, TypeOK
<1> QED BY <1>1 DEF Stores

\* With so few errors the whole queue is written.
LEMMA WrittenInFull ==
    ASSUME Inv, Inv', Harmless', NEW q \in Seq(Error), RunOf(q, accepted')
    PROVE  Elements(Persisted(q)) = Elements(q)
<1>1. IsFiniteSet(accepted')
  <2>1. raised' \in Nat /\ accepted' \in SUBSET (1 .. raised')
    BY DEF Inv, TypeOK
  <2> QED BY <2>1, AcceptedFinite
<1>2. Cardinality(accepted') <= Limit
  BY DEF Harmless, Limit
<1>3. Len(q) <= MaxStored
  BY <1>1, <1>2, Fits
<1> QED BY <1>3, PersistedRun

LEMMA SoundReport ==
    ASSUME Calm, NEW t \in Tabs, Report(t)
    PROVE  Sound'
<1> DEFINE page == tab[t]
           r == raised + 1
           q == Enqueued(page.queue, r)
           p == [page EXCEPT !.queue = q, !.waiting = r, !.timer = TRUE]
<1>1. /\ Inv /\ Inv' /\ CopyInv /\ CopyInv' /\ Sound /\ page \in Page /\ Prefix(page) /\ Answered(page, recorded)
      /\ page.queue \in Seq(Error) /\ RunOf(page.queue, accepted) /\ page.queue \in Seq(1 .. raised)
      /\ raised \in Nat /\ Len(page.queue) \in Nat /\ Len(page.batch) \in Nat
      /\ \A e \in accepted : Safe(e)
  BY CalmFacts, PageFacts DEF Calm
<1>2. /\ page.up /\ Becomes(t, p) /\ accepted' = accepted \cup {r} /\ Stores(q)
      /\ UNCHANGED <<wire, recorded, mishaps>>
  BY DEF Report
<1>3. Cardinality(accepted) + 1 <= Limit /\ Cardinality(accepted) \in Nat /\ IsFiniteSet(accepted')
      /\ Cardinality(accepted') <= Limit
  <2>1. accepted \in SUBSET (1 .. raised) /\ r \notin accepted
    BY <1>1 DEF Inv, TypeOK
  <2>2. IsFiniteSet(accepted) /\ Cardinality(accepted) \in Nat
    BY <1>1, <2>1, AcceptedFinite
  <2>3. Cardinality(accepted') = Cardinality(accepted) + 1 /\ IsFiniteSet(accepted')
    BY <1>2, <2>1, <2>2, FS_AddElement
  <2>4. Cardinality(accepted') <= Limit
    BY DEF Calm, Harmless, Limit
  <2> QED BY <2>2, <2>3, <2>4
<1>4. Len(page.queue) < MaxQueue
  <2>1. Len(page.queue) <= Cardinality(accepted)
    <3>1. IsFiniteSet(accepted)
      BY <1>1, AcceptedFinite DEF Inv, TypeOK
    <3> HIDE DEF page
    <3> QED BY <1>1, <3>1, RunLength
  <2>2. Limit \in Nat /\ Limit <= MaxQueue
    BY SizesAssumption DEF Limit, Smaller
  <2> HIDE DEF page
  <2> QED BY <1>1, <1>3, <2>1, <2>2, SizesAssumption
<1>5. /\ RunOf(q, accepted') /\ r \in Elements(q) /\ Elements(page.queue) \subseteq Elements(q)
      /\ Len(page.queue) < Len(q) /\ \A j \in 1 .. Len(page.queue) : q[j] = page.queue[j]
      /\ q \in Seq(1 .. r) /\ Len(q) \in Nat
  <2> HIDE DEF page
  <2> QED BY <1>1, <1>2, <1>4, EnqueuedRun, EnqueuedAtTheEnd
<1>6. p.queue = q /\ p.batch = page.batch /\ p.reply = page.reply /\ p.up = page.up
  BY <1>1 DEF Page
<1> HIDE DEF p, q
<1>7. Prefix(p)
  <2>1. \A i \in 1 .. Len(page.batch) : i \in 1 .. Len(page.queue)
    BY <1>1 DEF Prefix
  <2> QED BY <1>1, <1>5, <1>6, <2>1 DEF Prefix
<1>8. Answered(p, recorded')
  BY <1>1, <1>2, <1>6 DEF Answered
<1>9. ASSUME Intact' PROVE Elements(q) = Elements(stored')
  <2>1. stored' = Persisted(q)
    BY <1>1, <1>2, <1>9, WrittenWhileIntact DEF Intact
  <2>2. Len(q) <= MaxStored
    BY <1>3, <1>5, Fits
  <2> QED BY <1>5, <2>1, <2>2, PersistedRun
<1>11. ASSUME NEW e \in accepted' PROVE Safe(e)'
  <2>1. CASE e = r
    <3>1. tab'[t] = p
      BY <1>1, <1>2 DEF Becomes, Inv, TypeOK
    <3> QED BY <1>5, <1>6, <2>1, <3>1 DEF Safe, Elements
  <2>2. CASE e \in accepted
    <3>1. ~Rests(e)
      BY <1>2, AtRest
    <3> QED BY <1>1, <1>2, <1>5, <1>6, <2>2, <3>1, SafeMoves
  <2> QED BY <1>2, <2>1, <2>2
<1>12. Grows
  BY <1>1, <1>2, SameRecorded
<1> QED BY <1>1, <1>2, <1>6, <1>7, <1>8, <1>9, <1>11, <1>12, LossStep

LEMMA SoundTimer ==
    ASSUME Calm, NEW t \in Tabs, TimerFires(t)
    PROVE  Sound'
<1> DEFINE page == tab[t]
           b == IF page.batch # <<>> THEN page.batch ELSE First(BatchSize, page.queue)
           p == [page EXCEPT !.timer = FALSE, !.batch = b]
<1>1. /\ Inv /\ Sound /\ page \in Page /\ Prefix(page) /\ Answered(page, recorded)
      /\ page.queue \in Seq(Error) /\ Len(page.queue) \in Nat
      /\ page.batch = <<>> => page.reply = None
      /\ \A e \in accepted : Safe(e)
  BY CalmFacts
<1>2. /\ page.up /\ Becomes(t, p)
      /\ UNCHANGED <<stored, unstored, wire, accepted, recorded, mishaps>>
  BY DEF TimerFires, server, storage
<1>3. /\ p.queue = page.queue /\ p.batch = b /\ p.reply = page.reply /\ p.up = page.up
  BY <1>1 DEF Page
<1>4. LET f == First(BatchSize, page.queue) IN
      Len(f) <= Len(page.queue) /\ \A i \in 1 .. Len(f) : f[i] = page.queue[i]
  <2>1. BatchSize \in Nat
    BY SizesAssumption
  <2> HIDE DEF page
  <2>2. LET f == First(BatchSize, page.queue) IN
        Len(f) = Smaller(BatchSize, Len(page.queue)) /\ \A i \in 1 .. Len(f) : f[i] = page.queue[i]
    BY <1>1, <2>1, FirstIsPrefix
  <2> QED BY <1>1, <2>1, <2>2 DEF Smaller
<1> HIDE DEF p
<1>5. Prefix(p)
  BY <1>1, <1>3, <1>4 DEF Prefix
<1>6. Answered(p, recorded')
  BY <1>1, <1>2, <1>3 DEF Answered
<1>7. Intact' => /\ p.up
                 /\ Cardinality(Tabs) = 1 => Elements(p.queue) \subseteq Elements(stored')
  BY <1>1, <1>2, <1>3 DEF Intact, Died, Sound, Mirrored
<1>8. ASSUME NEW e \in accepted' PROVE Safe(e)'
  <2>1. ~Rests(e)
    BY <1>2, AtRest
  <2> QED BY <1>1, <1>2, <1>3, <2>1, SafeMoves
<1>9. Grows
  BY <1>1, <1>2, SameRecorded
<1> QED BY <1>1, <1>2, <1>5, <1>6, <1>7, <1>8, <1>9, LossStep

LEMMA SoundServe ==
    ASSUME Calm, NEW t \in Tabs, Serve(t)
    PROVE  Sound'
<1> DEFINE page == tab[t]
           body == page.batch
           n == InFull(body)
           p == [page EXCEPT !.reply = Results(body, n, 1 .. n)]
<1>1. /\ Inv /\ CopyInv /\ Sound /\ page \in Page /\ Prefix(page)
      /\ body \in Seq(Error) /\ Len(body) \in Nat /\ RunOf(body, accepted)
      /\ ~page.up => body = <<>>
      /\ \A e \in accepted : Safe(e) /\ e \in Error
  BY CalmFacts
<1>2. /\ page.up /\ Becomes(t, p) /\ Record(body, n, 1 .. n)
      /\ UNCHANGED <<stored, unstored, wire, accepted, mishaps>>
  BY <1>1 DEF Serve, Asked, Record, storage
<1>3. p.queue = page.queue /\ p.batch = body /\ p.up
  BY <1>1, <1>2 DEF Page
<1>4. n = Len(body)
  <2>1. IsFiniteSet(accepted) /\ Cardinality(accepted) <= Limit
    <3>1. raised \in Nat /\ accepted \in SUBSET (1 .. raised)
      BY <1>1 DEF Inv, TypeOK
    <3> QED BY <3>1, AcceptedFinite, HarmlessLimit DEF Calm
  <2> HIDE DEF body
  <2>2. Len(body) <= ServerTake
    BY <1>1, <2>1, Fits
  <2> QED BY <2>2 DEF InFull, Smaller
<1> HIDE DEF n, p
<1>5. Grows /\ \A e \in Elements(body) : recorded'[e] > 0
  <2>1. RecordedOf(body, n, 1 .. n) = Elements(body)
    <3> HIDE DEF body
    <3>1. 1 .. n \cap 1 .. n = 1 .. Len(body) /\ Elements(body) = {body[i] : i \in 1 .. Len(body)}
      BY <1>1, <1>4, ElementsOf
    <3> QED BY <3>1 DEF RecordedOf
  <2>2. Elements(body) \subseteq Error
    BY <1>1, ElementsOf
  <2> HIDE DEF body
  <2> QED BY <1>1, <1>2, <2>1, <2>2, RecordGrows
<1>6. Prefix(p) /\ Answered(p, recorded')
  BY <1>1, <1>3, <1>5 DEF Prefix, Answered
<1>7. Intact' => /\ p.up
                 /\ Cardinality(Tabs) = 1 => Elements(p.queue) \subseteq Elements(stored')
  BY <1>1, <1>2, <1>3 DEF Intact, Died, Sound, Mirrored
<1>8. ASSUME NEW e \in accepted' PROVE Safe(e)'
  <2>1. ~Rests(e)
    BY <1>2, AtRest
  <2>2. recorded[e] > 0 => recorded'[e] > 0
    BY <1>1, <1>2, <1>5 DEF Grows
  <2> QED BY <1>1, <1>2, <1>3, <2>1, <2>2, SafeMoves
<1> QED BY <1>1, <1>2, <1>5, <1>6, <1>7, <1>8, LossStep

LEMMA SoundAnswer ==
    ASSUME Calm, NEW t \in Tabs, Answer(t)
    PROVE  Sound'
<1> DEFINE page == tab[t]
           m == Len(page.batch)
           rest == Behind(page)
           p == [page EXCEPT !.queue = rest, !.batch = <<>>, !.reply = None,
                             !.timer = @ \/ rest # <<>>, !.waiting = Released(page)]
<1>1. /\ Inv /\ Sound /\ page \in Page /\ Prefix(page) /\ Answered(page, recorded)
      /\ page.queue \in Seq(Error) /\ RunOf(page.queue, accepted)
      /\ page.batch \in Seq(Error)
      /\ Len(page.queue) \in Nat /\ m \in Nat
      /\ ~page.up => page.batch = <<>>
      /\ \A e \in accepted : Safe(e)
  BY CalmFacts
<1>2. /\ page.batch # <<>> /\ page.reply # None /\ Becomes(t, p) /\ Stores(rest)
      /\ UNCHANGED <<wire, accepted, recorded, mishaps>> /\ page.up
  BY <1>1 DEF Answer
<1>3. /\ p.queue = rest /\ p.batch = <<>> /\ p.reply = None /\ p.up
  BY <1>1, <1>2 DEF Page
<1>4. RunOf(rest, accepted) /\ rest \in Seq(Error) /\ \A j \in m + 1 .. Len(page.queue) : page.queue[j] \in Elements(rest)
  <2>1. m + 1 \in Nat \ {0}
    BY <1>1
  <2>2. rest = SubSeq(page.queue, m + 1, Len(page.queue))
    BY DEF Behind
  <2> HIDE DEF page, rest, m
  <2>3. rest \in Seq(Error)
    BY <1>1, <2>1, <2>2, TailOf
  <2> QED BY <1>1, <2>1, <2>2, <2>3, RestOfRun
<1>5. ASSUME NEW e \in Elements(page.queue) PROVE recorded[e] > 0 \/ e \in Elements(rest)
  <2>1. PICK j \in 1 .. Len(page.queue) : page.queue[j] = e
    <3> HIDE DEF page
    <3> QED BY <1>1, <1>5, ElementsOf
  <2>2. CASE j <= m
    <3>1. j \in 1 .. m /\ page.batch[j] = e
      BY <1>1, <2>1, <2>2 DEF Prefix
    <3>2. Elements(page.batch) = {page.batch[i] : i \in 1 .. m}
      <4> HIDE DEF page
      <4> QED BY <1>1, ElementsOf DEF m
    <3>3. e \in Elements(page.batch)
      BY <3>1, <3>2
    <3> QED BY <1>1, <1>2, <3>3 DEF Answered
  <2>3. CASE ~(j <= m)
    <3>1. j \in m + 1 .. Len(page.queue)
      BY <1>1, <2>1, <2>3
    <3> QED BY <1>4, <2>1, <3>1
  <2> QED BY <2>2, <2>3
<1> HIDE DEF p, rest
<1>6. Prefix(p) /\ Answered(p, recorded')
  <2>1. Len(p.batch) = 0 /\ Len(p.queue) \in Nat
    BY <1>3, <1>4, LenProperties, EmptySeq
  <2> QED BY <1>3, <2>1 DEF Prefix, Answered
<1>7. ASSUME Intact' PROVE Elements(rest) = Elements(stored')
  <2>1. IsFiniteSet(accepted) /\ Cardinality(accepted) <= Limit
    <3>1. raised \in Nat /\ accepted \in SUBSET (1 .. raised)
      BY <1>1 DEF Inv, TypeOK
    <3> QED BY <3>1, AcceptedFinite, HarmlessLimit DEF Calm
  <2>2. Len(rest) <= MaxStored
    BY <1>4, <2>1, Fits
  <2>3. stored' = Persisted(rest)
    BY <1>1, <1>2, <1>7, WrittenWhileIntact DEF Intact
  <2> QED BY <1>4, <2>2, <2>3, PersistedRun
<1>9. ASSUME NEW e \in accepted' PROVE Safe(e)'
  <2>1. ~Rests(e)
    BY <1>2, AtRest
  <2> QED BY <1>1, <1>2, <1>3, <1>5, <2>1, SafeMoves
<1>10. Grows
  BY <1>1, <1>2, SameRecorded
<1> QED BY <1>1, <1>2, <1>3, <1>6, <1>7, <1>9, <1>10, LossStep

\* A request on the wire stays there when another is added.
LEMMA WireGrows ==
    ASSUME NEW U, NEW w \in Seq(U), NEW b \in U, NEW e
    PROVE  /\ Carriers(w, e) # {} => Carriers(Append(w, b), e) # {}
           /\ e \in Elements(b) => Carriers(Append(w, b), e) # {}
<1>1. /\ Len(w) \in Nat /\ Len(Append(w, b)) = Len(w) + 1 /\ Append(w, b)[Len(w) + 1] = b
      /\ \A i \in 1 .. Len(w) : Append(w, b)[i] = w[i] /\ i \in 1 .. Len(w) + 1
  BY LenProperties, AppendProperties
<1>2. Len(w) + 1 \in 1 .. Len(w) + 1
  BY <1>1
<1>3. ASSUME NEW i \in Carriers(w, e) PROVE i \in Carriers(Append(w, b), e)
  BY <1>1 DEF Carriers
<1>4. e \in Elements(b) => Len(w) + 1 \in Carriers(Append(w, b), e)
  BY <1>1, <1>2 DEF Carriers
<1> QED BY <1>3, <1>4

LEMMA AbandonedKeeps ==
    ASSUME NEW page, page.batch \in Seq(Error), NEW w \in Seq(Seq(Error)),
           NEW v \in Abandoned(page, w), NEW e
    PROVE  Carriers(w, e) # {} => Carriers(v, e) # {}
<1>1. CASE v = w
  BY <1>1
<1>2. CASE v = Append(w, page.batch)
  BY <1>2, WireGrows
<1> QED BY <1>1, <1>2 DEF Abandoned

LEMMA SoundNoAnswer ==
    ASSUME Calm, NEW t \in Tabs, NoAnswer(t)
    PROVE  Sound'
<1> DEFINE page == tab[t]
           p == [page EXCEPT !.batch = <<>>, !.reply = None,
                             !.timer = TRUE, !.waiting = Released(page)]
<1>1. /\ Inv /\ Sound /\ page \in Page /\ page.queue \in Seq(Error) /\ Len(page.queue) \in Nat
      /\ page.batch \in Seq(Error)
      /\ ~page.up => page.batch = <<>>
      /\ \A e \in accepted : Safe(e)
  BY CalmFacts
<1>2. /\ page.batch # <<>> /\ Becomes(t, p) /\ wire' \in Abandoned(page, wire) /\ Happens("unanswered")
      /\ UNCHANGED <<stored, unstored, accepted, recorded>> /\ page.up
  BY <1>1 DEF NoAnswer, server, storage
<1>3. /\ p.queue = page.queue /\ p.batch = <<>> /\ p.reply = None /\ p.up
  BY <1>1, <1>2 DEF Page
<1> HIDE DEF p
<1>4. Prefix(p) /\ Answered(p, recorded')
  <2>1. Len(p.batch) = 0
    BY <1>3, EmptySeq
  <2> QED BY <1>1, <1>3, <2>1 DEF Prefix, Answered
<1>5. Died' = Died
  BY <1>1, <1>2, CalmMishaps DEF Calm, Mishap
<1>6. ASSUME NEW e \in accepted' PROVE Safe(e)'
  <2>1. ~Rests(e)
    BY <1>2, AtRest
  <2>2. Carriers(wire, e) # {} => Carriers(wire', e) # {}
    <3>1. wire \in Seq(Seq(Error))
      BY <1>1 DEF Inv, TypeOK
    <3> HIDE DEF page
    <3> QED BY <1>1, <1>2, <3>1, AbandonedKeeps
  <2> QED BY <1>1, <1>2, <1>3, <2>1, <2>2, SafeMoves
<1>7. Grows
  BY <1>1, <1>2, SameRecorded
<1>8. Intact' /\ Cardinality(Tabs) = 1 => Elements(p.queue) \subseteq Elements(stored')
  BY <1>1, <1>2, <1>3, <1>5 DEF Intact, Sound, Mirrored
<1> QED BY <1>1, <1>2, <1>3, <1>4, <1>5, <1>6, <1>7, <1>8, LossStep

LEMMA SoundLoad ==
    ASSUME Calm, NEW t \in Tabs, Load(t)
    PROVE  Sound'
<1> DEFINE q == First(MaxQueue, stored)
           p == [NoPage EXCEPT !.up = TRUE, !.queue = q, !.timer = (q # <<>>)]
<1>1. /\ Inv /\ CopyInv /\ Sound /\ tab[t].queue = <<>>
      /\ \A e \in accepted : Safe(e)
  BY CalmFacts DEF Load
<1>2. /\ ~tab[t].up /\ Becomes(t, p) /\ stored' = <<>>
      /\ UNCHANGED <<unstored, wire, accepted, recorded>>
  BY DEF Load, server
<1>3. /\ p.queue = q /\ p.batch = <<>> /\ p.reply = None /\ p.up
  BY DEF NoPage
<1>4. q \in Seq(Error) /\ Elements(q) = Elements(stored)
  <2>1. stored \in Seq(Error) /\ MaxQueue \in Nat /\ RunOf(stored, accepted)
    BY <1>1, SizesAssumption DEF Inv, TypeOK, CopyInv, Runs
  <2>2. IsFiniteSet(accepted) /\ Cardinality(accepted) <= Limit
    <3>1. raised \in Nat /\ accepted \in SUBSET (1 .. raised)
      BY <1>1 DEF Inv, TypeOK
    <3> QED BY <3>1, AcceptedFinite, HarmlessLimit DEF Calm
  <2>3. Len(stored) <= MaxQueue
    BY <2>1, <2>2, Fits
  <2> QED BY <2>1, <2>3, FirstOfRun, FirstIsPrefix
<1> HIDE DEF p, q
<1>5. Prefix(p) /\ Answered(p, recorded')
  <2>1. Len(p.batch) = 0 /\ Len(p.queue) \in Nat
    BY <1>3, <1>4, LenProperties, EmptySeq
  <2> QED BY <1>3, <2>1 DEF Prefix, Answered
<1>6. Died' = Died
  <2>1. CASE UNCHANGED mishaps
    BY <2>1 DEF Died
  <2>2. CASE Happens("shared")
    BY <1>1, <2>2, CalmMishaps DEF Calm, Mishap
  <2> QED BY <2>1, <2>2 DEF Load
<1>7. ASSUME Intact', Cardinality(Tabs) = 1 PROVE Elements(p.queue) \subseteq Elements(stored')
  <2>1. NobodyUp
    BY <1>2, <1>7, OneTab DEF NobodyUp
  <2>2. stored = <<>>
    BY <1>1, <1>2, <1>6, <1>7, <2>1 DEF Intact, Sound
  <2> QED BY <1>3, <1>4, <2>2 DEF Elements
<1>8. ASSUME NEW e \in accepted' PROVE Safe(e)'
  <2>1. e \notin Elements(tab[t].queue)
    BY <1>1 DEF Elements
  <2>2. Rests(e) => e \in Elements(p.queue)
    BY <1>3, <1>4 DEF Rests
  <2> QED BY <1>1, <1>2, <2>1, <2>2, SafeMoves
<1>9. Grows
  BY <1>1, <1>2, SameRecorded
<1> QED BY <1>1, <1>2, <1>3, <1>5, <1>6, <1>7, <1>8, <1>9, LossStep

\* The only tab ends: its queue is stored, or on its way.
LEMMA SoundEnds ==
    ASSUME Calm, NEW t \in Tabs, Close(t) \/ Crash(t)
    PROVE  Sound'
<1> DEFINE page == tab[t]
<1>1. /\ Inv /\ CopyInv /\ Sound /\ page \in Page /\ page.queue \in Seq(Error)
      /\ RunOf(page.queue, accepted) /\ page.batch \in Seq(Error)
      /\ wire \in Seq(Seq(Error))
      /\ \A e \in accepted : Safe(e)
  BY CalmFacts DEF Inv, TypeOK
<1>2. /\ page.up /\ Becomes(t, NoPage) /\ UNCHANGED <<accepted, recorded>>
      /\ Happens("closed") \/ Happens("crashed")
  BY DEF Close, Crash, server
<1>3. Cardinality(Tabs) = 1 /\ Died' = Died + 1 /\ Died \in Nat /\ unstored' = 0
  BY <1>1, <1>2, CalmMishaps DEF Calm, Mishap
<1>4. /\ NoPage.queue = <<>> /\ NoPage.batch = <<>> /\ NoPage.reply = None
      /\ ~NoPage.up /\ Len(<<>>) = 0
  BY DEF NoPage
<1>5. Prefix(NoPage) /\ Answered(NoPage, recorded')
  BY <1>4 DEF Prefix, Answered
<1>6. tab'[t] = NoPage
  BY <1>1, <1>2 DEF Becomes, Inv, TypeOK
<1>7. NobodyUp'
  BY <1>3, <1>4, <1>6, OneTab DEF NobodyUp
<1>8. ASSUME NEW e, Carriers(wire, e) # {} PROVE Carriers(wire', e) # {}
  <2>1. CASE wire' \in Abandoned(page, wire)
    <3> HIDE DEF page
    <3> QED BY <1>1, <1>8, <2>1, AbandonedKeeps
  <2>2. CASE wire' \in Abandoned(page, Append(wire, page.queue))
    <3> HIDE DEF page
    <3>1. Append(wire, page.queue) \in Seq(Seq(Error)) /\ Carriers(Append(wire, page.queue), e) # {}
      BY <1>1, <1>8, WireGrows, AppendProperties
    <3> QED BY <1>1, <2>2, <3>1, AbandonedKeeps
  <2> QED BY <2>1, <2>2 DEF Close, Crash
<1>9. ASSUME NEW e \in Elements(page.queue) PROVE Carriers(wire', e) # {} \/ e \in Elements(stored')
  <2>1. CASE Crash(t)
    <3>1. Died = 0
      BY <1>1, <2>1, CalmMishaps DEF Calm, Mishap, Crash
    <3>2. Elements(page.queue) \subseteq Elements(stored)
      BY <1>1, <1>3, <2>1, <3>1 DEF Intact, Sound, Mirrored, Crash, storage
    <3> QED BY <1>9, <2>1, <3>2 DEF Crash, storage
  <2>2. CASE BeaconTaken(t) /\ wire' \in Abandoned(page, Append(wire, page.queue))
    <3> HIDE DEF page
    <3>1. Append(wire, page.queue) \in Seq(Seq(Error)) /\ Carriers(Append(wire, page.queue), e) # {}
      BY <1>1, <1>9, WireGrows, AppendProperties
    <3> QED BY <1>1, <2>2, <3>1, AbandonedKeeps
  <2>3. CASE BeaconRefused(t)
    <3>1. page.queue # <<>>
      BY <1>9 DEF Elements
    <3>2. stored' = Persisted(page.queue)
      BY <1>1, <1>3, <2>3, <3>1, WrittenWhileIntact DEF BeaconRefused
    <3>3. IsFiniteSet(accepted) /\ Cardinality(accepted) <= Limit
      <4>1. raised \in Nat /\ accepted \in SUBSET (1 .. raised)
        BY <1>1 DEF Inv, TypeOK
      <4> QED BY <4>1, AcceptedFinite, HarmlessLimit DEF Calm
    <3> HIDE DEF page
    <3>4. Len(page.queue) <= MaxStored
      BY <1>1, <3>3, Fits
    <3> QED BY <1>1, <1>9, <3>2, <3>4, PersistedRun
  <2> QED BY <2>1, <2>2, <2>3 DEF Close
<1>10. ASSUME NEW e \in accepted' PROVE Safe(e)'
  <2>1. ~Rests(e)
    BY <1>2, AtRest
  <2>2. e \in Elements(stored') => Rests(e)'
    BY <1>7 DEF Rests, Elements
  <2> QED BY <1>1, <1>2, <1>8, <1>9, <2>1, <2>2, SafeMoves
<1>11. Grows
  BY <1>1, <1>2, SameRecorded
<1>12. ~Intact'
  BY <1>3 DEF Intact
<1> QED BY <1>1, <1>2, <1>5, <1>10, <1>11, <1>12, LossStep

\* The queue of a page that is hidden between two requests is on its way, or is
\* kept.
LEMMA SoundHide ==
    ASSUME Calm, NEW t \in Tabs, Hide(t)
    PROVE  Sound'
<1> DEFINE page == tab[t]
<1>1. /\ Inv /\ Inv' /\ Sound /\ page \in Page /\ page.queue \in Seq(Error) /\ Harmless'
      /\ RunOf(page.queue, accepted) /\ wire \in Seq(Seq(Error))
      /\ Prefix(page) /\ Answered(page, recorded)
      /\ \A e \in accepted : Safe(e)
  BY CalmFacts DEF Inv, TypeOK, Calm
<1>2. /\ page.up /\ page.queue # <<>> /\ UNCHANGED <<accepted, recorded>>
      /\ Happens(IF page.batch = <<>> THEN "hidden" ELSE "overtaken")
  BY DEF Hide, server
<1>3. page.batch = <<>> /\ Happens("hidden")
  BY <1>1, <1>2, CalmMishaps DEF Mishap
<1>4. Grows
  BY <1>1, <1>2, SameRecorded
<1>5. CASE BeaconTaken(t) /\ Becomes(t, [page EXCEPT !.queue = <<>>]) /\ wire' = Append(wire, page.queue)
  <2> DEFINE p == [page EXCEPT !.queue = <<>>]
  <2>1. p.queue = <<>> /\ p.batch = <<>> /\ p.reply = page.reply /\ p.up
    BY <1>1, <1>2, <1>3 DEF Page
  <2>2. Becomes(t, p)
    BY <1>5
  <2> HIDE DEF p
  <2>3. Prefix(p) /\ Answered(p, recorded')
    <3>1. Len(p.batch) = 0 /\ Len(p.queue) = 0
      BY <2>1, EmptySeq
    <3> QED BY <1>1, <1>2, <1>3, <2>1, <3>1 DEF Prefix, Answered
  <2>4. Elements(p.queue) = {}
    BY <2>1 DEF Elements
  <2>5. ASSUME NEW e \in accepted' PROVE Safe(e)'
    <3>1. ~Rests(e)
      BY <1>2, AtRest
    <3>2. /\ Carriers(wire, e) # {} => Carriers(wire', e) # {}
          /\ e \in Elements(page.queue) => Carriers(wire', e) # {}
      <4> HIDE DEF page
      <4> QED BY <1>1, <1>5, WireGrows
    <3> QED BY <1>1, <1>2, <2>2, <3>1, <3>2, SafeMoves
  <2> QED BY <1>1, <1>4, <2>1, <2>2, <2>3, <2>4, <2>5, LossStep
<1>6. CASE BeaconRefused(t) /\ UNCHANGED <<tab, wire>>
  <2>1. Becomes(t, page)
    BY <1>1, <1>6 DEF Becomes, Inv, TypeOK
  <2>2. Prefix(page) /\ Answered(page, recorded')
    BY <1>1, <1>2 DEF Answered
  <2>3. ASSUME Intact' PROVE Elements(page.queue) = Elements(stored')
    <3>1. stored' = Persisted(page.queue)
      BY <1>1, <1>2, <1>6, <2>3, WrittenWhileIntact DEF BeaconRefused, Intact
    <3>2. RunOf(page.queue, accepted')
      BY <1>1, <1>2
    <3> HIDE DEF page
    <3>3. Elements(Persisted(page.queue)) = Elements(page.queue)
      BY <1>1, <3>2, WrittenInFull
    <3> QED BY <3>1, <3>3
  <2>4. ASSUME NEW e \in accepted' PROVE Safe(e)'
    <3>1. ~Rests(e)
      BY <1>2, AtRest
    <3> QED BY <1>1, <1>2, <1>6, <2>1, <3>1, SafeMoves
  <2> QED BY <1>1, <1>2, <1>4, <2>1, <2>2, <2>3, <2>4, LossStep
<1> QED BY <1>5, <1>6 DEF Hide

LEMMA SoundWire ==
    ASSUME Calm, ServeWire \/ LoseWire
    PROVE  Sound'
<1>1. Inv /\ CopyInv /\ Sound /\ Harmless'
  BY DEF Calm
<1>2. ~Happens("lost")
  BY <1>1, CalmMishaps DEF Mishap
<1>3. PICK i \in DOMAIN wire :
          /\ Record(wire[i], InFull(wire[i]), 1 .. InFull(wire[i]))
          /\ wire' = RemoveAt(wire, i)
          /\ UNCHANGED <<tab, stored, unstored, mishaps>>
  BY <1>2 DEF ServeWire, LoseWire, storage
<1>4. accepted' = accepted /\ Grows /\ wire \in Seq(Seq(Error))
  <2>1. Grows
    BY <1>1, <1>3, RecordGrows
  <2>2. accepted' = accepted
    BY <1>3 DEF Record
  <2>3. wire \in Seq(Seq(Error))
    BY <1>1 DEF Inv, TypeOK
  <2> QED BY <2>1, <2>2, <2>3
<1>5. /\ i \in 1 .. Len(wire) /\ Len(wire) \in Nat /\ Len(wire') = Len(wire) - 1
      /\ \A j \in 1 .. Len(wire) - 1 : wire'[j] = IF j < i THEN wire[j] ELSE wire[j + 1]
  BY <1>3, <1>4, RemovedOne
<1>6. wire[i] \in Seq(Error) /\ RunOf(wire[i], accepted)
  BY <1>1, <1>4, <1>5, ElementOfSeq DEF CopyInv, Runs, WireRuns
<1>7. \A e \in Elements(wire[i]) : recorded'[e] > 0
  <2>1. IsFiniteSet(accepted) /\ Cardinality(accepted) <= Limit
    <3>1. raised \in Nat /\ accepted \in SUBSET (1 .. raised)
      BY <1>1 DEF Inv, TypeOK
    <3> QED BY <3>1, AcceptedFinite, HarmlessLimit DEF Calm
  <2>2. Len(wire[i]) <= ServerTake /\ Len(wire[i]) \in Nat
    BY <1>6, <2>1, Fits
  <2>3. InFull(wire[i]) = Len(wire[i])
    BY <2>2 DEF InFull, Smaller
  <2>4. /\ Elements(wire[i]) = {wire[i][j] : j \in 1 .. Len(wire[i])}
        /\ Elements(wire[i]) \subseteq Error
    BY <1>6, ElementsOf
  <2>5. RecordedOf(wire[i], InFull(wire[i]), 1 .. InFull(wire[i])) = Elements(wire[i])
    BY <2>3, <2>4 DEF RecordedOf
  <2> QED BY <1>1, <1>3, <2>4, <2>5, RecordGrows
<1>8. ASSUME NEW e \in Error, Carriers(wire, e) # {} PROVE Carriers(wire', e) # {} \/ recorded'[e] > 0
  <2>1. PICK j \in 1 .. Len(wire) : e \in Elements(wire[j])
    BY <1>8 DEF Carriers
  <2>2. CASE j = i
    BY <1>7, <2>1, <2>2
  <2>3. CASE j < i
    <3>1. j \in 1 .. Len(wire) - 1
      BY <1>5, <2>3
    <3>2. j \in Carriers(wire', e)
      BY <1>5, <2>1, <2>3, <3>1 DEF Carriers
    <3> QED BY <3>2
  <2>4. CASE i < j
    <3>1. j - 1 \in 1 .. Len(wire) - 1 /\ ~(j - 1 < i) /\ (j - 1) + 1 = j
      BY <1>5, <2>4
    <3>2. wire'[j - 1] = wire[j]
      BY <1>5, <3>1
    <3>3. j - 1 \in Carriers(wire', e)
      BY <1>5, <2>1, <3>1, <3>2 DEF Carriers
    <3> QED BY <3>3
  <2> QED BY <1>5, <2>2, <2>3, <2>4
<1>9. ASSUME NEW e \in accepted PROVE Safe(e)'
  <2>1. Safe(e) /\ e \in Error
    BY <1>1, BoundsAssumption DEF Sound, Inv, TypeOK, Error
  <2>2. recorded[e] > 0 => recorded'[e] > 0
    BY <1>4, <2>1 DEF Grows
  <2>3. Rests(e) => Rests(e)'
    BY <1>3 DEF Rests, NobodyUp
  <2>4. (\E t \in Tabs : e \in Elements(tab[t].queue)) => (\E t \in Tabs : e \in Elements(tab[t].queue))'
    BY <1>3
  <2>5. Carriers(wire, e)' = Carriers(wire', e)
    BY DEF Carriers
  <2>6. CASE recorded[e] > 0
    BY <2>2, <2>6 DEF Safe
  <2>7. CASE \E t \in Tabs : e \in Elements(tab[t].queue)
    BY <2>4, <2>7 DEF Safe
  <2>8. CASE Carriers(wire, e) # {}
    <3>1. Carriers(wire, e)' # {} \/ recorded'[e] > 0
      BY <1>8, <2>1, <2>5, <2>8
    <3> QED BY <3>1 DEF Safe
  <2>9. CASE Rests(e)
    BY <2>3, <2>9 DEF Safe
  <2> QED BY <2>1, <2>6, <2>7, <2>8, <2>9 DEF Safe
<1>10. ASSUME NEW t \in Tabs PROVE Prefix(tab'[t]) /\ Answered(tab'[t], recorded')
  <2>1. tab'[t] = tab[t] /\ Prefix(tab[t]) /\ Answered(tab[t], recorded) /\ tab[t].batch \in Seq(Error)
    BY <1>1, <1>3, PageFacts DEF Sound
  <2>2. Elements(tab[t].batch) \subseteq Error
    BY <2>1, ElementsOf
  <2>3. \A e \in Error : recorded[e] > 0 => recorded'[e] > 0
    BY <1>4 DEF Grows
  <2>4. Answered(tab[t], recorded')
    BY <2>1, <2>2, <2>3 DEF Answered
  <2> QED BY <2>1, <2>4
<1>11. \A t \in Tabs : Prefix(tab[t])' /\ Answered(tab[t], recorded)'
  BY <1>10 DEF Prefix, Answered, Elements
<1>12. (Intact => (NobodyUp => stored = <<>>) /\ \A t \in Tabs : Mirrored(tab[t]))'
  <2>1. (Intact' <=> Intact) /\ (NobodyUp' <=> NobodyUp)
    BY <1>3 DEF Intact, Died, NobodyUp
  <2>2. ASSUME NEW t \in Tabs, Mirrored(tab[t]) PROVE Mirrored(tab[t])'
    <3>1. tab' = tab /\ stored' = stored
      BY <1>3
    <3> QED BY <2>2, <3>1 DEF Mirrored, Elements
  <2>3. Intact => (NobodyUp => stored = <<>>) /\ \A t \in Tabs : Mirrored(tab[t])
    BY <1>1 DEF Sound
  <2> QED BY <1>3, <2>1, <2>2, <2>3
<1> QED BY <1>4, <1>9, <1>11, <1>12 DEF Sound

\* Nothing that Harmless looks at is undone.
LEMMA StepWorsens == Inv /\ [Next]_vars => Worsens
<1> SUFFICES ASSUME Inv, [Next]_vars PROVE Worsens
  OBVIOUS
<1>1. accepted \subseteq accepted'
  BY DEF Next, vars, server, Record, Report, ReportIgnored, TimerFires, Serve, ServeInPart, Answer,
         NoAnswer, Load, Hide, Close, Crash, ServeWire, LoseWire
<1>2. UNCHANGED mishaps \/ \E k \in Mishap : Happens(k)
  BY DEF Next, vars, Report, ReportIgnored, TimerFires, Serve, ServeInPart, Answer,
         NoAnswer, Load, Hide, Close, Crash, ServeWire, LoseWire, Mishap
<1>4. unstored <= unstored'
  <2>1. unstored \in Nat
    BY DEF Inv, TypeOK
  <2>2. unstored' = unstored \/ unstored' = unstored + 1
    BY DEF Next, vars, storage, Stores, BeaconTaken, BeaconRefused, Report, ReportIgnored, TimerFires,
           Serve, ServeInPart, Answer, NoAnswer, Load, Hide, Close, Crash, ServeWire, LoseWire
  <2> QED BY <2>1, <2>2
<1>3. ASSUME NEW k \in Mishap PROVE mishaps[k] <= mishaps'[k]
  <2>1. mishaps \in [Mishap -> Nat]
    BY DEF Inv, TypeOK
  <2>2. CASE UNCHANGED mishaps
    BY <2>1, <2>2
  <2>3. ASSUME NEW m \in Mishap, Happens(m) PROVE mishaps[k] <= mishaps'[k]
    BY <2>1, <2>3 DEF Happens
  <2> QED BY <1>2, <2>2, <2>3
<1> QED BY <1>1, <1>3, <1>4 DEF Worsens

LEMMA LossInit == Init => LossInv
<1> SUFFICES ASSUME Init PROVE Sound
  BY DEF LossInv
<1>1. /\ \A t \in Tabs : tab[t] = NoPage
      /\ stored = <<>> /\ accepted = {}
  BY DEF Init
<1>2. NoPage.queue = <<>> /\ NoPage.batch = <<>> /\ NoPage.reply = None /\ Len(<<>>) = 0 /\ Elements(<<>>) = {}
  BY DEF NoPage, Elements
<1> QED BY <1>1, <1>2 DEF Sound, Prefix, Answered, Mirrored

LEMMA LossNext ==
    Inv /\ Inv' /\ HonestInv /\ CopyInv /\ CopyInv' /\ LossInv /\ [Next]_vars => LossInv'
<1> SUFFICES ASSUME Inv, Inv', HonestInv, CopyInv, CopyInv', LossInv, [Next]_vars, Harmless'
             PROVE  Sound'
  BY DEF LossInv
<1>1. Harmless
  BY StepWorsens, HarmlessBefore
<1>2. Calm
  BY <1>1 DEF Calm, LossInv
<1>3. ASSUME NEW t \in Tabs, Report(t) PROVE Sound'
  BY <1>2, <1>3, SoundReport
<1>4. CASE UNCHANGED <<tab, stored, unstored, wire, accepted, recorded, mishaps>>
  <2>1. \A t \in Tabs : Prefix(tab[t])' /\ Answered(tab[t], recorded)'
    BY <1>2, <1>4 DEF Calm, Sound, Prefix, Answered, Elements, storage
  <2>2. (Intact => (NobodyUp => stored = <<>>) /\ \A t \in Tabs : Mirrored(tab[t]))'
    <3>1. (Intact' <=> Intact) /\ (NobodyUp' <=> NobodyUp)
      BY <1>4 DEF Intact, Died, NobodyUp
    <3>2. ASSUME NEW t \in Tabs, Mirrored(tab[t]) PROVE Mirrored(tab[t])'
      <4>1. tab' = tab /\ stored' = stored
        BY <1>4
      <4> QED BY <3>2, <4>1 DEF Mirrored, Elements
    <3>3. Intact => (NobodyUp => stored = <<>>) /\ \A t \in Tabs : Mirrored(tab[t])
      BY <1>2 DEF Calm, Sound
    <3> QED BY <1>4, <3>1, <3>2, <3>3
  <2>3. ASSUME NEW e \in accepted PROVE Safe(e)'
    <3>1. Safe(e)
      BY <1>2 DEF Calm, Sound
    <3>2. (Rests(e) <=> Rests(e)') /\ Carriers(wire, e)' = Carriers(wire, e)
      BY <1>4 DEF Rests, NobodyUp, Carriers, Elements
    <3> QED BY <1>4, <3>1, <3>2 DEF Safe
  <2> QED BY <1>4, <2>1, <2>2, <2>3 DEF Sound
<1>5. ASSUME NEW t \in Tabs, TimerFires(t) PROVE Sound'
  BY <1>2, <1>5, SoundTimer
<1>6. ASSUME NEW t \in Tabs, Serve(t) PROVE Sound'
  BY <1>2, <1>6, SoundServe
<1>7. ASSUME NEW t \in Tabs PROVE ~ServeInPart(t)
  BY <1>2, CalmMishaps DEF ServeInPart, Calm, Mishap
<1>8. ASSUME NEW t \in Tabs, Answer(t) PROVE Sound'
  BY <1>2, <1>8, SoundAnswer
<1>9. ASSUME NEW t \in Tabs, NoAnswer(t) PROVE Sound'
  BY <1>2, <1>9, SoundNoAnswer
<1>10. ASSUME NEW t \in Tabs, Load(t) PROVE Sound'
  BY <1>2, <1>10, SoundLoad
<1>11. ASSUME NEW t \in Tabs, Close(t) \/ Crash(t) PROVE Sound'
  BY <1>2, <1>11, SoundEnds
<1>12. CASE ServeWire \/ LoseWire
  BY <1>2, <1>12, SoundWire
<1>15. ASSUME NEW t \in Tabs, Hide(t) PROVE Sound'
  BY <1>2, <1>15, SoundHide
<1>13. CASE UNCHANGED vars
  BY <1>4, <1>13 DEF vars
<1>14. ASSUME NEW t \in Tabs, ReportIgnored(t) PROVE Sound'
  BY <1>4, <1>14 DEF ReportIgnored, storage
<1> QED BY <1>3, <1>5, <1>6, <1>7, <1>8, <1>9, <1>10, <1>11, <1>12, <1>13, <1>14, <1>15 DEF Next

(* The invariant behind it: while nothing harmful happened the batch is    *)
(* the head of the queue, an answered batch is recorded in full, the only  *)
(* tab is mirrored in localStorage, if every write of its queue went       *)
(* through and no page has died, and every accepted error is somewhere.    *)
THEOREM LossInvariance == Spec => []LossInv
<1>1. Init => LossInv
  BY LossInit
<1>2. Inv /\ Inv' /\ HonestInv /\ CopyInv /\ CopyInv' /\ LossInv /\ [Next]_vars => LossInv'
  BY LossNext
<1> QED BY <1>1, <1>2, Invariance, HonestInvariance, CopiesCounted, PTL DEF Spec

(* No accepted error is lost to an unreachable server, a late answer, a    *)
(* second tab, a page hidden between requests, or writes to localStorage   *)
(* that fail while every page lives; nor, if none failed, to the closing   *)
(* of an only tab or to its one crash.                                     *)
THEOREM NoErrorLost == Spec => []NothingLost
<1>1. ASSUME Inv, LossInv PROVE NothingLost
  <2> SUFFICES ASSUME Harmless, NEW e \in accepted PROVE Kept(e)
    BY DEF NothingLost
  <2>1. Safe(e)
    BY <1>1 DEF LossInv, Sound
  <2>2. DOMAIN wire = 1 .. Len(wire)
    BY <1>1, LenProperties DEF Inv, TypeOK
  <2> QED BY <2>1, <2>2 DEF Safe, Rests, Carriers, Kept
<1> QED BY <1>1, Invariance, LossInvariance, PTL

=============================================================================
