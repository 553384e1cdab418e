-------------------------- MODULE ServerParts_proofs --------------------------
(* Theorems about two parts of the server that requests share: the numbers    *)
(* references are made from and the throttle of anonymous captures.           *)
EXTENDS ReferenceCounter, CaptureThrottle, FiniteSetTheorems, TLAPS

(* References are exact for any number of connections, days and references.   *)

-----------------------------------------------------------------------------
(* The inductive invariant.                                                    *)

\* A row is locked by the one capture that has its number in hand.
LockHeld ==
    /\ \A r \in CounterRow : lock[r] # Nobody =>
          r[1] = "ERR" /\ caller[lock[r]].at = "got" /\ caller[lock[r]].row = r
    /\ \A s \in Callers : caller[s].at = "got" /\ caller[s].row[1] = "ERR"
          => lock[caller[s].row] = s

\* An error counter counts the committed references and the one in hand.
ErrorsCounted ==
    \A r \in CounterRow : r[1] = "ERR" =>
        /\ \A i \in DOMAIN issued[r] : issued[r][i] = i
        /\ counter[r] = Len(issued[r]) + (IF lock[r] = Nobody THEN 0 ELSE 1)
        /\ lock[r] # Nobody => caller[lock[r]].next = counter[r]

\* No ticket number exceeds the counter that gave it out.
TicketsCounted ==
    /\ TicketsDistinct
    /\ \A r \in CounterRow : r[1] = "TKT" =>
          /\ \A i \in DOMAIN issued[r] : issued[r][i] <= counter[r]
          /\ \A s \in InHand(r) : caller[s].next <= counter[r]

\* The connections that found no row and have not inserted theirs.
Racers(r) == {s \in Callers : caller[s].at = "insert" /\ caller[s].row = r}

\* Once a reference of the row is committed, only those already racing can lose.
RaceEnds ==
    \A r \in CounterRow :
        /\ doomed[r] > 0 => issued[r] # << >> /\ r[1] = "ERR"
        /\ issued[r] # << >> => doomed[r] + Cardinality(Racers(r)) < Cardinality(Callers)

\* A ticket that lost the race finds the row at its second attempt.
SecondAttempt ==
    \A s \in Callers :
        /\ caller[s].attempt <= 2
        /\ caller[s].at = "insert" => caller[s].attempt <= 1
        /\ caller[s].attempt = 2 => caller[s].row[1] = "TKT" /\ counter[caller[s].row] > 0

RefInv == RefTypeOK /\ LockHeld /\ ErrorsCounted /\ TicketsCounted /\ RaceEnds /\ SecondAttempt

-----------------------------------------------------------------------------

LEMMA RowTypes ==
    /\ \A r \in CounterRow : r[1] \in RefType
    /\ <<"ERR", 0>> \in CounterRow
    /\ \A type \in RefType, d \in 0 .. LastDay : <<type, d>> \in CounterRow /\ <<type, d>>[1] = type
  BY ReferenceAssumption DEF CounterRow, RefType

LEMMA HandsFinite ==
    ASSUME NEW r
    PROVE  /\ IsFiniteSet(InHand(r)) /\ IsFiniteSet(Racers(r))
           /\ Cardinality(InHand(r)) \in Nat /\ Cardinality(Racers(r)) \in Nat
<1>1. InHand(r) \in SUBSET Callers /\ Racers(r) \in SUBSET Callers  BY DEF InHand, Racers
<1> QED  BY <1>1, FS_Subset, FS_CardinalityType, ReferenceAssumption

LEMMA TakenFromHand ==
    ASSUME NEW a \in Nat, NEW b \in Nat, NEW c \in Nat
    PROVE  a + b + c = (a + 1) + b + (c - 1) /\ a + b + c = a + (b + 1) + (c - 1)
OBVIOUS

LEMMA CallersCounted == IsFiniteSet(Callers) /\ Cardinality(Callers) \in Nat \ {0}
<1>1. IsFiniteSet(Callers) /\ Callers # {}  BY ReferenceAssumption
<1> QED  BY <1>1, FS_CardinalityType, FS_EmptySet

LEMMA RefInitInv == RefInit => RefInv
<1> SUFFICES ASSUME RefInit PROVE RefInv  OBVIOUS
<1> USE DEF RefInit
<1>0. \A s \in Callers : caller[s] = NotAsking  OBVIOUS
<1>1. RefTypeOK
  <2>1. NotAsking \in CallerState  BY RowTypes DEF NotAsking, CallerState
  <2>2. 0 \in 0 .. LastDay  BY ReferenceAssumption
  <2> QED  BY <2>1, <2>2 DEF RefTypeOK
<1>2. LockHeld  BY <1>0 DEF LockHeld, NotAsking
<1>3. ErrorsCounted  BY DEF ErrorsCounted
<1>4. TicketsCounted
  <2>1. ASSUME NEW r \in CounterRow
        PROVE  /\ InHand(r) = {} /\ Cardinality(InHand(r)) = 0
               /\ issued[r] = << >> /\ counter[r] = 0 /\ wasted[r] = 0
    <3>1. InHand(r) = {}  BY <1>0 DEF InHand, NotAsking
    <3> QED  BY <3>1, FS_EmptySet
  <2>2. DOMAIN << >> = {} /\ Len(<< >>) = 0  OBVIOUS
  <2>3. TicketsDistinct  BY <2>1, <2>2 DEF TicketsDistinct
  <2> QED  BY <2>1, <2>2, <2>3 DEF TicketsCounted
<1>5. RaceEnds  BY DEF RaceEnds
<1>6. SecondAttempt  BY <1>0 DEF SecondAttempt, NotAsking
<1> QED  BY <1>1, <1>2, <1>3, <1>4, <1>5, <1>6 DEF RefInv

-----------------------------------------------------------------------------
(* One step.                                                                   *)

LEMMA TypesStep == RefInv /\ [RefNext]_refVars => RefTypeOK'
<1> SUFFICES ASSUME RefInv, [RefNext]_refVars PROVE RefTypeOK'  OBVIOUS
<1>a. RefTypeOK /\ LockHeld /\ ErrorsCounted  BY DEF RefInv
<1> USE <1>a DEF RefTypeOK
<1>0. NotAsking \in CallerState  BY RowTypes DEF NotAsking, CallerState
<1>00. \A s \in Callers : caller[s] \in CallerState /\ caller[s].row \in CounterRow /\ caller[s].next \in Nat
                           /\ caller[s].attempt \in 0 .. 3
  BY DEF CallerState
<1>1. ASSUME NEW s \in Callers, NEW type \in RefType, Request(s, type) PROVE RefTypeOK'
  <2>1. [at |-> "update", row |-> <<type, today>>, attempt |-> 1, next |-> 0] \in CallerState
    BY RowTypes DEF CallerState
  <2> QED  BY <1>1, <2>1 DEF Request
<1>2. ASSUME NEW s \in Callers, NEW n \in Nat, Obtain(s, n) PROVE RefTypeOK'
  <2> DEFINE next == [caller[s] EXCEPT !.at = "got", !.next = n]
  <2>a. next \in CallerState  BY <1>00 DEF CallerState
  <2>b. caller' = [caller EXCEPT ![s] = next]  BY <1>2 DEF Obtain
  <2> HIDE DEF next
  <2>1. caller' \in [Callers -> CallerState]  BY <2>a, <2>b
  <2>2. counter' \in [CounterRow -> Nat]  BY <1>2, <1>00 DEF Obtain
  <2>3. lock' \in [CounterRow -> Callers \cup {Nobody}]  BY <1>2, <1>00 DEF Obtain
  <2> QED  BY <1>2, <2>1, <2>2, <2>3 DEF Obtain
<1>3. ASSUME NEW s \in Callers, ClaimNext(s) PROVE RefTypeOK'
  <2>1. counter[caller[s].row] + 1 \in Nat  BY <1>00
  <2> QED  BY <1>2, <1>3, <2>1 DEF ClaimNext
<1>4. ASSUME NEW s \in Callers, FindNoRow(s) PROVE RefTypeOK'
  <2> DEFINE next == [caller[s] EXCEPT !.at = "insert"]
  <2>1. next \in CallerState  BY <1>00 DEF CallerState
  <2>2. caller' = [caller EXCEPT ![s] = next]  BY <1>4 DEF FindNoRow
  <2> HIDE DEF next
  <2>3. caller' \in [Callers -> CallerState]  BY <2>1, <2>2
  <2> QED  BY <1>4, <2>3 DEF FindNoRow
<1>5. ASSUME NEW s \in Callers, InsertRow(s) PROVE RefTypeOK'
  BY <1>2, <1>5 DEF InsertRow
<1>6. ASSUME NEW s \in Callers, InsertDooms(s) PROVE RefTypeOK'
  BY <1>6, <1>0, <1>00 DEF InsertDooms
<1>7. ASSUME NEW s \in Callers, InsertLoops(s) PROVE RefTypeOK'
  <2> DEFINE next == IF caller[s].attempt = 3 THEN NotAsking
                     ELSE [caller[s] EXCEPT !.at = "update", !.attempt = caller[s].attempt + 1]
  <2>1. next \in CallerState
    <3>1. CASE caller[s].attempt = 3  BY <1>0, <3>1
    <3>2. CASE caller[s].attempt # 3
      <4>a. \A k \in 0 .. 3 : k # 3 => k + 1 \in 0 .. 3  OBVIOUS
      <4>1. caller[s].attempt + 1 \in 0 .. 3  BY <1>00, <3>2, <4>a
      <4> QED  BY <1>00, <3>2, <4>1 DEF CallerState
    <3> QED  BY <3>1, <3>2
  <2>2. caller' = [caller EXCEPT ![s] = next]
    <3>1. CASE caller[s].attempt = 3  BY <1>7, <3>1 DEF InsertLoops
    <3>2. CASE caller[s].attempt # 3  BY <1>7, <3>2 DEF InsertLoops
    <3> QED  BY <3>1, <3>2
  <2> HIDE DEF next
  <2> QED  BY <1>7, <2>1, <2>2 DEF InsertLoops
<1>8. ASSUME NEW s \in Callers PROVE Release(s) \in [CounterRow -> Callers \cup {Nobody}]
  BY DEF Release
<1>9. ASSUME NEW s \in Callers, Commit(s) PROVE RefTypeOK'
  <2>1. issued' \in [CounterRow -> Seq(Nat)]  BY <1>9, <1>00 DEF Commit
  <2> QED  BY <1>9, <1>0, <1>8, <2>1 DEF Commit
<1>10. ASSUME NEW s \in Callers, Rollback(s) PROVE RefTypeOK'
  <2> DEFINE r == caller[s].row
  <2>1. r \in CounterRow /\ counter[r] \in Nat /\ wasted[r] \in Nat  BY <1>a, <1>00
  <2>2. lock[r] = s => counter[r] > 0
    <3>1. issued[r] \in Seq(Nat)  BY <2>1
    <3>2. Len(issued[r]) \in Nat  BY <3>1
    <3>3. lock[r] = s => lock[r] # Nobody /\ r[1] = "ERR"
      BY <2>1, ReferenceAssumption DEF LockHeld
    <3>4. lock[r] = s => counter[r] = Len(issued[r]) + 1
      BY <2>1, <3>3 DEF ErrorsCounted
    <3> HIDE DEF r
    <3> QED  BY <3>2, <3>4
  <2>3. counter' \in [CounterRow -> Nat]  BY <1>a, <1>10, <2>1, <2>2 DEF Rollback
  <2>4. wasted' \in [CounterRow -> Nat]  BY <1>a, <1>10, <2>1 DEF Rollback
  <2> QED  BY <1>a, <1>10, <1>0, <1>8, <2>3, <2>4 DEF Rollback
<1>11. ASSUME NEW s \in Callers, Disconnect(s) PROVE RefTypeOK'
  BY <1>11, <1>0 DEF Disconnect
<1>12. CASE Midnight  BY <1>12, ReferenceAssumption DEF Midnight
<1>13. CASE UNCHANGED refVars  BY <1>13 DEF refVars
<1> QED  BY <1>1, <1>3, <1>4, <1>5, <1>6, <1>7, <1>9, <1>10, <1>11, <1>12, <1>13 DEF RefNext

\* A step of a connection that has no number in hand, and gets none.
LEMMA WithoutNumber ==
    ASSUME RefInv, NEW s \in Callers, NEW x,
           caller[s].at # "got", x.at # "got", caller' = [caller EXCEPT ![s] = x],
           UNCHANGED <<counter, lock, issued, wasted>>
    PROVE  LockHeld' /\ ErrorsCounted' /\ TicketsCounted'
<1>0. RefTypeOK /\ LockHeld /\ ErrorsCounted /\ TicketsCounted  BY DEF RefInv
<1>1. \A u \in Callers : u # s => caller'[u] = caller[u]  BY <1>0 DEF RefTypeOK
<1>2. caller'[s] = x  BY <1>0 DEF RefTypeOK
<1>3. \A r \in CounterRow : lock[r] # Nobody => lock[r] \in Callers /\ lock[r] # s
  BY <1>0 DEF RefTypeOK, LockHeld
<1>4. LockHeld'  BY <1>0, <1>1, <1>2, <1>3 DEF LockHeld
<1>5. ErrorsCounted'
  <2>1. \A r \in CounterRow : lock[r] # Nobody => caller'[lock[r]] = caller[lock[r]]
    BY <1>1, <1>3
  <2> QED  BY <1>0, <2>1 DEF ErrorsCounted
<1>6. \A r : InHand(r)' = InHand(r)  BY <1>1, <1>2 DEF InHand
<1>7. \A r : \A u \in InHand(r) : caller'[u] = caller[u]  BY <1>1, <1>2 DEF InHand
<1>8. TicketsCounted'
  <2>1. TicketsDistinct'  BY <1>0, <1>6, <1>7 DEF TicketsCounted, TicketsDistinct
  <2> QED  BY <1>0, <1>6, <1>7, <2>1 DEF TicketsCounted
<1> QED  BY <1>4, <1>5, <1>8

\* The race when nobody joins it and no capture is lost.
LEMMA NobodyJoins ==
    ASSUME RefInv, \A r \in CounterRow : issued[r] # << >> => Racers(r)' \subseteq Racers(r),
           UNCHANGED <<issued, doomed>>
    PROVE  RaceEnds'
<1>1. RefTypeOK /\ RaceEnds  BY DEF RefInv
<1>2. ASSUME NEW r \in CounterRow, issued[r] # << >>
      PROVE  Cardinality(Racers(r)') <= Cardinality(Racers(r))
  BY <1>2, HandsFinite, FS_Subset
<1>3. ASSUME NEW r \in CounterRow, issued[r] # << >>
      PROVE  doomed[r] + Cardinality(Racers(r)') < Cardinality(Callers)
  <2>1. IsFiniteSet(Racers(r)')  BY <1>3, HandsFinite, FS_Subset
  <2>2. Cardinality(Racers(r)') \in Nat  BY <2>1, FS_CardinalityType
  <2>3. doomed[r] + Cardinality(Racers(r)) < Cardinality(Callers) /\ doomed[r] \in Nat
    BY <1>1, <1>3 DEF RaceEnds, RefTypeOK
  <2> QED  BY <1>2, <1>3, <2>2, <2>3, HandsFinite, CallersCounted
<1> QED  BY <1>1, <1>3 DEF RaceEnds

\* A counter is never behind the references that were committed.
LEMMA CounterAhead ==
    ASSUME RefInv, NEW r \in CounterRow
    PROVE  counter[r] \in Nat /\ Len(issued[r]) \in Nat /\ counter[r] >= Len(issued[r])
           /\ (counter[r] = 0 => issued[r] = << >>)
<1>1. counter[r] \in Nat /\ issued[r] \in Seq(Nat) /\ wasted[r] \in Nat  BY DEF RefInv, RefTypeOK
<1>2. Len(issued[r]) \in Nat /\ (Len(issued[r]) = 0 => issued[r] = << >>)  BY <1>1
<1>3. r[1] = "ERR" \/ r[1] = "TKT"  BY RowTypes DEF RefType
<1>4. CASE r[1] = "ERR"
  <2>1. counter[r] = Len(issued[r]) + (IF lock[r] = Nobody THEN 0 ELSE 1)
    BY <1>4 DEF RefInv, ErrorsCounted
  <2>2. Len(issued[r]) \in Nat /\ counter[r] \in Nat  BY <1>1, <1>2
  <2>3. counter[r] = Len(issued[r]) \/ counter[r] = Len(issued[r]) + 1
    <3>1. CASE lock[r] = Nobody  BY <2>1, <2>2, <3>1
    <3>2. CASE lock[r] # Nobody  BY <2>1, <2>2, <3>2
    <3> QED  BY <3>1, <3>2
  <2>4. counter[r] >= Len(issued[r])  BY <2>2, <2>3
  <2> QED  BY <1>1, <1>2, <2>2, <2>4
<1>5. CASE r[1] = "TKT"
  <2>1. counter[r] = Len(issued[r]) + wasted[r] + Cardinality(InHand(r))
    BY <1>5 DEF RefInv, TicketsCounted, TicketsDistinct
  <2>2. Cardinality(InHand(r)) \in Nat  BY HandsFinite
  <2> QED  BY <1>1, <1>2, <2>1, <2>2
<1> QED  BY <1>3, <1>4, <1>5

\* A reference is handed out: the row is free, and n is the next number.
LEMMA NumberObtained ==
    ASSUME RefInv, NEW s \in Callers, caller[s].at # "got", lock[caller[s].row] = Nobody,
           Obtain(s, counter[caller[s].row] + 1)
    PROVE  LockHeld' /\ ErrorsCounted' /\ TicketsCounted'
<1> DEFINE r == caller[s].row
           n == counter[r] + 1
<1>0. RefTypeOK /\ LockHeld /\ ErrorsCounted /\ TicketsCounted  BY DEF RefInv
<1>1. r \in CounterRow /\ counter[r] \in Nat /\ n \in Nat /\ lock[r] = Nobody
  BY <1>0 DEF RefTypeOK, CallerState
<1>2. /\ \A u \in Callers : u # s => caller'[u] = caller[u]
      /\ caller'[s].at = "got" /\ caller'[s].row = r /\ caller'[s].next = n
  BY <1>0 DEF Obtain, RefTypeOK, CallerState
<1>3. /\ \A q \in CounterRow : q # r => counter'[q] = counter[q] /\ lock'[q] = lock[q]
      /\ counter'[r] = n /\ lock'[r] = (IF r[1] = "ERR" THEN s ELSE Nobody)
      /\ issued' = issued /\ wasted' = wasted
  BY <1>0, <1>1 DEF Obtain, RefTypeOK
<1> HIDE DEF r, n
<1>4. \A q \in CounterRow : lock[q] # Nobody => lock[q] \in Callers /\ lock[q] # s /\ q # r
  BY <1>0, <1>1 DEF RefTypeOK, LockHeld
<1>5. s # Nobody /\ \A u \in Callers : u # Nobody  BY ReferenceAssumption
<1>6. LockHeld'
  <2>1. \A q \in CounterRow : lock'[q] # Nobody =>
           q[1] = "ERR" /\ caller'[lock'[q]].at = "got" /\ caller'[lock'[q]].row = q
    <3> SUFFICES ASSUME NEW q \in CounterRow, lock'[q] # Nobody
                 PROVE  q[1] = "ERR" /\ caller'[lock'[q]].at = "got" /\ caller'[lock'[q]].row = q
      OBVIOUS
    <3>1. CASE q = r  BY <1>2, <1>3, <3>1
    <3>2. CASE q # r
      <4>1. lock'[q] = lock[q] /\ lock[q] # s /\ lock[q] \in Callers  BY <1>3, <1>4, <3>2
      <4> QED  BY <1>0, <1>2, <4>1 DEF LockHeld
    <3> QED  BY <3>1, <3>2
  <2>2. \A u \in Callers : caller'[u].at = "got" /\ caller'[u].row[1] = "ERR"
           => lock'[caller'[u].row] = u
    <3> SUFFICES ASSUME NEW u \in Callers, caller'[u].at = "got", caller'[u].row[1] = "ERR"
                 PROVE  lock'[caller'[u].row] = u
      OBVIOUS
    <3>1. CASE u = s  BY <1>2, <1>3, <3>1
    <3>2. CASE u # s
      <4>1. caller'[u] = caller[u] /\ lock[caller[u].row] = u  BY <1>0, <1>2, <3>2 DEF LockHeld
      <4>2. caller[u].row \in CounterRow  BY <1>0 DEF RefTypeOK, CallerState
      <4> QED  BY <1>1, <1>3, <1>5, <4>1, <4>2
    <3> QED  BY <3>1, <3>2
  <2> QED  BY <2>1, <2>2 DEF LockHeld
<1>7. ErrorsCounted'
  <2> SUFFICES ASSUME NEW q \in CounterRow, q[1] = "ERR"
               PROVE  /\ \A i \in DOMAIN issued[q] : issued[q][i] = i
                      /\ counter'[q] = Len(issued[q]) + (IF lock'[q] = Nobody THEN 0 ELSE 1)
                      /\ lock'[q] # Nobody => caller'[lock'[q]].next = counter'[q]
    BY <1>3 DEF ErrorsCounted
  <2>1. \A i \in DOMAIN issued[q] : issued[q][i] = i  BY <1>0 DEF ErrorsCounted
  <2>2. CASE q = r
    <3>1. counter[r] = Len(issued[r]) + 0  BY <1>0, <1>1, <2>2 DEF ErrorsCounted
    <3>2. Len(issued[r]) \in Nat  BY <1>1, CounterAhead
    <3>3. counter'[r] = Len(issued[r]) + 1  BY <1>1, <1>3, <3>1, <3>2 DEF n
    <3> QED  BY <1>2, <1>3, <1>5, <2>1, <2>2, <3>3
  <2>3. CASE q # r
    <3>1. counter'[q] = counter[q] /\ lock'[q] = lock[q]  BY <1>3, <2>3
    <3>2. lock[q] # Nobody => caller'[lock[q]] = caller[lock[q]]  BY <1>2, <1>4
    <3> QED  BY <1>0, <2>1, <3>1, <3>2 DEF ErrorsCounted
  <2> QED  BY <2>2, <2>3
<1>8. \A q \in CounterRow : q # r => InHand(q)' = InHand(q)  BY <1>2 DEF InHand, r
<1>9. \A q \in CounterRow : q = r => InHand(q)' = InHand(q) \cup {s} /\ s \notin InHand(q)
  BY <1>2 DEF InHand, r
<1>10. \A q \in CounterRow : \A u \in InHand(q) : caller'[u] = caller[u]  BY <1>2 DEF InHand
<1>11. ASSUME NEW q \in CounterRow, q[1] = "TKT"
       PROVE  /\ \A i, j \in DOMAIN issued[q] : issued[q][i] = issued[q][j] => i = j
              /\ \A u, t \in InHand(q)' : caller'[u].next = caller'[t].next => u = t
              /\ \A u \in InHand(q)', i \in DOMAIN issued[q] : issued[q][i] # caller'[u].next
              /\ counter'[q] = Len(issued[q]) + wasted[q] + Cardinality(InHand(q)')
              /\ \A i \in DOMAIN issued[q] : issued[q][i] <= counter'[q]
              /\ \A u \in InHand(q)' : caller'[u].next <= counter'[q]
  <2>0. /\ \A i, j \in DOMAIN issued[q] : issued[q][i] = issued[q][j] => i = j
        /\ \A u, t \in InHand(q) : caller[u].next = caller[t].next => u = t
        /\ \A u \in InHand(q), i \in DOMAIN issued[q] : issued[q][i] # caller[u].next
        /\ counter[q] = Len(issued[q]) + wasted[q] + Cardinality(InHand(q))
        /\ \A i \in DOMAIN issued[q] : issued[q][i] <= counter[q]
        /\ \A u \in InHand(q) : caller[u].next <= counter[q]
    BY <1>0, <1>11 DEF TicketsCounted, TicketsDistinct
  <2>1. CASE q # r
    <3>1. InHand(q)' = InHand(q) /\ counter'[q] = counter[q]  BY <1>3, <1>8, <2>1
    <3> QED  BY <1>10, <2>0, <3>1
  <2>2. CASE q = r
    <3>1. \A i \in DOMAIN issued[q] : issued[q][i] \in Nat
      BY <1>0 DEF RefTypeOK
    <3>2. \A u \in InHand(q) : caller[u].next \in Nat
      BY <1>0 DEF RefTypeOK, CallerState, InHand
    <3>3. \A i \in DOMAIN issued[q] : issued[q][i] < n  BY <1>1, <2>0, <2>2, <3>1 DEF n
    <3>4. \A u \in InHand(q) : caller[u].next < n  BY <1>1, <2>0, <2>2, <3>2 DEF n
    <3>5. \A u \in InHand(q)' : \/ u = s /\ caller'[u].next = n
                                \/ u \in InHand(q) /\ caller'[u] = caller[u]
      BY <1>2, <1>9, <1>10, <2>2
    <3>6. \A u, t \in InHand(q)' : caller'[u].next = caller'[t].next => u = t
      BY <1>1, <2>0, <3>2, <3>4, <3>5
    <3>7. \A u \in InHand(q)', i \in DOMAIN issued[q] : issued[q][i] # caller'[u].next
      BY <1>1, <2>0, <3>1, <3>3, <3>5
    <3>8. Cardinality(InHand(q)') = Cardinality(InHand(q)) + 1
      BY <1>9, <2>2, HandsFinite, FS_AddElement
    <3>9. Len(issued[q]) \in Nat /\ wasted[q] \in Nat /\ Cardinality(InHand(q)) \in Nat
      BY <1>0, CounterAhead, HandsFinite DEF RefTypeOK
    <3>10. counter'[q] = Len(issued[q]) + wasted[q] + Cardinality(InHand(q)')
      <4>1. counter'[q] = counter[q] + 1  BY <1>3, <2>2 DEF n
      <4> QED  BY <2>0, <3>8, <3>9, <4>1
    <3>11. \A i \in DOMAIN issued[q] : issued[q][i] <= counter'[q]  BY <1>1, <1>3, <2>2, <3>1, <3>3
    <3>12. \A u \in InHand(q)' : caller'[u].next <= counter'[q]
      BY <1>1, <1>3, <2>2, <3>2, <3>4, <3>5
    <3> QED  BY <2>0, <3>6, <3>7, <3>10, <3>11, <3>12
  <2> QED  BY <2>1, <2>2
<1>12. TicketsCounted'
  <2>1. TicketsDistinct'  BY <1>3, <1>11 DEF TicketsDistinct
  <2> QED  BY <1>3, <1>11, <2>1 DEF TicketsCounted
<1> QED  BY <1>6, <1>7, <1>12

\* What a transaction's end does to the locks and to the hands.
LEMMA HandEmptied ==
    ASSUME RefInv, NEW s \in Callers, caller[s].at = "got",
           lock' = Release(s), caller' = [caller EXCEPT ![s] = NotAsking]
    PROVE  /\ \A u \in Callers : u # s => caller'[u] = caller[u]
           /\ caller'[s] = NotAsking
           /\ \A q \in CounterRow : q # caller[s].row => lock'[q] = lock[q] /\ lock[q] # s
           /\ lock'[caller[s].row] = Nobody
           /\ lock[caller[s].row] = (IF caller[s].row[1] = "ERR" THEN s ELSE Nobody)
           /\ \A q \in CounterRow : InHand(q)' =
                 (IF q = caller[s].row THEN InHand(q) \ {s} ELSE InHand(q))
           /\ \A q \in CounterRow : s \in InHand(q) <=> q = caller[s].row
           /\ LockHeld'
<1> DEFINE r == caller[s].row
<1>0. RefTypeOK /\ LockHeld  BY DEF RefInv
<1>1. r \in CounterRow /\ s # Nobody  BY <1>0, ReferenceAssumption DEF RefTypeOK, CallerState
<1>2. /\ \A u \in Callers : u # s => caller'[u] = caller[u]
      /\ caller'[s] = NotAsking
  BY <1>0 DEF RefTypeOK
<1>3. \A q \in CounterRow : lock[q] = s => q = r  BY <1>1 DEF RefInv, LockHeld
<1>4. lock[r] = (IF r[1] = "ERR" THEN s ELSE Nobody)
  BY <1>0, <1>1 DEF LockHeld
<1>5. \A q \in CounterRow : lock'[q] = (IF lock[q] = s THEN Nobody ELSE lock[q])  BY DEF Release
<1>6. \A q \in CounterRow : q # r => lock'[q] = lock[q] /\ lock[q] # s  BY <1>3, <1>5
<1>7. lock'[r] = Nobody  BY <1>1, <1>4, <1>5
<1>8. \A q \in CounterRow : s \in InHand(q) <=> q = r  BY DEF InHand
<1>9. \A q \in CounterRow : InHand(q)' = (IF q = r THEN InHand(q) \ {s} ELSE InHand(q))
  BY <1>2, <1>8 DEF InHand, NotAsking
<1>10. LockHeld'
  <2>1. \A q \in CounterRow : lock'[q] # Nobody =>
           q[1] = "ERR" /\ caller'[lock'[q]].at = "got" /\ caller'[lock'[q]].row = q
    <3> SUFFICES ASSUME NEW q \in CounterRow, lock'[q] # Nobody
                 PROVE  q[1] = "ERR" /\ caller'[lock'[q]].at = "got" /\ caller'[lock'[q]].row = q
      OBVIOUS
    <3>1. lock'[q] = lock[q] /\ lock[q] # s  BY <1>6, <1>7
    <3>2. lock[q] \in Callers  BY <1>0, <3>1 DEF RefTypeOK
    <3> QED  BY <1>0, <1>2, <3>1, <3>2 DEF LockHeld
  <2>2. \A u \in Callers : caller'[u].at = "got" /\ caller'[u].row[1] = "ERR"
           => lock'[caller'[u].row] = u
    <3> SUFFICES ASSUME NEW u \in Callers, caller'[u].at = "got", caller'[u].row[1] = "ERR"
                 PROVE  lock'[caller'[u].row] = u
      OBVIOUS
    <3>1. u # s  BY <1>2 DEF NotAsking
    <3>2. caller'[u] = caller[u] /\ lock[caller[u].row] = u  BY <1>0, <1>2, <3>1 DEF LockHeld
    <3>3. caller[u].row \in CounterRow  BY <1>0 DEF RefTypeOK, CallerState
    <3> QED  BY <1>5, <3>1, <3>2, <3>3
  <2> QED  BY <2>1, <2>2 DEF LockHeld
<1> QED  BY <1>2, <1>4, <1>6, <1>7, <1>8, <1>9, <1>10

LEMMA CommitCounts ==
    ASSUME RefInv, NEW s \in Callers, Commit(s)
    PROVE  LockHeld' /\ ErrorsCounted' /\ TicketsCounted'
<1> DEFINE r == caller[s].row
           n == caller[s].next
<1>0. RefTypeOK /\ LockHeld /\ ErrorsCounted /\ TicketsCounted  BY DEF RefInv
<1>1. caller[s].at = "got" /\ lock' = Release(s) /\ caller' = [caller EXCEPT ![s] = NotAsking]
  BY DEF Commit
<1>2. r \in CounterRow /\ n \in Nat /\ issued[r] \in Seq(Nat) /\ s # Nobody
  BY <1>0, ReferenceAssumption DEF RefTypeOK, CallerState
<1>3. /\ counter' = counter /\ wasted' = wasted
      /\ \A q \in CounterRow : q # r => issued'[q] = issued[q]
      /\ issued'[r] = Append(issued[r], n)
  BY <1>0, <1>2 DEF Commit, RefTypeOK
<1>4. /\ Len(issued'[r]) = Len(issued[r]) + 1 /\ Len(issued[r]) \in Nat
      /\ \A i \in DOMAIN issued'[r] :
            \/ i \in DOMAIN issued[r] /\ issued'[r][i] = issued[r][i]
            \/ i = Len(issued[r]) + 1 /\ issued'[r][i] = n
      /\ Len(issued[r]) + 1 \notin DOMAIN issued[r]
  BY <1>2, <1>3
<1>5. /\ \A u \in Callers : u # s => caller'[u] = caller[u]
      /\ \A q \in CounterRow : q # r => lock'[q] = lock[q] /\ lock[q] # s
      /\ lock'[r] = Nobody
      /\ lock[r] = (IF r[1] = "ERR" THEN s ELSE Nobody)
      /\ \A q \in CounterRow : InHand(q)' = (IF q = r THEN InHand(q) \ {s} ELSE InHand(q))
      /\ \A q \in CounterRow : s \in InHand(q) <=> q = r
      /\ LockHeld'
  BY <1>1, HandEmptied
<1>6. \A q \in CounterRow : \A u \in InHand(q)' : u \in InHand(q) /\ u # s /\ caller'[u] = caller[u]
  <2> SUFFICES ASSUME NEW q \in CounterRow, NEW u \in InHand(q)'
               PROVE  u \in InHand(q) /\ u # s /\ caller'[u] = caller[u]
    OBVIOUS
  <2>1. u \in InHand(q) /\ u # s  BY <1>5
  <2> QED  BY <1>5, <2>1 DEF InHand
<1> HIDE DEF r, n
<1>7. ErrorsCounted'
  <2> SUFFICES ASSUME NEW q \in CounterRow, q[1] = "ERR"
               PROVE  /\ \A i \in DOMAIN issued'[q] : issued'[q][i] = i
                      /\ counter'[q] = Len(issued'[q]) + (IF lock'[q] = Nobody THEN 0 ELSE 1)
                      /\ lock'[q] # Nobody => caller'[lock'[q]].next = counter'[q]
    BY DEF ErrorsCounted
  <2>1. CASE q = r
    <3>1. lock[r] = s /\ n = counter[r] /\ counter[r] = Len(issued[r]) + 1
      BY <1>0, <1>2, <1>5, <2>1 DEF ErrorsCounted, r, n
    <3>2. \A i \in DOMAIN issued'[r] : issued'[r][i] = i
      BY <1>0, <1>2, <1>4, <2>1, <3>1 DEF ErrorsCounted
    <3> QED  BY <1>3, <1>4, <1>5, <2>1, <3>1, <3>2
  <2>2. CASE q # r
    <3>1. counter'[q] = counter[q] /\ lock'[q] = lock[q] /\ issued'[q] = issued[q]  BY <1>3, <1>5, <2>2
    <3>2. lock[q] # Nobody => caller'[lock[q]] = caller[lock[q]]  BY <1>0, <1>5, <2>2 DEF RefTypeOK
    <3> QED  BY <1>0, <3>1, <3>2 DEF ErrorsCounted
  <2> QED  BY <2>1, <2>2
<1>8. ASSUME NEW q \in CounterRow, q[1] = "TKT"
      PROVE  /\ \A i, j \in DOMAIN issued'[q] : issued'[q][i] = issued'[q][j] => i = j
             /\ \A u, t \in InHand(q)' : caller'[u].next = caller'[t].next => u = t
             /\ \A u \in InHand(q)', i \in DOMAIN issued'[q] : issued'[q][i] # caller'[u].next
             /\ counter'[q] = Len(issued'[q]) + wasted'[q] + Cardinality(InHand(q)')
             /\ \A i \in DOMAIN issued'[q] : issued'[q][i] <= counter'[q]
             /\ \A u \in InHand(q)' : caller'[u].next <= counter'[q]
  <2>0. /\ \A i, j \in DOMAIN issued[q] : issued[q][i] = issued[q][j] => i = j
        /\ \A u, t \in InHand(q) : caller[u].next = caller[t].next => u = t
        /\ \A u \in InHand(q), i \in DOMAIN issued[q] : issued[q][i] # caller[u].next
        /\ counter[q] = Len(issued[q]) + wasted[q] + Cardinality(InHand(q))
        /\ \A i \in DOMAIN issued[q] : issued[q][i] <= counter[q]
        /\ \A u \in InHand(q) : caller[u].next <= counter[q]
    BY <1>0, <1>8 DEF TicketsCounted, TicketsDistinct
  <2>1. CASE q # r
    <3>1. InHand(q)' = InHand(q) /\ issued'[q] = issued[q]  BY <1>3, <1>5, <2>1
    <3> QED  BY <1>3, <1>6, <2>0, <3>1
  <2>2. CASE q = r
    <3>1. s \in InHand(q) /\ n = caller[s].next /\ InHand(q)' = InHand(q) \ {s}  BY <1>5, <2>2 DEF n
    <3>2. \A u \in InHand(q)' : caller'[u].next = caller[u].next /\ caller[u].next # n
      BY <1>6, <2>0, <3>1
    <3>3. \A i, j \in DOMAIN issued'[q] : issued'[q][i] = issued'[q][j] => i = j
      BY <1>4, <2>0, <2>2, <3>1
    <3>4. \A u, t \in InHand(q)' : caller'[u].next = caller'[t].next => u = t
      BY <1>6, <2>0, <3>2
    <3>5. \A u \in InHand(q)', i \in DOMAIN issued'[q] : issued'[q][i] # caller'[u].next
      BY <1>4, <1>6, <2>0, <2>2, <3>2
    <3>6. Cardinality(InHand(q)') = Cardinality(InHand(q)) - 1
      BY <3>1, HandsFinite, FS_RemoveElement
    <3>7. Len(issued'[q]) = Len(issued[q]) + 1 /\ Len(issued[q]) \in Nat
          /\ wasted[q] \in Nat /\ Cardinality(InHand(q)) \in Nat
      BY <1>0, <1>4, <2>2, HandsFinite DEF RefTypeOK
    <3>8. counter'[q] = Len(issued'[q]) + wasted'[q] + Cardinality(InHand(q)')
      <4>1. counter'[q] = counter[q] /\ wasted'[q] = wasted[q]  BY <1>3
      <4>2. counter[q] = Len(issued[q]) + wasted[q] + Cardinality(InHand(q))  BY <2>0
      <4>3. counter[q] = (Len(issued[q]) + 1) + wasted[q] + (Cardinality(InHand(q)) - 1)
        BY <3>7, <4>2, TakenFromHand
      <4> QED  BY Zenon, <3>6, <3>7, <4>1, <4>3
    <3>9. \A i \in DOMAIN issued'[q] : issued'[q][i] <= counter'[q]
      <4>1. counter'[q] = counter[q] /\ n <= counter[q]  BY <1>3, <2>0, <3>1
      <4> QED  BY <1>4, <2>0, <2>2, <4>1
    <3>10. \A u \in InHand(q)' : caller'[u].next <= counter'[q]
      BY <1>3, <1>6, <2>0
    <3> QED  BY <3>3, <3>4, <3>5, <3>8, <3>9, <3>10
  <2> QED  BY <2>1, <2>2
<1>9. TicketsCounted'
  <2>1. TicketsDistinct'  BY <1>8 DEF TicketsDistinct
  <2> QED  BY <1>8, <2>1 DEF TicketsCounted
<1> QED  BY <1>5, <1>7, <1>9

LEMMA RollbackCounts ==
    ASSUME RefInv, NEW s \in Callers, Rollback(s)
    PROVE  LockHeld' /\ ErrorsCounted' /\ TicketsCounted'
<1> DEFINE r == caller[s].row
<1>0. RefTypeOK /\ LockHeld /\ ErrorsCounted /\ TicketsCounted  BY DEF RefInv
<1>1. caller[s].at = "got" /\ lock' = Release(s) /\ caller' = [caller EXCEPT ![s] = NotAsking]
  BY DEF Rollback
<1>2. r \in CounterRow /\ counter[r] \in Nat /\ wasted[r] \in Nat /\ s # Nobody
  BY <1>0, ReferenceAssumption DEF RefTypeOK, CallerState
<1>3. /\ issued' = issued
      /\ \A q \in CounterRow : q # r => counter'[q] = counter[q] /\ wasted'[q] = wasted[q]
      /\ counter'[r] = counter[r] - (IF lock[r] = s THEN 1 ELSE 0)
      /\ wasted'[r] = wasted[r] + (IF lock[r] = s THEN 0 ELSE 1)
  BY <1>0, <1>2 DEF Rollback, RefTypeOK
<1>5. /\ \A u \in Callers : u # s => caller'[u] = caller[u]
      /\ \A q \in CounterRow : q # r => lock'[q] = lock[q] /\ lock[q] # s
      /\ lock'[r] = Nobody
      /\ lock[r] = (IF r[1] = "ERR" THEN s ELSE Nobody)
      /\ \A q \in CounterRow : InHand(q)' = (IF q = r THEN InHand(q) \ {s} ELSE InHand(q))
      /\ \A q \in CounterRow : s \in InHand(q) <=> q = r
      /\ LockHeld'
  BY <1>1, HandEmptied
<1>6. \A q \in CounterRow : \A u \in InHand(q)' : u \in InHand(q) /\ u # s /\ caller'[u] = caller[u]
  <2> SUFFICES ASSUME NEW q \in CounterRow, NEW u \in InHand(q)'
               PROVE  u \in InHand(q) /\ u # s /\ caller'[u] = caller[u]
    OBVIOUS
  <2>1. u \in InHand(q) /\ u # s  BY <1>5
  <2> QED  BY <1>5, <2>1 DEF InHand
<1> HIDE DEF r
<1>7. ErrorsCounted'
  <2> SUFFICES ASSUME NEW q \in CounterRow, q[1] = "ERR"
               PROVE  /\ \A i \in DOMAIN issued[q] : issued[q][i] = i
                      /\ counter'[q] = Len(issued[q]) + (IF lock'[q] = Nobody THEN 0 ELSE 1)
                      /\ lock'[q] # Nobody => caller'[lock'[q]].next = counter'[q]
    BY <1>3 DEF ErrorsCounted
  <2>1. CASE q = r
    <3>1. lock[r] = s /\ counter[r] = Len(issued[r]) + 1 /\ Len(issued[r]) \in Nat
      BY <1>0, <1>2, <1>5, <2>1, CounterAhead DEF ErrorsCounted
    <3>2. counter'[r] = Len(issued[r]) + 0  BY <1>3, <3>1
    <3> QED  BY <1>0, <1>5, <2>1, <3>2 DEF ErrorsCounted
  <2>2. CASE q # r
    <3>1. counter'[q] = counter[q] /\ lock'[q] = lock[q]  BY <1>3, <1>5, <2>2
    <3>2. lock[q] # Nobody => caller'[lock[q]] = caller[lock[q]]  BY <1>0, <1>5, <2>2 DEF RefTypeOK
    <3> QED  BY <1>0, <3>1, <3>2 DEF ErrorsCounted
  <2> QED  BY <2>1, <2>2
<1>8. ASSUME NEW q \in CounterRow, q[1] = "TKT"
      PROVE  /\ \A u, t \in InHand(q)' : caller'[u].next = caller'[t].next => u = t
             /\ \A u \in InHand(q)', i \in DOMAIN issued[q] : issued[q][i] # caller'[u].next
             /\ counter'[q] = Len(issued[q]) + wasted'[q] + Cardinality(InHand(q)')
             /\ counter'[q] = counter[q]
             /\ \A u \in InHand(q)' : caller'[u].next <= counter'[q]
  <2>0. /\ \A u, t \in InHand(q) : caller[u].next = caller[t].next => u = t
        /\ \A u \in InHand(q), i \in DOMAIN issued[q] : issued[q][i] # caller[u].next
        /\ counter[q] = Len(issued[q]) + wasted[q] + Cardinality(InHand(q))
        /\ \A u \in InHand(q) : caller[u].next <= counter[q]
    BY <1>0, <1>8 DEF TicketsCounted, TicketsDistinct
  <2>1. counter'[q] = counter[q]
    <3>1. CASE q = r
      <4>1. lock[r] # s  BY <1>2, <1>5, <1>8, <3>1
      <4> QED  BY <1>2, <1>3, <3>1, <4>1
    <3>2. CASE q # r  BY <1>3, <3>2
    <3> QED  BY <3>1, <3>2
  <2>2. counter'[q] = Len(issued[q]) + wasted'[q] + Cardinality(InHand(q)')
    <3>1. CASE q # r
      <4>1. InHand(q)' = InHand(q)  BY <1>5, <3>1
      <4> QED  BY <1>3, <2>0, <3>1, <4>1
    <3>2. CASE q = r
      <4>1. s \in InHand(q) /\ InHand(q)' = InHand(q) \ {s}  BY <1>5, <3>2
      <4>2. Cardinality(InHand(q)') = Cardinality(InHand(q)) - 1
        BY <4>1, HandsFinite, FS_RemoveElement
      <4>3. Len(issued[q]) \in Nat /\ wasted[q] \in Nat /\ Cardinality(InHand(q)) \in Nat
        BY <1>0, CounterAhead, HandsFinite DEF RefTypeOK
      <4>4. lock[r] # s  BY <1>2, <1>5, <1>8, <3>2
      <4>5. wasted'[q] = wasted[q] + 1  BY <1>3, <3>2, <4>4
      <4>6. counter[q] = Len(issued[q]) + wasted[q] + Cardinality(InHand(q))  BY <2>0
      <4>7. counter[q] = Len(issued[q]) + (wasted[q] + 1) + (Cardinality(InHand(q)) - 1)
        BY <4>3, <4>6, TakenFromHand
      <4> QED  BY Zenon, <2>1, <4>2, <4>5, <4>7
    <3> QED  BY <3>1, <3>2
  <2> QED  BY <1>6, <2>0, <2>1, <2>2
<1>9. TicketsCounted'
  <2>1. TicketsDistinct'  BY <1>0, <1>3, <1>8 DEF TicketsCounted, TicketsDistinct
  <2> QED  BY <1>0, <1>3, <1>8, <2>1 DEF TicketsCounted
<1> QED  BY <1>5, <1>7, <1>9

-----------------------------------------------------------------------------

LEMMA CountsStep ==
    RefInv /\ [RefNext]_refVars => LockHeld' /\ ErrorsCounted' /\ TicketsCounted'
<1> SUFFICES ASSUME RefInv, [RefNext]_refVars
             PROVE  LockHeld' /\ ErrorsCounted' /\ TicketsCounted'
  OBVIOUS
<1>0. \A s \in Callers : caller[s] \in CallerState  BY DEF RefInv, RefTypeOK
<1>1. ASSUME NEW s \in Callers, NEW type \in RefType, Request(s, type)
      PROVE  LockHeld' /\ ErrorsCounted' /\ TicketsCounted'
  BY <1>1, WithoutNumber DEF Request
<1>2. ASSUME NEW s \in Callers, ClaimNext(s) PROVE LockHeld' /\ ErrorsCounted' /\ TicketsCounted'
  BY <1>2, NumberObtained DEF ClaimNext, Touches
<1>3. ASSUME NEW s \in Callers, FindNoRow(s) PROVE LockHeld' /\ ErrorsCounted' /\ TicketsCounted'
  <2>1. [caller[s] EXCEPT !.at = "insert"].at # "got"  BY <1>0 DEF CallerState
  <2>2. caller' = [caller EXCEPT ![s] = [caller[s] EXCEPT !.at = "insert"]]  BY <1>3 DEF FindNoRow
  <2> QED  BY <1>3, <2>1, <2>2, WithoutNumber DEF FindNoRow, Touches
<1>4. ASSUME NEW s \in Callers, InsertRow(s) PROVE LockHeld' /\ ErrorsCounted' /\ TicketsCounted'
  <2>1. counter[caller[s].row] + 1 = 1  BY <1>4 DEF InsertRow
  <2> QED  BY <1>4, <2>1, NumberObtained DEF InsertRow, Touches
<1>5. ASSUME NEW s \in Callers, InsertDooms(s) PROVE LockHeld' /\ ErrorsCounted' /\ TicketsCounted'
  BY <1>5, WithoutNumber DEF InsertDooms, Touches, NotAsking
<1>6. ASSUME NEW s \in Callers, InsertLoops(s) PROVE LockHeld' /\ ErrorsCounted' /\ TicketsCounted'
  <2> DEFINE next == IF caller[s].attempt = 3 THEN NotAsking
                     ELSE [caller[s] EXCEPT !.at = "update", !.attempt = caller[s].attempt + 1]
  <2>1. next.at # "got"  BY <1>0 DEF CallerState, NotAsking
  <2>2. caller' = [caller EXCEPT ![s] = next]  BY <1>6 DEF InsertLoops
  <2> HIDE DEF next
  <2> QED  BY <1>6, <2>1, <2>2, WithoutNumber DEF InsertLoops, Touches
<1>7. ASSUME NEW s \in Callers, Disconnect(s) PROVE LockHeld' /\ ErrorsCounted' /\ TicketsCounted'
  BY <1>7, WithoutNumber DEF Disconnect, NotAsking
<1>8. CASE Midnight \/ UNCHANGED refVars
  <2>1. UNCHANGED <<counter, lock, caller, issued, wasted, doomed>>  BY <1>8 DEF Midnight, refVars
  <2>2. \A r : InHand(r)' = InHand(r)  BY <2>1 DEF InHand
  <2>3. LockHeld'  BY <2>1 DEF RefInv, LockHeld
  <2>4. ErrorsCounted'  BY <2>1 DEF RefInv, ErrorsCounted
  <2>5. TicketsDistinct /\ TicketsCounted  BY DEF RefInv, TicketsCounted
  <2>6. TicketsDistinct'  BY <2>1, <2>2, <2>5 DEF TicketsDistinct
  <2>7. TicketsCounted'  BY <2>1, <2>2, <2>5, <2>6 DEF TicketsCounted
  <2> QED  BY <2>3, <2>4, <2>7
<1> QED  BY <1>1, <1>2, <1>3, <1>4, <1>5, <1>6, <1>7, <1>8, CommitCounts, RollbackCounts DEF RefNext

\* A step of s that leaves it outside the race.
LEMMA LeavesRace ==
    ASSUME RefInv, NEW s \in Callers, NEW x, x.at # "insert", caller' = [caller EXCEPT ![s] = x]
    PROVE  \A r \in CounterRow : Racers(r)' = Racers(r) \ {s}
<1>1. \A u \in Callers : caller'[u] = IF u = s THEN x ELSE caller[u]  BY DEF RefInv, RefTypeOK
<1> QED  BY <1>1 DEF Racers

LEMMA RaceStep == RefInv /\ [RefNext]_refVars => RaceEnds'
<1> SUFFICES ASSUME RefInv, [RefNext]_refVars PROVE RaceEnds'  OBVIOUS
<1>0. RefTypeOK /\ RaceEnds  BY DEF RefInv
<1>00. \A s \in Callers : caller[s] \in CallerState /\ caller[s].row \in CounterRow
  BY <1>0 DEF RefTypeOK, CallerState
<1>1. ASSUME NEW s \in Callers, NEW x, x.at # "insert", caller' = [caller EXCEPT ![s] = x],
             UNCHANGED <<issued, doomed>>
      PROVE  RaceEnds'
  BY <1>1, LeavesRace, NobodyJoins
<1>2. ASSUME NEW s \in Callers, NEW type \in RefType, Request(s, type) PROVE RaceEnds'
  BY <1>1, <1>2 DEF Request
<1>3. ASSUME NEW s \in Callers, NEW n, Obtain(s, n) PROVE RaceEnds'
  <2>1. [caller[s] EXCEPT !.at = "got", !.next = n].at # "insert"  BY <1>00 DEF CallerState
  <2>2. caller' = [caller EXCEPT ![s] = [caller[s] EXCEPT !.at = "got", !.next = n]]
    BY <1>3 DEF Obtain
  <2> QED  BY <1>1, <1>3, <2>1, <2>2 DEF Obtain
<1>4. ASSUME NEW s \in Callers, FindNoRow(s) PROVE RaceEnds'
  <2>1. issued[caller[s].row] = << >>  BY <1>00, <1>4, CounterAhead DEF FindNoRow
  <2>2. \A u \in Callers : u # s => caller'[u] = caller[u]  BY <1>0, <1>4 DEF FindNoRow, RefTypeOK
  <2>3. caller'[s].row = caller[s].row  BY <1>0, <1>00, <1>4 DEF FindNoRow, RefTypeOK, CallerState
  <2>4. \A r \in CounterRow : issued[r] # << >> => Racers(r)' \subseteq Racers(r)
    BY <2>1, <2>2, <2>3 DEF Racers
  <2> QED  BY <1>4, <2>4, NobodyJoins DEF FindNoRow
<1>5. ASSUME NEW s \in Callers, InsertLoops(s) PROVE RaceEnds'
  <2> DEFINE next == IF caller[s].attempt = 3 THEN NotAsking
                     ELSE [caller[s] EXCEPT !.at = "update", !.attempt = caller[s].attempt + 1]
  <2>1. next.at # "insert"  BY <1>00 DEF CallerState, NotAsking
  <2>2. caller' = [caller EXCEPT ![s] = next]  BY <1>5 DEF InsertLoops
  <2> HIDE DEF next
  <2> QED  BY <1>1, <1>5, <2>1, <2>2 DEF InsertLoops
<1>6. ASSUME NEW s \in Callers, InsertDooms(s) PROVE RaceEnds'
  <2> DEFINE r == caller[s].row
  <2>1. r \in CounterRow /\ r[1] = "ERR" /\ lock[r] = Nobody /\ counter[r] > 0 /\ s \in Racers(r)
    BY <1>00, <1>6 DEF InsertDooms, Touches, Racers
  <2>2. issued' = issued /\ doomed' = [doomed EXCEPT ![r] = @ + 1]  BY <1>6 DEF InsertDooms
  <2>3. \A q \in CounterRow : Racers(q)' = Racers(q) \ {s}
    BY <1>6, LeavesRace DEF InsertDooms, NotAsking
  <2>4. \A q \in CounterRow : s \in Racers(q) => q = r  BY DEF Racers
  <2> HIDE DEF r
  <2>5. issued[r] # << >>
    <3>1. counter[r] = Len(issued[r]) + 0  BY <2>1 DEF RefInv, ErrorsCounted
    <3>2. Len(issued[r]) \in Nat /\ Len(<< >>) = 0  BY <2>1, CounterAhead
    <3> QED  BY <2>1, <3>1, <3>2
  <2> SUFFICES ASSUME NEW q \in CounterRow
               PROVE  /\ doomed'[q] > 0 => issued[q] # << >> /\ q[1] = "ERR"
                      /\ issued[q] # << >> => doomed'[q] + Cardinality(Racers(q)') < Cardinality(Callers)
    BY <2>2 DEF RaceEnds
  <2>6. CASE q = r
    <3>1. Cardinality(Racers(q)') = Cardinality(Racers(q)) - 1
      BY <2>1, <2>3, <2>6, HandsFinite, FS_RemoveElement
    <3>2. doomed'[q] = doomed[q] + 1 /\ doomed[q] \in Nat  BY <1>0, <2>1, <2>2, <2>6 DEF RefTypeOK
    <3>3. doomed[q] + Cardinality(Racers(q)) < Cardinality(Callers)  BY <1>0, <2>5, <2>6 DEF RaceEnds
    <3>4. Cardinality(Racers(q)) \in Nat /\ Cardinality(Callers) \in Nat  BY HandsFinite, CallersCounted
    <3> QED  BY <2>1, <2>5, <2>6, <3>1, <3>2, <3>3, <3>4
  <2>7. CASE q # r
    <3>1. Racers(q)' = Racers(q)  BY <2>3, <2>4, <2>7
    <3>2. doomed'[q] = doomed[q]  BY <1>0, <2>2, <2>7 DEF RefTypeOK
    <3> QED  BY <1>0, <3>1, <3>2 DEF RaceEnds
  <2> QED  BY <2>6, <2>7
<1>7. ASSUME NEW s \in Callers, Commit(s) PROVE RaceEnds'
  <2> DEFINE r == caller[s].row
  <2>1. r \in CounterRow /\ caller[s].at = "got"  BY <1>00, <1>7 DEF Commit
  <2>2. /\ doomed' = doomed /\ issued' = [issued EXCEPT ![r] = Append(@, caller[s].next)]
        /\ caller' = [caller EXCEPT ![s] = NotAsking]
    BY <1>7 DEF Commit
  <2>3. \A q \in CounterRow : Racers(q)' = Racers(q) \ {s} /\ s \notin Racers(q)
    BY <2>1, <2>2, LeavesRace DEF NotAsking, Racers
  <2>4. Append(issued[r], caller[s].next) # << >>
    <3>1. issued[r] \in Seq(Nat) /\ caller[s].next \in Nat
      BY <1>0, <1>00, <2>1 DEF RefTypeOK, CallerState
    <3> DEFINE was == issued[r]
               n == caller[s].next
    <3> HIDE DEF r, was, n
    <3>2. ASSUME was \in Seq(Nat), n \in Nat PROVE Append(was, n) # << >>
      <4>1. Len(Append(was, n)) = Len(was) + 1 /\ Len(was) \in Nat  BY <3>2
      <4>2. Len(<< >>) = 0  OBVIOUS
      <4> QED  BY <4>1, <4>2
    <3> QED  BY <3>1, <3>2 DEF was, n
  <2> HIDE DEF r
  <2> SUFFICES ASSUME NEW q \in CounterRow
               PROVE  /\ doomed[q] > 0 => issued'[q] # << >> /\ q[1] = "ERR"
                      /\ issued'[q] # << >> => doomed[q] + Cardinality(Racers(q)') < Cardinality(Callers)
    BY <2>2 DEF RaceEnds
  <2>5. Racers(q)' = Racers(q)  BY <2>3
  <2>6. CASE issued[q] # << >>
    <3>1. issued'[q] # << >>
      BY <1>0, <2>2, <2>4, <2>6 DEF RefTypeOK
    <3> QED  BY <1>0, <2>5, <2>6, <3>1 DEF RaceEnds
  <2>7. CASE issued[q] = << >>
    <3>1. doomed[q] = 0  BY <1>0, <2>7 DEF RaceEnds, RefTypeOK
    <3>2. Racers(q) \in SUBSET (Callers \ {s})  BY <2>3 DEF Racers
    <3>3. /\ IsFiniteSet(Callers \ {s})
          /\ Cardinality(Callers \ {s}) = Cardinality(Callers) - 1
      BY CallersCounted, FS_RemoveElement
    <3>4. Cardinality(Racers(q)) <= Cardinality(Callers \ {s})  BY <3>2, <3>3, FS_Subset
    <3>5. Cardinality(Racers(q)) \in Nat /\ Cardinality(Callers) \in Nat  BY HandsFinite, CallersCounted
    <3> QED  BY <2>5, <3>1, <3>3, <3>4, <3>5
  <2> QED  BY <2>6, <2>7
<1>8. ASSUME NEW s \in Callers, Rollback(s) PROVE RaceEnds'
  BY <1>1, <1>8 DEF Rollback, NotAsking
<1>9. ASSUME NEW s \in Callers, Disconnect(s) PROVE RaceEnds'
  BY <1>1, <1>9 DEF Disconnect, NotAsking
<1>10. CASE Midnight \/ UNCHANGED refVars
  <2>1. UNCHANGED <<caller, issued, doomed>>  BY <1>10 DEF Midnight, refVars
  <2>2. \A r : Racers(r)' = Racers(r)  BY <2>1 DEF Racers
  <2> QED  BY <2>1, <2>2, NobodyJoins
<1>11. ASSUME NEW s \in Callers, ClaimNext(s) \/ InsertRow(s) PROVE RaceEnds'
  BY <1>3, <1>11 DEF ClaimNext, InsertRow
<1> QED  BY <1>2, <1>4, <1>5, <1>6, <1>7, <1>8, <1>9, <1>10, <1>11 DEF RefNext

LEMMA AttemptsStep == RefInv /\ [RefNext]_refVars => SecondAttempt'
<1> SUFFICES ASSUME RefInv, [RefNext]_refVars PROVE SecondAttempt'  OBVIOUS
<1>0. RefTypeOK /\ SecondAttempt  BY DEF RefInv
<1>00. \A s \in Callers : caller[s] \in CallerState /\ caller[s].row \in CounterRow
  BY <1>0 DEF RefTypeOK, CallerState
\* One caller moves, and no used row loses its counter.
<1>1. ASSUME NEW s \in Callers, NEW x, caller' = [caller EXCEPT ![s] = x],
             \A r \in CounterRow : r[1] = "TKT" /\ counter[r] > 0 => counter'[r] > 0,
             x.attempt <= 2, x.at = "insert" => x.attempt <= 1,
             x.attempt = 2 => x.row[1] = "TKT" /\ counter'[x.row] > 0
      PROVE  SecondAttempt'
  <2>1. \A u \in Callers : caller'[u] = IF u = s THEN x ELSE caller[u]  BY <1>0, <1>1 DEF RefTypeOK
  <2> QED  BY <1>0, <1>00, <1>1, <2>1 DEF SecondAttempt
<1>2. ASSUME NEW s \in Callers, NEW type \in RefType, Request(s, type) PROVE SecondAttempt'
  <2> DEFINE x == [at |-> "update", row |-> <<type, today>>, attempt |-> 1, next |-> 0]
  <2>1. caller' = [caller EXCEPT ![s] = x] /\ counter' = counter  BY <1>2 DEF Request
  <2>2. x.attempt = 1 /\ x.at = "update"  OBVIOUS
  <2> HIDE DEF x
  <2>3. x.attempt <= 2 /\ x.at # "insert" /\ x.attempt # 2  BY <2>2
  <2> QED  BY <1>1, <2>1, <2>3
<1>3. ASSUME NEW s \in Callers, Touches(s, "update") \/ Touches(s, "insert"),
             counter[caller[s].row] \in Nat, Obtain(s, counter[caller[s].row] + 1)
      PROVE  SecondAttempt'
  <2> DEFINE x == [caller[s] EXCEPT !.at = "got", !.next = counter[caller[s].row] + 1]
  <2>1. caller' = [caller EXCEPT ![s] = x]  BY <1>3 DEF Obtain
  <2>2. counter' = [counter EXCEPT ![caller[s].row] = counter[caller[s].row] + 1]  BY <1>3 DEF Obtain
  <2>3. \A r \in CounterRow : counter[r] > 0 => counter'[r] > 0
    BY <1>0, <1>00, <1>3, <2>2 DEF RefTypeOK
  <2>4. x.attempt = caller[s].attempt /\ x.at = "got" /\ x.row = caller[s].row
    BY <1>00 DEF CallerState
  <2> HIDE DEF x
  <2>5. caller[s].attempt <= 2
        /\ (caller[s].attempt = 2 => caller[s].row[1] = "TKT" /\ counter[caller[s].row] > 0)
    BY <1>0 DEF SecondAttempt
  <2> QED  BY <1>1, <1>00, <2>1, <2>3, <2>4, <2>5
<1>4. ASSUME NEW s \in Callers, ClaimNext(s) PROVE SecondAttempt'
  <2>1. counter[caller[s].row] \in Nat  BY <1>0, <1>00 DEF RefTypeOK
  <2> QED  BY <1>3, <1>4, <2>1 DEF ClaimNext
<1>5. ASSUME NEW s \in Callers, InsertRow(s) PROVE SecondAttempt'
  <2>1. counter[caller[s].row] = 0 /\ counter[caller[s].row] + 1 = 1  BY <1>5 DEF InsertRow
  <2> QED  BY <1>3, <1>5, <2>1 DEF InsertRow
<1>6. ASSUME NEW s \in Callers, FindNoRow(s) PROVE SecondAttempt'
  <2> DEFINE x == [caller[s] EXCEPT !.at = "insert"]
  <2>1. caller' = [caller EXCEPT ![s] = x] /\ counter' = counter /\ counter[caller[s].row] = 0
    BY <1>6 DEF FindNoRow
  <2>2. x.attempt = caller[s].attempt /\ caller[s].attempt \in 0 .. 3
    BY <1>00 DEF CallerState
  <2>3. caller[s].attempt <= 2 /\ caller[s].attempt # 2
    BY <1>0, <2>1 DEF SecondAttempt
  <2> HIDE DEF x
  <2>4. x.attempt <= 1  BY <2>2, <2>3
  <2> QED  BY <1>1, <2>1, <2>2, <2>3, <2>4
<1>7. ASSUME NEW s \in Callers, InsertLoops(s) PROVE SecondAttempt'
  <2> DEFINE x == [caller[s] EXCEPT !.at = "update", !.attempt = caller[s].attempt + 1]
  <2>1. /\ caller[s].at = "insert" /\ counter[caller[s].row] > 0 /\ caller[s].row[1] = "TKT"
        /\ counter' = counter
    BY <1>7 DEF InsertLoops, Touches
  <2>2. caller[s].attempt \in 0 .. 3 /\ caller[s].attempt <= 1
    BY <1>0, <1>00, <2>1 DEF SecondAttempt, CallerState
  <2>x. caller[s].attempt # 3  BY <2>2
  <2>3. caller' = [caller EXCEPT ![s] = x]
    <3>1. caller' = [caller EXCEPT ![s] = IF caller[s].attempt = 3 THEN NotAsking ELSE x]
      BY <1>7 DEF InsertLoops
    <3> QED  BY <3>1, <2>x
  <2>4. x.attempt = caller[s].attempt + 1 /\ x.at = "update" /\ x.row = caller[s].row
    BY <1>00 DEF CallerState
  <2> HIDE DEF x
  <2>5. x.attempt <= 2  BY <2>2, <2>4
  <2> QED  BY <1>1, <2>1, <2>3, <2>4, <2>5
<1>8. ASSUME NEW s \in Callers, caller' = [caller EXCEPT ![s] = NotAsking],
             \A r \in CounterRow : r[1] = "TKT" /\ counter[r] > 0 => counter'[r] > 0
      PROVE  SecondAttempt'
  <2>1. NotAsking.attempt = 0 /\ NotAsking.at = "idle"  BY DEF NotAsking
  <2>2. NotAsking.attempt <= 2 /\ NotAsking.at # "insert" /\ NotAsking.attempt # 2  BY <2>1
  <2> QED  BY <1>1, <1>8, <2>2
<1>9. ASSUME NEW s \in Callers, Rollback(s) PROVE SecondAttempt'
  <2> DEFINE r == caller[s].row
  <2>1. caller' = [caller EXCEPT ![s] = NotAsking] /\ r \in CounterRow
        /\ counter' = [counter EXCEPT ![r] = @ - IF lock[r] = s THEN 1 ELSE 0]
    BY <1>00, <1>9 DEF Rollback
  <2>2. r[1] = "TKT" => lock[r] # s
    BY <2>1, ReferenceAssumption DEF RefInv, LockHeld
  <2>3. \A q \in CounterRow : q[1] = "TKT" => counter'[q] = counter[q]
    BY <1>0, <2>1, <2>2 DEF RefTypeOK
  <2> QED  BY <1>8, <2>1, <2>3
<1>10. CASE Midnight \/ UNCHANGED refVars
  BY <1>0, <1>10 DEF Midnight, refVars, SecondAttempt
<1>11. ASSUME NEW s \in Callers, InsertDooms(s) \/ Commit(s) \/ Disconnect(s)
       PROVE  SecondAttempt'
  BY <1>8, <1>11 DEF InsertDooms, Commit, Disconnect
<1> QED  BY <1>2, <1>4, <1>5, <1>6, <1>7, <1>9, <1>10, <1>11 DEF RefNext

LEMMA RefStepInv == RefInv /\ [RefNext]_refVars => RefInv'
<1>1. RefInv /\ [RefNext]_refVars => LockHeld' /\ ErrorsCounted' /\ TicketsCounted'  BY CountsStep
<1> QED  BY <1>1, TypesStep, RaceStep, AttemptsStep DEF RefInv

LEMMA RefInvImplies == RefInv => ReferencesExact
<1> SUFFICES ASSUME RefInv PROVE ReferencesExact  OBVIOUS
<1>1. ErrorsConsecutive  BY DEF RefInv, ErrorsCounted, ErrorsConsecutive
<1>2. TicketsDistinct  BY DEF RefInv, TicketsCounted
<1>3. \A s \in Callers : caller[s].attempt <= 2  BY DEF RefInv, SecondAttempt
<1>4. ASSUME NEW r \in CounterRow
      PROVE  (doomed[r] > 0 => counter[r] > 0) /\ doomed[r] < Cardinality(Callers)
  <2>1. doomed[r] \in Nat /\ counter[r] \in Nat  BY <1>4 DEF RefInv, RefTypeOK
  <2>2. CASE issued[r] = << >>
    <3>1. ~(doomed[r] > 0)  BY <1>4, <2>2 DEF RefInv, RaceEnds
    <3> QED  BY <2>1, <3>1, CallersCounted
  <2>3. CASE issued[r] # << >>
    <3>1. counter[r] # 0  BY <1>4, <2>3, CounterAhead
    <3>2. doomed[r] + Cardinality(Racers(r)) < Cardinality(Callers)  BY <1>4, <2>3 DEF RefInv, RaceEnds
    <3> QED  BY <2>1, <3>1, <3>2, HandsFinite, CallersCounted
  <2> QED  BY <2>2, <2>3
<1> QED  BY <1>1, <1>2, <1>3, <1>4 DEF ReferencesExact

(* The state keeps its types: in particular no rollback takes a counter below   *)
(* zero, and no procedure goes beyond its three attempts.                       *)
THEOREM ReferencesTyped == RefSpec => []RefTypeOK
<1>1. RefInv => RefTypeOK  BY DEF RefInv
<1> QED  BY <1>1, RefInitInv, RefStepInv, PTL DEF RefSpec

(* usp_NextReference: the error references of a day are consecutive in the order *)
(* of the commits, no ticket number is given out twice, and the race for a day's *)
(* first row costs at most one capture per other connection.                     *)
THEOREM ReferencesAreExact == RefSpec => []ReferencesExact
<1> QED  BY RefInitInv, RefStepInv, RefInvImplies, PTL DEF RefSpec

-----------------------------------------------------------------------------
(* The throttle for any number of threads, clients and requests, any burst,   *)
(* rate, cap and pause.                                                       *)

BucketObject == [tokens : Nat, last : Nat, life : Nat]
Places == {"idle", "check", "enter", "sweep", "take", "spend"}
ThreadState ==
    [at : Places, client : Clients \cup {NoClient}, count : Nat, now : Nat, bucket : Nat,
     todo : SUBSET Clients, doomed : Clients \cup {NoClient}, seen : BucketObject]

ThrottleTyped ==
    /\ clock \in Nat /\ lastSweep \in Nat
    /\ bucket \in Seq(BucketObject)
    /\ table \in [Clients -> Nat]
    /\ thread \in [Threads -> ThreadState]
    /\ spent \in [Clients -> Seq(Nat)]
    /\ \A c \in Clients : spent[c] # << >>
    /\ \A c \in Tracked : table[c] \in DOMAIN bucket
    /\ \A t \in Threads :
          /\ thread[t].now <= clock
          /\ thread[t].at # "idle" => thread[t].client \in Clients
          /\ thread[t].at = "spend" => thread[t].bucket \in DOMAIN bucket
    /\ \A b \in DOMAIN bucket : bucket[b].last <= clock

\* One thread sweeps; what it has to look at or has doomed is in the table.
OneSweeper ==
    \A t \in Threads :
        /\ thread[t].at = "sweep" <=> sweeper = t
        /\ thread[t].at = "sweep" => thread[t].todo \subseteq Tracked
        /\ thread[t].doomed # NoClient =>
              /\ thread[t].at = "sweep"
              /\ thread[t].doomed \in Tracked \ thread[t].todo
              /\ Refilled(thread[t].seen, thread[t].now)

\* The buckets c can still draw on: the one in the table, and those its requests hold.
Usable(c, b) ==
    \/ c \in Tracked /\ b = table[c]
    \/ \E t \in Threads : thread[t].client = c /\ StandsAt(t, "spend") /\ thread[t].bucket = b

\* Each usable bucket is of a life of its own, the table's of the present one.
OneBucketALife ==
    \A c \in Clients : \A b \in DOMAIN bucket : Usable(c, b) =>
        /\ bucket[b].life \in DOMAIN spent[c]
        /\ bucket[b].life = Len(spent[c]) <=> b = table[c]
        /\ \A d \in DOMAIN bucket : Usable(c, d) /\ bucket[d].life = bucket[b].life => d = b

\* What was drawn in a life and what is left come to no more than the burst and
\* what was refilled until the bucket was last looked at.
Balanced ==
    \A c \in Clients : \A b \in DOMAIN bucket : Usable(c, b) =>
        spent[c][bucket[b].life] + bucket[b].tokens <= Burst + Rate * bucket[b].last

\* The requests of c that have yet to take a bucket.
OnTheWay(c) ==
    {t \in Threads : thread[t].client = c /\ thread[t].at \in {"check", "enter", "sweep", "take"}}

\* A client without a bucket can be given a full one by any of its requests.
RoomForABurst ==
    \A c \in Clients \ Tracked :
        /\ spent[c][Len(spent[c])] <= Rate * clock
        /\ \A t \in OnTheWay(c) : spent[c][Len(spent[c])] <= Rate * thread[t].now

\* A thread about to take a bucket may add a client.
Taking == {t \in Threads : StandsAt(t, "take")}
FewAboveTheCap ==
    /\ IsFiniteSet(Tracked)
    /\ Cardinality(Tracked) + Cardinality(Taking) < TrackedCap + Cardinality(Threads)

WithinBurst ==
    \A c \in Clients : \A life \in DOMAIN spent[c] : spent[c][life] <= Burst + Rate * clock

ThrottleInv ==
    /\ ThrottleTyped
    /\ OneSweeper
    /\ OneBucketALife
    /\ Balanced
    /\ RoomForABurst
    /\ WithinBurst
    /\ FewAboveTheCap

-----------------------------------------------------------------------------
(* Arithmetic of refilling.                                                    *)

LEMMA RefillGrows ==
    ASSUME NEW m \in Nat, NEW n \in Nat, m <= n
    PROVE  Rate * m \in Nat /\ Rate * n \in Nat /\ Rate * m <= Rate * n
<1>1. Rate \in Nat
  BY ThrottleAssumption
<1>2. PICK k \in Nat : n = m + k
  <2>1. n - m \in Nat /\ n = m + (n - m)
    OBVIOUS
  <2> QED
    BY <2>1
<1>3. Rate * n = Rate * m + Rate * k
  BY <1>1, <1>2
<1>4. Rate * m \in Nat /\ Rate * k \in Nat
  BY <1>1
<1> QED
  BY <1>3, <1>4

LEMMA RefillOfGap ==
    ASSUME NEW m \in Nat, NEW n \in Nat
    PROVE  (n - m) * Rate = Rate * n - Rate * m
<1>1. Rate \in Nat
  BY ThrottleAssumption
<1> QED
  BY <1>1

\* What was drawn from a bucket that is full again has been refilled.
LEMMA FullAgain ==
    ASSUME NEW drawn \in Nat, NEW left \in Nat, NEW last \in Nat, NEW now \in Nat,
           drawn + left <= Burst + Rate * last, left + (now - last) * Rate >= Burst
    PROVE  drawn <= Rate * now
<1> DEFINE before == Rate * last
           after == Rate * now
           gap == (now - last) * Rate
<1>1. before \in Nat /\ after \in Nat /\ Burst \in Nat
  BY RefillGrows, ThrottleAssumption
<1>2. gap = after - before
  BY RefillOfGap
<1>3. drawn + left <= Burst + before /\ left + gap >= Burst
  OBVIOUS
<1> HIDE DEF before, after, gap
<1>4. drawn <= after
  BY <1>1, <1>2, <1>3
<1> QED
  BY <1>4 DEF after

-----------------------------------------------------------------------------
(* What the lemmas need of the invariant.                                      *)

LEMMA UsableIsThere ==
    ASSUME ThrottleTyped, NEW c \in Clients, NEW b, Usable(c, b)
    PROVE  b \in DOMAIN bucket
  BY DEF ThrottleTyped, Usable, StandsAt

LEMMA BucketTyped ==
    ASSUME ThrottleTyped, NEW b \in DOMAIN bucket
    PROVE  /\ bucket[b] \in BucketObject
           /\ bucket[b].tokens \in Nat /\ bucket[b].last \in Nat /\ bucket[b].life \in Nat
           /\ bucket[b].last <= clock /\ b \in Nat /\ b # 0
<1>1. bucket[b] \in BucketObject /\ b \in Nat /\ b # 0
  BY DEF ThrottleTyped
<1> QED
  BY <1>1 DEF ThrottleTyped, BucketObject

LEMMA ThreadTyped ==
    ASSUME ThrottleTyped, NEW t \in Threads
    PROVE  /\ thread[t] \in ThreadState
           /\ thread[t].at \in Places /\ thread[t].client \in Clients \cup {NoClient}
           /\ thread[t].count \in Nat /\ thread[t].now \in Nat /\ thread[t].now <= clock
           /\ thread[t].bucket \in Nat /\ thread[t].todo \subseteq Clients
           /\ thread[t].doomed \in Clients \cup {NoClient}
           /\ thread[t].seen \in BucketObject
<1>1. thread[t] \in ThreadState /\ thread[t].now <= clock
  BY DEF ThrottleTyped
<1> QED
  BY <1>1 DEF ThreadState

LEMMA SpentTyped ==
    ASSUME ThrottleTyped, NEW c \in Clients
    PROVE  /\ spent[c] \in Seq(Nat) /\ Len(spent[c]) \in DOMAIN spent[c] /\ Len(spent[c]) \in Nat
           /\ \A life \in DOMAIN spent[c] : spent[c][life] \in Nat
<1>1. spent[c] \in Seq(Nat) /\ spent[c] # << >>
  BY DEF ThrottleTyped
<1> QED
  BY <1>1

\* The next life begins with nothing drawn.
LEMMA NextLife ==
    ASSUME NEW s \in Seq(Nat)
    PROVE  /\ Append(s, 0) \in Seq(Nat) /\ Append(s, 0) # << >>
           /\ Len(Append(s, 0)) = Len(s) + 1 /\ Append(s, 0)[Len(Append(s, 0))] = 0
           /\ \A life \in DOMAIN s : life \in DOMAIN Append(s, 0) /\ Append(s, 0)[life] = s[life]
           /\ \A life \in DOMAIN Append(s, 0) : life \in DOMAIN s \/ Append(s, 0)[life] = 0
  OBVIOUS

\* A thread that neither takes nor puts down a bucket, and keeps its client and
\* its time, changes nothing that counts.
LEMMA WalkKeeps ==
    ASSUME ThrottleInv, NEW t \in Threads,
           thread[t].at \in {"check", "enter", "sweep"},
           thread'[t].at \in {"enter", "sweep", "take"},
           thread'[t].client = thread[t].client, thread'[t].now = thread[t].now,
           \A u \in Threads \ {t} : thread'[u] = thread[u],
           UNCHANGED <<clock, bucket, table, spent>>
    PROVE  OneBucketALife' /\ Balanced' /\ RoomForABurst' /\ WithinBurst'
<1>1. \A c, b : Usable(c, b)' <=> Usable(c, b)
  BY DEF Usable, StandsAt, Tracked
<1>2. \A c : OnTheWay(c)' = OnTheWay(c)
  BY DEF OnTheWay
<1>3. \A u \in Threads : thread'[u].now = thread[u].now
  OBVIOUS
<1>4. Tracked' = Tracked
  BY DEF Tracked
<1>5. OneBucketALife'
  BY <1>1 DEF ThrottleInv, OneBucketALife
<1>6. Balanced'
  BY <1>1 DEF ThrottleInv, Balanced
<1>7. RoomForABurst'
  <2>1. \A c : OnTheWay(c) \subseteq Threads
    BY DEF OnTheWay
  <2> QED
    BY <1>2, <1>3, <1>4, <2>1 DEF ThrottleInv, RoomForABurst
<1>8. WithinBurst'
  BY DEF ThrottleInv, WithinBurst
<1> QED
  BY <1>5, <1>6, <1>7, <1>8

LEMMA TakingFinite ==
    ASSUME FewAboveTheCap
    PROVE  /\ IsFiniteSet(Taking) /\ Cardinality(Taking) \in Nat
           /\ Cardinality(Taking) <= Cardinality(Threads) /\ Cardinality(Threads) \in Nat
           /\ Cardinality(Tracked) \in Nat
  BY FS_Subset, FS_CardinalityType, ThrottleAssumption DEF FewAboveTheCap, Taking

\* Below the cap every thread may be about to take.
LEMMA BelowTheCap ==
    ASSUME IsFiniteSet(Tracked'), Cardinality(Tracked') < TrackedCap
    PROVE  FewAboveTheCap'
<1>1. Taking' \subseteq Threads
  BY DEF Taking
<1>2. IsFiniteSet(Taking') /\ Cardinality(Taking') <= Cardinality(Threads)
  BY <1>1, FS_Subset, ThrottleAssumption
<1>3. Cardinality(Taking') \in Nat /\ Cardinality(Threads) \in Nat /\ Cardinality(Tracked') \in Nat
      /\ TrackedCap \in Nat
  BY <1>2, FS_CardinalityType, ThrottleAssumption
<1> QED
  BY <1>2, <1>3 DEF FewAboveTheCap

LEMMA CapKept ==
    ASSUME FewAboveTheCap, Tracked' \subseteq Tracked, Taking' \subseteq Taking
    PROVE  FewAboveTheCap'
<1>1. /\ IsFiniteSet(Tracked') /\ Cardinality(Tracked') <= Cardinality(Tracked)
      /\ IsFiniteSet(Taking') /\ Cardinality(Taking') <= Cardinality(Taking)
  BY TakingFinite, FS_Subset DEF FewAboveTheCap
<1>2. /\ Cardinality(Tracked') \in Nat /\ Cardinality(Taking') \in Nat
      /\ Cardinality(Tracked) \in Nat /\ Cardinality(Taking) \in Nat
      /\ Cardinality(Threads) \in Nat /\ TrackedCap \in Nat
  BY <1>1, TakingFinite, FS_CardinalityType, ThrottleAssumption
<1> QED
  BY <1>1, <1>2 DEF FewAboveTheCap

-----------------------------------------------------------------------------
(* The steps.                                                                  *)

LEMMA GoesTo ==
    ASSUME ThrottleTyped, NEW t \in Threads, NEW place \in Places, Goes(t, place)
    PROVE  /\ thread' \in [Threads -> ThreadState]
           /\ thread'[t] = [thread[t] EXCEPT !.at = place]
           /\ thread'[t].at = place /\ thread'[t].client = thread[t].client
           /\ thread'[t].now = thread[t].now /\ thread'[t].doomed = thread[t].doomed
           /\ thread'[t].todo = thread[t].todo
           /\ \A u \in Threads \ {t} : thread'[u] = thread[u]
<1>1. thread \in [Threads -> ThreadState] /\ thread[t] \in ThreadState
  BY DEF ThrottleTyped
<1>2. thread'[t] = [thread[t] EXCEPT !.at = place] /\ \A u \in Threads \ {t} : thread'[u] = thread[u]
  BY <1>1 DEF Goes
<1>3. [thread[t] EXCEPT !.at = place] \in ThreadState
  BY <1>1 DEF ThreadState
<1>4. thread' \in [Threads -> ThreadState]
  BY <1>1, <1>3 DEF Goes
<1>5. /\ thread'[t].at = place /\ thread'[t].client = thread[t].client
      /\ thread'[t].now = thread[t].now /\ thread'[t].doomed = thread[t].doomed
      /\ thread'[t].todo = thread[t].todo
  BY <1>1, <1>2 DEF ThreadState
<1> QED
  BY <1>2, <1>4, <1>5

LEMMA ClientOfThread ==
    ASSUME ThrottleTyped, NEW t \in Threads, thread[t].at \in Places \ {"idle"}
    PROVE  thread[t].client \in Clients
  BY DEF ThrottleTyped

LEMMA TryAcquireStep ==
    ASSUME ThrottleInv, NEW t \in Threads, NEW c \in Clients, NEW n \in 1 .. Burst,
           TryAcquire(t, c, n)
    PROVE  ThrottleInv'
<1> USE DEF ThrottleInv
<1> DEFINE new == [Resting EXCEPT !.at = "check", !.client = c, !.count = n, !.now = clock]
<1>1. /\ thread' = [thread EXCEPT ![t] = new] /\ thread[t].at = "idle"
      /\ UNCHANGED <<clock, bucket, table, lastSweep, sweeper, spent>>
  BY DEF TryAcquire, StandsAt
<1>2. new \in ThreadState
  <2>1. n \in Nat /\ clock \in Nat
    BY ThrottleAssumption DEF ThrottleTyped
  <2> QED
    BY <2>1 DEF Resting, ThreadState, Places, BucketObject
<1>3. /\ new.at = "check" /\ new.client = c /\ new.now = clock /\ new.doomed = NoClient
  BY DEF Resting
<1> HIDE DEF new
<1>4. thread'[t] = new /\ \A u \in Threads \ {t} : thread'[u] = thread[u]
  BY <1>1 DEF ThrottleTyped
<1>5. Tracked' = Tracked
  BY <1>1 DEF Tracked
<1>6. ThrottleTyped'
  <2>1. thread' \in [Threads -> ThreadState]
    BY <1>1, <1>2 DEF ThrottleTyped
  <2>2. \A u \in Threads :
          /\ thread'[u].now <= clock
          /\ thread'[u].at # "idle" => thread'[u].client \in Clients
          /\ thread'[u].at = "spend" => thread'[u].bucket \in DOMAIN bucket
    <3>1. clock \in Nat
      BY DEF ThrottleTyped
    <3>2. new.at # "idle" /\ new.at # "spend" /\ new.now <= clock /\ new.client \in Clients
      BY <1>3, <3>1
    <3> QED
      BY <1>4, <3>2 DEF ThrottleTyped
  <2> QED
    BY <1>1, <1>5, <2>1, <2>2 DEF ThrottleTyped
<1>7. OneSweeper'
  <2>1. sweeper # t
    BY <1>1 DEF OneSweeper
  <2>2. \A u \in Threads \ {t} : (Refilled(thread[u].seen, thread[u].now))' <=> Refilled(thread[u].seen, thread[u].now)
    BY <1>4 DEF Refilled
  <2> QED
    BY <1>1, <1>3, <1>4, <1>5, <2>1, <2>2 DEF OneSweeper
<1>8. \A d, b : Usable(d, b)' <=> Usable(d, b)
  BY <1>1, <1>3, <1>4, <1>5 DEF Usable, StandsAt
<1>9. OneBucketALife'
  BY <1>1, <1>8 DEF OneBucketALife
<1>10. Balanced'
  BY <1>1, <1>8 DEF Balanced
<1>11. RoomForABurst'
  <2>1. \A d : \A u \in OnTheWay(d)' : u = t \/ u \in OnTheWay(d)
    BY <1>4 DEF OnTheWay
  <2>2. \A d : \A u \in OnTheWay(d)' : u \in Threads
    BY DEF OnTheWay
  <2>3. ASSUME NEW d \in Clients \ Tracked, NEW u \in OnTheWay(d)'
        PROVE  spent[d][Len(spent[d])] <= Rate * thread'[u].now
    BY <1>3, <1>4, <2>1, <2>2 DEF RoomForABurst
  <2> QED
    BY <1>1, <1>5, <2>3 DEF RoomForABurst
<1>12. WithinBurst'
  BY <1>1 DEF WithinBurst
<1>13. FewAboveTheCap'
  <2>1. Taking' \subseteq Taking
    BY <1>3, <1>4 DEF Taking, StandsAt
  <2> QED
    BY <1>5, <2>1, CapKept
<1> QED
  BY <1>6, <1>7, <1>9, <1>10, <1>11, <1>12, <1>13

LEMMA CheckStep ==
    ASSUME ThrottleInv, NEW t \in Threads, Check(t)
    PROVE  ThrottleInv'
<1> USE DEF ThrottleInv
<1>1. PICK place \in {"enter", "take"} :
        Goes(t, place) /\ (place = "take" => ~Full)
  BY DEF Check
<1>2. /\ thread[t].at = "check" /\ UNCHANGED <<clock, bucket, table, lastSweep, sweeper, spent>>
  BY DEF Check, StandsAt
<1>3. /\ thread' \in [Threads -> ThreadState]
      /\ thread'[t].at = place /\ thread'[t].client = thread[t].client
      /\ thread'[t].now = thread[t].now /\ thread'[t].doomed = thread[t].doomed
      /\ \A u \in Threads \ {t} : thread'[u] = thread[u]
  BY <1>1, GoesTo DEF Places
<1>4. Tracked' = Tracked
  BY <1>2 DEF Tracked
<1>5. ThrottleTyped'
  BY <1>2, <1>3, <1>4 DEF ThrottleTyped
<1>6. OneSweeper'
  <2>1. sweeper # t /\ thread[t].doomed = NoClient
    BY <1>2 DEF OneSweeper
  <2>2. \A u \in Threads \ {t} : (Refilled(thread[u].seen, thread[u].now))' <=> Refilled(thread[u].seen, thread[u].now)
    BY <1>3 DEF Refilled
  <2> QED
    BY <1>2, <1>3, <1>4, <2>1, <2>2 DEF OneSweeper
<1>7. FewAboveTheCap'
  <2>1. CASE place = "enter"
    <3>1. Taking' \subseteq Taking
      BY <1>3, <2>1 DEF Taking, StandsAt
    <3> QED
      BY <1>4, <3>1, CapKept
  <2>2. CASE place = "take"
    <3>1. Cardinality(Tracked) < TrackedCap
      BY <1>1, <2>2, TakingFinite, ThrottleAssumption DEF Full
    <3> QED
      BY <1>4, <3>1, BelowTheCap DEF FewAboveTheCap
  <2> QED
    BY <2>1, <2>2
<1>8. OneBucketALife' /\ Balanced' /\ RoomForABurst' /\ WithinBurst'
  BY <1>2, <1>3, WalkKeeps
<1> QED
  BY <1>5, <1>6, <1>7, <1>8

LEMMA EnterSweepStep ==
    ASSUME ThrottleInv, NEW t \in Threads, EnterSweep(t)
    PROVE  ThrottleInv'
<1> USE DEF ThrottleInv
<1>1. /\ thread[t].at = "enter" /\ sweeper = NoClient /\ t # NoClient
      /\ UNCHANGED <<clock, bucket, table, spent>>
  BY ThrottleAssumption DEF EnterSweep, StandsAt
<1>2. Tracked' = Tracked
  BY <1>1 DEF Tracked
<1>3. thread[t] \in ThreadState /\ thread[t].doomed = NoClient /\ Tracked \subseteq Clients
  BY <1>1, ThreadTyped DEF OneSweeper, Tracked
<1>4. \A u \in Threads : thread[u].at # "sweep"
  BY <1>1, ThrottleAssumption DEF OneSweeper
<1>5. CASE ~Full /\ Since(t) < SweepPause
  <2>1. Goes(t, "take") /\ UNCHANGED <<lastSweep, sweeper>>
    BY <1>5 DEF EnterSweep
  <2>2. /\ thread' \in [Threads -> ThreadState]
        /\ thread'[t].at = "take" /\ thread'[t].client = thread[t].client
        /\ thread'[t].now = thread[t].now /\ thread'[t].doomed = thread[t].doomed
        /\ \A u \in Threads \ {t} : thread'[u] = thread[u]
    BY <2>1, GoesTo DEF Places
  <2>3. ThrottleTyped'
    BY <1>1, <1>2, <2>1, <2>2 DEF ThrottleTyped
  <2>4. OneSweeper'
    <3>1. \A u \in Threads \ {t} : (Refilled(thread[u].seen, thread[u].now))' <=> Refilled(thread[u].seen, thread[u].now)
      BY <2>2 DEF Refilled
    <3> QED
      BY <1>1, <1>2, <1>3, <2>1, <2>2, <3>1 DEF OneSweeper
  <2>5. FewAboveTheCap'
    <3>1. Cardinality(Tracked) < TrackedCap
      BY <1>5, TakingFinite, ThrottleAssumption DEF Full
    <3> QED
      BY <1>2, <3>1, BelowTheCap DEF FewAboveTheCap
  <2>6. OneBucketALife' /\ Balanced' /\ RoomForABurst' /\ WithinBurst'
    BY <1>1, <2>2, WalkKeeps
  <2> QED
    BY <2>3, <2>4, <2>5, <2>6
<1>6. CASE ~(~Full /\ Since(t) < SweepPause)
  <2> DEFINE new == [thread[t] EXCEPT !.at = "sweep", !.todo = Tracked]
  <2>1. /\ lastSweep' = thread[t].now /\ sweeper' = t
        /\ thread' = [thread EXCEPT ![t].at = "sweep", ![t].todo = Tracked]
    BY <1>6 DEF EnterSweep
  <2>2. thread' = [thread EXCEPT ![t] = new]
    BY <2>1, <1>3 DEF ThrottleTyped
  <2>3. new \in ThreadState
    BY <1>3 DEF ThreadState, Places
  <2>4. /\ new.at = "sweep" /\ new.todo = Tracked /\ new.client = thread[t].client
        /\ new.now = thread[t].now /\ new.doomed = NoClient
    BY <1>3 DEF ThreadState
  <2> HIDE DEF new
  <2>5. thread'[t] = new /\ \A u \in Threads \ {t} : thread'[u] = thread[u]
    BY <2>2 DEF ThrottleTyped
  <2>6. ThrottleTyped'
    <3>1. thread' \in [Threads -> ThreadState]
      BY <2>2, <2>3 DEF ThrottleTyped
    <3>2. thread[t].now \in Nat
      BY ThreadTyped
    <3>3. \A u \in Threads :
            /\ thread'[u].now <= clock
            /\ thread'[u].at # "idle" => thread'[u].client \in Clients
            /\ thread'[u].at = "spend" => thread'[u].bucket \in DOMAIN bucket
      BY <1>1, <2>4, <2>5 DEF ThrottleTyped
    <3> QED
      BY <1>1, <1>2, <2>1, <3>1, <3>2, <3>3 DEF ThrottleTyped
  <2>7. OneSweeper'
    <3>1. \A u \in Threads \ {t} : thread'[u].at # "sweep" /\ thread'[u].doomed = NoClient
      BY <1>4, <2>5 DEF OneSweeper
    <3> QED
      BY <1>2, <2>1, <2>4, <2>5, <3>1 DEF OneSweeper
  <2>8. FewAboveTheCap'
    <3>1. Taking' \subseteq Taking
      BY <2>4, <2>5 DEF Taking, StandsAt
    <3> QED
      BY <1>2, <3>1, CapKept
  <2>9. OneBucketALife' /\ Balanced' /\ RoomForABurst' /\ WithinBurst'
    BY <1>1, <2>4, <2>5, WalkKeeps
  <2> QED
    BY <2>6, <2>7, <2>8, <2>9
<1> QED
  BY <1>5, <1>6

LEMMA TestIdleStep ==
    ASSUME ThrottleInv, NEW t \in Threads, NEW c \in Clients, TestIdle(t, c)
    PROVE  ThrottleInv'
<1> USE DEF ThrottleInv
<1> DEFINE b == bucket[table[c]]
           victim == IF Refilled(b, thread[t].now) THEN c ELSE NoClient
           new == [thread[t] EXCEPT !.todo = @ \ {c}, !.seen = b, !.doomed = victim]
<1>1. /\ thread[t].at = "sweep" /\ thread[t].doomed = NoClient /\ c \in thread[t].todo
      /\ UNCHANGED <<clock, bucket, table, lastSweep, sweeper, spent>>
  BY DEF TestIdle, StandsAt
<1>2. thread[t] \in ThreadState /\ thread[t].todo \subseteq Tracked /\ Tracked' = Tracked
  BY <1>1, ThreadTyped DEF OneSweeper, Tracked
<1>3. thread' = [thread EXCEPT ![t] = new]
  BY <1>2 DEF TestIdle, ThrottleTyped
<1>4. b \in BucketObject
  <2>1. table[c] \in DOMAIN bucket
    BY <1>1, <1>2 DEF ThrottleTyped
  <2> QED
    BY <2>1, BucketTyped
<1>5. new \in ThreadState
  BY <1>2, <1>4 DEF ThreadState
<1>6. /\ new.at = "sweep" /\ new.todo = thread[t].todo \ {c} /\ new.client = thread[t].client
      /\ new.now = thread[t].now /\ new.doomed = victim /\ new.seen = b
  BY <1>1, <1>2 DEF ThreadState
<1>7. new.doomed # NoClient => new.doomed = c /\ Refilled(new.seen, new.now)
  BY <1>6
<1> HIDE DEF new, b, victim
<1>8. thread'[t] = new /\ \A u \in Threads \ {t} : thread'[u] = thread[u]
  BY <1>3 DEF ThrottleTyped
<1>9. ThrottleTyped'
  <2>1. thread' \in [Threads -> ThreadState]
    BY <1>3, <1>5 DEF ThrottleTyped
  <2>2. \A u \in Threads :
          /\ thread'[u].now <= clock
          /\ thread'[u].at # "idle" => thread'[u].client \in Clients
          /\ thread'[u].at = "spend" => thread'[u].bucket \in DOMAIN bucket
    BY <1>1, <1>6, <1>8 DEF ThrottleTyped
  <2> QED
    BY <1>1, <1>2, <2>1, <2>2 DEF ThrottleTyped
<1>10. OneSweeper'
  <2>1. \A u \in Threads \ {t} : thread'[u].at # "sweep" /\ thread'[u].doomed = NoClient /\ sweeper # u
    BY <1>1, <1>8 DEF OneSweeper
  <2>2. sweeper = t
    BY <1>1 DEF OneSweeper
  <2>3. (Refilled(thread[t].seen, thread[t].now))' <=> Refilled(new.seen, new.now)
    BY <1>8 DEF Refilled
  <2> QED
    BY <1>1, <1>2, <1>6, <1>7, <1>8, <2>1, <2>2, <2>3 DEF OneSweeper
<1>11. FewAboveTheCap'
  <2>1. Taking' \subseteq Taking
    BY <1>6, <1>8 DEF Taking, StandsAt
  <2> QED
    BY <1>2, <2>1, CapKept
<1>12. OneBucketALife' /\ Balanced' /\ RoomForABurst' /\ WithinBurst'
  BY <1>1, <1>6, <1>8, WalkKeeps
<1> QED
  BY <1>9, <1>10, <1>11, <1>12

\* A bucket that is dropped is forgotten with what was drawn from it, unless it
\* was full and nobody was at it: then it left room for a full one.
LEMMA RemoveStep ==
    ASSUME ThrottleInv, NEW t \in Threads, Remove(t)
    PROVE  ThrottleInv'
<1> USE DEF ThrottleInv
<1> DEFINE c == thread[t].doomed
           b == table[c]
           lost == bucket[b] # thread[t].seen \/ UnderWay(t, c)
           new == [thread[t] EXCEPT !.doomed = NoClient]
<1>1. /\ thread[t].at = "sweep" /\ c # NoClient
      /\ table' = [table EXCEPT ![c] = 0]
      /\ spent' = IF lost THEN [spent EXCEPT ![c] = Append(@, 0)] ELSE spent
      /\ thread' = [thread EXCEPT ![t] = new]
      /\ UNCHANGED <<clock, bucket, lastSweep, sweeper>>
  BY DEF Remove, StandsAt
<1>2. /\ thread[t] \in ThreadState /\ thread[t].now \in Nat
      /\ thread[t].todo \subseteq Tracked \ {c} /\ c \in Tracked /\ c \in Clients
      /\ Refilled(thread[t].seen, thread[t].now)
  BY <1>1, ThreadTyped DEF OneSweeper, Tracked
<1>3. /\ new \in ThreadState /\ new.at = "sweep" /\ new.doomed = NoClient
      /\ new.client = thread[t].client /\ new.now = thread[t].now /\ new.todo = thread[t].todo
  BY <1>1, <1>2 DEF ThreadState
<1> HIDE DEF new, lost, c
<1>4. thread'[t] = new /\ \A u \in Threads \ {t} : thread'[u] = thread[u]
  BY <1>1 DEF ThrottleTyped
<1>5. /\ table'[c] = 0 /\ \A d \in Clients \ {c} : table'[d] = table[d]
      /\ table' \in [Clients -> Nat]
  BY <1>1, <1>2 DEF ThrottleTyped
<1>6. Tracked' = Tracked \ {c}
  BY <1>5 DEF Tracked
<1>7. /\ \A d \in Clients \ {c} : spent'[d] = spent[d]
      /\ lost => spent'[c] = Append(spent[c], 0)
      /\ ~lost => spent'[c] = spent[c]
      /\ spent' \in [Clients -> Seq(Nat)] /\ spent'[c] # << >>
  <2>1. spent[c] \in Seq(Nat) /\ spent[c] # << >> /\ spent \in [Clients -> Seq(Nat)]
    BY <1>2, SpentTyped DEF ThrottleTyped
  <2>2. CASE lost
    <3>1. Append(spent[c], 0) \in Seq(Nat) /\ Append(spent[c], 0) # << >>
      BY <2>1, NextLife
    <3> QED
      BY <1>1, <1>2, <2>1, <2>2, <3>1
  <2>3. CASE ~lost
    BY <1>1, <2>1, <2>3
  <2> QED
    BY <2>2, <2>3
<1>8. b \in DOMAIN bucket /\ Usable(c, b)
  BY <1>2 DEF ThrottleTyped, Usable
<1>9. ThrottleTyped'
  <2>1. thread' \in [Threads -> ThreadState]
    BY <1>1, <1>3 DEF ThrottleTyped
  <2>2. \A u \in Threads :
          /\ thread'[u].now <= clock
          /\ thread'[u].at # "idle" => thread'[u].client \in Clients
          /\ thread'[u].at = "spend" => thread'[u].bucket \in DOMAIN bucket
    BY <1>1, <1>3, <1>4 DEF ThrottleTyped
  <2>3. \A d \in Clients : spent'[d] # << >>
    BY <1>7 DEF ThrottleTyped
  <2>4. \A d \in Tracked' : table'[d] \in DOMAIN bucket
    BY <1>5, <1>6 DEF ThrottleTyped, Tracked
  <2> QED
    BY <1>1, <1>5, <1>7, <2>1, <2>2, <2>3, <2>4 DEF ThrottleTyped
<1>10. OneSweeper'
  <2>1. \A u \in Threads \ {t} : thread'[u].at # "sweep" /\ thread'[u].doomed = NoClient /\ sweeper # u
    BY <1>1, <1>4 DEF OneSweeper
  <2>2. sweeper = t
    BY <1>1 DEF OneSweeper
  <2> QED
    BY <1>1, <1>2, <1>3, <1>4, <1>6, <2>1, <2>2 DEF OneSweeper
<1>11. FewAboveTheCap'
  <2>1. Taking' \subseteq Taking
    BY <1>3, <1>4 DEF Taking, StandsAt
  <2> QED
    BY <1>6, <2>1, CapKept
<1>12. \A d \in Clients : \A e :
          Usable(d, e)' =>
             /\ Usable(d, e)
             /\ d = c => \E u \in Threads \ {t} : thread[u].client = c /\ StandsAt(u, "spend")
  BY <1>3, <1>4, <1>5, <1>6 DEF Usable, StandsAt
<1>13. \A d : OnTheWay(d)' = OnTheWay(d) /\ \A u \in OnTheWay(d) : u \in Threads /\ thread'[u].now = thread[u].now
  BY <1>1, <1>3, <1>4 DEF OnTheWay
<1>14. /\ \A life \in DOMAIN spent[c] : life \in DOMAIN spent'[c] /\ spent'[c][life] = spent[c][life]
       /\ \A life \in DOMAIN spent'[c] : life \in DOMAIN spent[c] \/ spent'[c][life] = 0
       /\ spent[c][Len(spent[c])] \in Nat /\ Len(spent[c]) \in Nat
       /\ lost => Len(spent'[c]) = Len(spent[c]) + 1 /\ spent'[c][Len(spent'[c])] = 0
       /\ spent'[c][Len(spent'[c])] \in Nat
  <2>1. spent[c] \in Seq(Nat) /\ spent[c][Len(spent[c])] \in Nat /\ Len(spent[c]) \in Nat
    BY <1>2, SpentTyped
  <2>2. CASE lost
    BY <1>7, <2>1, <2>2, NextLife
  <2>3. CASE ~lost
    BY <1>7, <2>1, <2>3
  <2> QED
    BY <2>2, <2>3
<1>15. OneBucketALife'
  <2> SUFFICES ASSUME NEW d \in Clients, NEW e \in DOMAIN bucket, Usable(d, e)'
               PROVE  /\ bucket[e].life \in DOMAIN spent'[d]
                      /\ bucket[e].life = Len(spent'[d]) <=> e = table'[d]
                      /\ \A f \in DOMAIN bucket : Usable(d, f)' /\ bucket[f].life = bucket[e].life => f = e
    BY <1>1 DEF OneBucketALife
  <2>1. /\ bucket[e].life \in DOMAIN spent[d]
        /\ bucket[e].life = Len(spent[d]) <=> e = table[d]
        /\ \A f \in DOMAIN bucket : Usable(d, f)' /\ bucket[f].life = bucket[e].life => f = e
    BY <1>12 DEF OneBucketALife
  <2>2. CASE d # c
    BY <1>5, <1>7, <2>1, <2>2
  <2>3. CASE d = c
    <3>1. lost
      <4>1. UnderWay(t, c)
        BY <1>12, <2>3 DEF UnderWay
      <4> QED
        BY <4>1 DEF lost
    <3>2. Len(spent'[c]) = Len(spent[c]) + 1 /\ spent[c] \in Seq(Nat)
      BY <1>2, <1>14, <3>1, SpentTyped
    <3>3. bucket[e].life # Len(spent'[c])
      BY <2>1, <2>3, <3>2
    <3>4. e # table'[c]
      BY <1>5, BucketTyped
    <3> QED
      BY <1>14, <2>1, <2>3, <3>3, <3>4
  <2> QED
    BY <2>2, <2>3
<1>16. Balanced'
  <2> SUFFICES ASSUME NEW d \in Clients, NEW e \in DOMAIN bucket, Usable(d, e)'
               PROVE  spent'[d][bucket[e].life] + bucket[e].tokens <= Burst + Rate * bucket[e].last
    BY <1>1 DEF Balanced
  <2>1. /\ bucket[e].life \in DOMAIN spent[d]
        /\ spent[d][bucket[e].life] + bucket[e].tokens <= Burst + Rate * bucket[e].last
    BY <1>12 DEF OneBucketALife, Balanced
  <2>2. spent'[d][bucket[e].life] = spent[d][bucket[e].life]
    BY <1>7, <1>14, <2>1
  <2> QED
    BY <2>1, <2>2
<1>17. spent'[c][Len(spent'[c])] <= Rate * thread[t].now \/ spent'[c][Len(spent'[c])] = 0
  <2>1. CASE lost
    BY <1>14, <2>1
  <2>2. CASE ~lost
    <3>1. bucket[b] = thread[t].seen
      BY <2>2 DEF lost
    <3>2. bucket[b].life = Len(spent[c])
      BY <1>2, <1>8 DEF OneBucketALife
    <3>3. spent[c][Len(spent[c])] + bucket[b].tokens <= Burst + Rate * bucket[b].last
      BY <1>2, <1>8, <3>2 DEF Balanced
    <3>4. bucket[b].tokens + (thread[t].now - bucket[b].last) * Rate >= Burst
      BY <1>2, <3>1 DEF Refilled
    <3>5. bucket[b].last \in Nat /\ bucket[b].tokens \in Nat /\ Burst \in Nat
      BY <1>8, BucketTyped, ThrottleAssumption
    <3>6. spent[c][Len(spent[c])] <= Rate * thread[t].now
      BY <1>2, <1>14, <3>3, <3>4, <3>5, FullAgain
    <3> QED
      BY <1>7, <2>2, <3>6
  <2> QED
    BY <2>1, <2>2
<1>18. ASSUME NEW n \in Nat, lost \/ thread[t].now <= n
       PROVE  spent'[c][Len(spent'[c])] <= Rate * n
  <2>1. Rate * n \in Nat /\ Rate * thread[t].now \in Nat /\ spent'[c][Len(spent'[c])] \in Nat
    <3>1. thread[t].now \in Nat /\ thread[t].now <= thread[t].now /\ n <= n
      BY <1>2
    <3>2. Rate * n \in Nat
      BY <3>1, RefillGrows
    <3>3. Rate * thread[t].now \in Nat
      BY <3>1, RefillGrows
    <3> QED
      BY <1>14, <3>2, <3>3
  <2>2. lost => spent'[c][Len(spent'[c])] = 0
    BY <1>14
  <2>3. ~lost => Rate * thread[t].now <= Rate * n
    BY <1>2, <1>18, RefillGrows
  <2> QED
    BY <1>17, <2>1, <2>2, <2>3
<1>19. RoomForABurst'
  <2> SUFFICES ASSUME NEW d \in Clients \ Tracked'
               PROVE  /\ spent'[d][Len(spent'[d])] <= Rate * clock
                      /\ \A u \in OnTheWay(d) : spent'[d][Len(spent'[d])] <= Rate * thread[u].now
    BY <1>1, <1>13 DEF RoomForABurst
  <2>1. CASE d # c
    BY <1>6, <1>7, <2>1 DEF RoomForABurst
  <2>2. CASE d = c
    <3>1. clock \in Nat /\ thread[t].now <= clock
      BY ThreadTyped DEF ThrottleTyped
    <3>2. ASSUME NEW u \in OnTheWay(c) PROVE spent'[c][Len(spent'[c])] <= Rate * thread[u].now
      <4>1. u \in Threads /\ thread[u].client = c /\ thread[u].now \in Nat
        BY ThreadTyped DEF OnTheWay
      <4>2. lost \/ thread[t].now <= thread[u].now
        <5>1. u # t /\ thread[u].now < thread[t].now => UnderWay(t, c)
          BY <4>1 DEF UnderWay
        <5> QED
          BY <1>2, <4>1, <5>1 DEF lost
      <4> QED
        BY <1>18, <4>1, <4>2
    <3> QED
      BY <1>18, <2>2, <3>1, <3>2
  <2> QED
    BY <2>1, <2>2
<1>20. WithinBurst'
  <2>1. Burst + Rate * clock \in Nat
    <3>1. clock \in Nat /\ Burst \in Nat
      BY ThrottleAssumption DEF ThrottleTyped
    <3> QED
      BY <3>1, RefillGrows
  <2> QED
    BY <1>1, <1>7, <1>14, <2>1 DEF WithinBurst
<1> QED
  BY <1>9, <1>10, <1>11, <1>15, <1>16, <1>19, <1>20

\* The flood: when the sweep freed too little, every client begins another life.
LEMMA EndSweepStep ==
    ASSUME ThrottleInv, NEW t \in Threads, EndSweep(t)
    PROVE  ThrottleInv'
<1> USE DEF ThrottleInv
<1>1. /\ thread[t].at = "sweep" /\ thread[t].doomed = NoClient
      /\ table' = [c \in Clients |-> IF Full THEN 0 ELSE table[c]]
      /\ spent' = [c \in Clients |-> IF Full /\ c \in Tracked THEN Append(spent[c], 0) ELSE spent[c]]
      /\ sweeper' = NoClient /\ Goes(t, "take")
      /\ UNCHANGED <<clock, bucket, lastSweep>>
  BY DEF EndSweep, StandsAt
<1>2. /\ thread' \in [Threads -> ThreadState]
      /\ thread'[t].at = "take" /\ thread'[t].client = thread[t].client
      /\ thread'[t].now = thread[t].now /\ thread'[t].doomed = NoClient
      /\ \A u \in Threads \ {t} : thread'[u] = thread[u]
  BY <1>1, GoesTo DEF Places
<1>3. /\ \A c \in Clients : table'[c] = 0 \/ (table'[c] = table[c] /\ spent'[c] = spent[c])
      /\ \A c \in Clients : spent'[c] = spent[c] \/ (spent'[c] = Append(spent[c], 0) /\ table'[c] = 0)
      /\ \A c \in Clients : table'[c] = 0 => c \notin Tracked \/ spent'[c] = Append(spent[c], 0)
      /\ table' \in [Clients -> Nat]
  <2>1. table \in [Clients -> Nat]
    BY DEF ThrottleTyped
  <2>2. CASE Full
    BY <1>1, <2>1, <2>2 DEF Tracked
  <2>3. CASE ~Full
    BY <1>1, <2>1, <2>3 DEF Tracked
  <2> QED
    BY <2>2, <2>3
<1>4. \A c \in Clients :
        /\ spent[c] \in Seq(Nat) /\ spent'[c] \in Seq(Nat) /\ spent'[c] # << >>
        /\ spent'[c][Len(spent'[c])] \in Nat
        /\ \A life \in DOMAIN spent[c] : life \in DOMAIN spent'[c] /\ spent'[c][life] = spent[c][life]
        /\ \A life \in DOMAIN spent'[c] : life \in DOMAIN spent[c] \/ spent'[c][life] = 0
        /\ spent'[c] = Append(spent[c], 0) =>
              Len(spent'[c]) = Len(spent[c]) + 1 /\ spent'[c][Len(spent'[c])] = 0
  <2> TAKE c \in Clients
  <2>1. spent[c] \in Seq(Nat) /\ spent[c] # << >> /\ spent[c][Len(spent[c])] \in Nat
    BY SpentTyped DEF ThrottleTyped
  <2>2. CASE spent'[c] = spent[c]
    <3>1. Append(spent[c], 0) # spent[c]
      BY <2>1, NextLife
    <3> QED
      BY <2>1, <2>2, <3>1
  <2>3. CASE spent'[c] = Append(spent[c], 0)
    BY <2>1, <2>3, NextLife
  <2> QED
    BY <1>3, <2>2, <2>3
<1>5. Tracked' = {} \/ (Tracked' = Tracked /\ ~Full)
  <2>1. CASE Full
    BY <1>1, <2>1 DEF Tracked
  <2>2. CASE ~Full
    BY <1>1, <2>2 DEF Tracked
  <2> QED
    BY <2>1, <2>2
<1>6. \A c \in Tracked' : c \in Tracked /\ table'[c] = table[c] /\ spent'[c] = spent[c]
  BY <1>3 DEF Tracked
<1>7. ThrottleTyped'
  <2>1. \A c \in Tracked' : table'[c] \in DOMAIN bucket
    BY <1>6 DEF ThrottleTyped
  <2>2. spent' \in [Clients -> Seq(Nat)]
    BY <1>1, <1>4
  <2>3. \A u \in Threads :
          /\ thread'[u].now <= clock
          /\ thread'[u].at # "idle" => thread'[u].client \in Clients
          /\ thread'[u].at = "spend" => thread'[u].bucket \in DOMAIN bucket
    BY <1>1, <1>2 DEF ThrottleTyped
  <2> QED
    BY <1>1, <1>2, <1>3, <1>4, <2>1, <2>2, <2>3 DEF ThrottleTyped
<1>8. OneSweeper'
  <2>1. \A u \in Threads \ {t} : thread'[u].at # "sweep" /\ thread'[u].doomed = NoClient
    BY <1>1, <1>2 DEF OneSweeper
  <2>2. \A u \in Threads : u # NoClient
    BY ThrottleAssumption
  <2> QED
    BY <1>1, <1>2, <2>1, <2>2 DEF OneSweeper
<1>9. FewAboveTheCap'
  <2>1. CASE Tracked' = {}
    <3>1. IsFiniteSet(Tracked') /\ Cardinality(Tracked') = 0
      BY <2>1, FS_EmptySet
    <3> QED
      BY <3>1, BelowTheCap, ThrottleAssumption
  <2>2. CASE Tracked' = Tracked /\ ~Full
    <3>1. Cardinality(Tracked) < TrackedCap
      BY <2>2, TakingFinite, ThrottleAssumption DEF Full
    <3> QED
      BY <2>2, <3>1, BelowTheCap DEF FewAboveTheCap
  <2> QED
    BY <1>5, <2>1, <2>2
<1>10. \A c \in Clients : \A b : Usable(c, b)' => Usable(c, b)
  BY <1>2, <1>6 DEF Usable, StandsAt
<1>11. \A c : OnTheWay(c)' = OnTheWay(c) /\ \A u \in OnTheWay(c) : u \in Threads /\ thread'[u].now = thread[u].now
  BY <1>1, <1>2 DEF OnTheWay
<1>12. OneBucketALife'
  <2> SUFFICES ASSUME NEW c \in Clients, NEW b \in DOMAIN bucket, Usable(c, b)'
               PROVE  /\ bucket[b].life \in DOMAIN spent'[c]
                      /\ bucket[b].life = Len(spent'[c]) <=> b = table'[c]
                      /\ \A d \in DOMAIN bucket : Usable(c, d)' /\ bucket[d].life = bucket[b].life => d = b
    BY <1>1 DEF OneBucketALife
  <2>1. /\ bucket[b].life \in DOMAIN spent[c]
        /\ bucket[b].life = Len(spent[c]) <=> b = table[c]
        /\ \A d \in DOMAIN bucket : Usable(c, d)' /\ bucket[d].life = bucket[b].life => d = b
    BY <1>10 DEF OneBucketALife
  <2>2. bucket[b].life <= Len(spent[c]) /\ bucket[b].life \in Nat /\ Len(spent[c]) \in Nat /\ b # 0
    BY <1>4, <2>1, BucketTyped
  <2>3. CASE spent'[c] = Append(spent[c], 0)
    <3>1. table'[c] = 0 /\ Len(spent'[c]) = Len(spent[c]) + 1
      <4>1. Append(spent[c], 0) # spent[c]
        BY <1>4, NextLife
      <4> QED
        BY <1>3, <1>4, <2>3, <4>1
    <3> QED
      BY <1>4, <2>1, <2>2, <3>1
  <2>4. CASE spent'[c] = spent[c]
    <3>1. table'[c] = table[c]
      <4>1. Append(spent[c], 0) # spent[c]
        BY <1>4, NextLife
      <4> QED
        BY <1>3, <2>4, <4>1 DEF Tracked
    <3> QED
      BY <2>1, <2>4, <3>1
  <2> QED
    BY <1>3, <2>3, <2>4
<1>13. Balanced'
  <2> SUFFICES ASSUME NEW c \in Clients, NEW b \in DOMAIN bucket, Usable(c, b)'
               PROVE  spent'[c][bucket[b].life] + bucket[b].tokens <= Burst + Rate * bucket[b].last
    BY <1>1 DEF Balanced
  <2>1. /\ bucket[b].life \in DOMAIN spent[c]
        /\ spent[c][bucket[b].life] + bucket[b].tokens <= Burst + Rate * bucket[b].last
    BY <1>10 DEF OneBucketALife, Balanced
  <2>2. spent'[c][bucket[b].life] = spent[c][bucket[b].life]
    BY <1>4, <2>1
  <2> QED
    BY <2>1, <2>2
<1>14. RoomForABurst'
  <2> SUFFICES ASSUME NEW c \in Clients \ Tracked'
               PROVE  /\ spent'[c][Len(spent'[c])] <= Rate * clock
                      /\ \A u \in OnTheWay(c) : spent'[c][Len(spent'[c])] <= Rate * thread[u].now
    BY <1>1, <1>11 DEF RoomForABurst
  <2>1. table'[c] = 0
    BY DEF Tracked
  <2>2. CASE spent'[c] = Append(spent[c], 0)
    <3>1. spent'[c][Len(spent'[c])] = 0
      BY <1>4, <2>2
    <3>2. Rate * clock >= 0
      BY RefillGrows DEF ThrottleTyped
    <3>3. ASSUME NEW u \in OnTheWay(c) PROVE Rate * thread[u].now >= 0
      <4>1. thread[u].now \in Nat
        BY <1>11, ThreadTyped
      <4> QED
        BY <4>1, RefillGrows
    <3> QED
      BY <3>1, <3>2, <3>3
  <2>3. CASE c \notin Tracked /\ spent'[c] = spent[c]
    BY <2>3 DEF RoomForABurst
  <2> QED
    BY <1>3, <2>1, <2>2, <2>3
<1>15. WithinBurst'
  <2>1. Burst + Rate * clock \in Nat
    <3>1. clock \in Nat /\ Burst \in Nat
      BY ThrottleAssumption DEF ThrottleTyped
    <3> QED
      BY <3>1, RefillGrows
  <2> QED
    BY <1>1, <1>4, <2>1 DEF WithinBurst
<1> QED
  BY <1>7, <1>8, <1>9, <1>12, <1>13, <1>14, <1>15

\* Time only adds to what may be drawn.
LEMMA TimeStep ==
    ASSUME ThrottleInv, TimePasses
    PROVE  ThrottleInv'
<1> USE DEF ThrottleInv
<1>1. /\ clock' = clock + 1 /\ clock \in Nat
      /\ UNCHANGED <<requests, bucket, table, lastSweep, sweeper, thread, spent>>
  BY DEF TimePasses, ThrottleTyped
<1>2. Rate * clock \in Nat /\ Rate * clock' \in Nat /\ Rate * clock <= Rate * clock'
  BY <1>1, RefillGrows
<1>3. Tracked' = Tracked /\ Taking' = Taking /\ \A c : OnTheWay(c)' = OnTheWay(c)
  BY <1>1 DEF Tracked, Taking, StandsAt, OnTheWay
<1>4. ThrottleTyped'
  <2>1. \A t \in Threads : thread[t].now <= clock'
    <3>1. \A t \in Threads : thread[t].now \in Nat /\ thread[t].now <= clock
      BY ThreadTyped
    <3> QED
      BY <1>1, <3>1
  <2>2. \A b \in DOMAIN bucket : bucket[b].last <= clock'
    <3>1. \A b \in DOMAIN bucket : bucket[b].last \in Nat /\ bucket[b].last <= clock
      BY BucketTyped
    <3> QED
      BY <1>1, <3>1
  <2> QED
    BY <1>1, <1>3, <2>1, <2>2 DEF ThrottleTyped
<1>5. OneSweeper'
  BY <1>1, <1>3 DEF OneSweeper, Refilled
<1>6. OneBucketALife' /\ Balanced'
  <2>1. \A c, b : Usable(c, b)' <=> Usable(c, b)
    BY <1>1, <1>3 DEF Usable, StandsAt
  <2>2. OneBucketALife'
    BY <1>1, <2>1 DEF OneBucketALife
  <2>3. Balanced'
    BY <1>1, <2>1 DEF Balanced
  <2> QED
    BY <2>2, <2>3
<1>7. RoomForABurst'
  <2>1. ASSUME NEW c \in Clients \ Tracked PROVE spent[c][Len(spent[c])] <= Rate * clock'
    <3>1. spent[c][Len(spent[c])] \in Nat
      BY SpentTyped
    <3> QED
      BY <1>2, <3>1 DEF RoomForABurst
  <2> QED
    BY <1>1, <1>3, <2>1 DEF RoomForABurst
<1>8. WithinBurst'
  <2> SUFFICES ASSUME NEW c \in Clients, NEW life \in DOMAIN spent[c]
               PROVE  spent[c][life] <= Burst + Rate * clock'
    BY <1>1 DEF WithinBurst
  <2>1. spent[c][life] \in Nat /\ Burst \in Nat /\ spent[c][life] <= Burst + Rate * clock
    BY SpentTyped, ThrottleAssumption DEF WithinBurst
  <2> QED
    BY <1>2, <2>1
<1>9. FewAboveTheCap'
  BY <1>3, CapKept
<1> QED
  BY <1>4, <1>5, <1>6, <1>7, <1>8, <1>9

\* A request that takes its client's bucket finds it in the table, or puts a
\* full one there, for which there is room.
LEMMA TakeStep ==
    ASSUME ThrottleInv, NEW t \in Threads, Take(t)
    PROVE  ThrottleInv'
<1> USE DEF ThrottleInv
<1> DEFINE c == thread[t].client
           b == IF c \in Tracked THEN table[c] ELSE Len(bucket) + 1
           fresh == [tokens |-> Burst, last |-> thread[t].now, life |-> Len(spent[c])]
           new == [thread[t] EXCEPT !.at = "spend", !.bucket = b]
<1>1. /\ thread[t].at = "take"
      /\ bucket' = IF c \in Tracked THEN bucket ELSE Append(bucket, fresh)
      /\ table' = [table EXCEPT ![c] = b]
      /\ thread' = [thread EXCEPT ![t].at = "spend", ![t].bucket = b]
      /\ UNCHANGED <<clock, lastSweep, sweeper, spent>>
  BY DEF Take, StandsAt
<1>2. /\ thread[t] \in ThreadState /\ thread[t].now \in Nat /\ thread[t].now <= clock
      /\ thread[t].doomed = NoClient
  BY <1>1, ThreadTyped DEF OneSweeper
<1>3. c \in Clients
  BY <1>1, ClientOfThread DEF Places
<1>4. thread' = [thread EXCEPT ![t] = new]
  BY <1>1, <1>2 DEF ThrottleTyped
<1>5. bucket \in Seq(BucketObject) /\ fresh \in BucketObject
  BY <1>2, <1>3, SpentTyped, ThrottleAssumption DEF ThrottleTyped, BucketObject
<1>6. fresh.tokens = Burst /\ fresh.last = thread[t].now /\ fresh.life = Len(spent[c])
  OBVIOUS
<1> HIDE DEF fresh
<1>7. /\ bucket' \in Seq(BucketObject) /\ b \in DOMAIN bucket' /\ b \in Nat /\ b # 0
      /\ \A d \in DOMAIN bucket : d \in DOMAIN bucket' /\ bucket'[d] = bucket[d]
      /\ \A d \in DOMAIN bucket' : d \in DOMAIN bucket \/ (c \notin Tracked /\ d = b)
      /\ c \notin Tracked => b \notin DOMAIN bucket /\ bucket'[b] = fresh
      /\ c \in Tracked => b = table[c] /\ b \in DOMAIN bucket
  <2>1. CASE c \in Tracked
    <3>1. b = table[c] /\ b \in DOMAIN bucket
      BY <2>1 DEF ThrottleTyped
    <3> QED
      BY <1>1, <1>5, <2>1, <3>1, BucketTyped
  <2>2. CASE c \notin Tracked
    BY <1>1, <1>5, <2>2
  <2> QED
    BY <2>1, <2>2
<1> HIDE DEF b
<1>8. new \in ThreadState
  BY <1>2, <1>7 DEF ThreadState, Places
<1>9. /\ new.at = "spend" /\ new.client = c /\ new.now = thread[t].now /\ new.doomed = NoClient
      /\ new.bucket = b
  BY <1>2 DEF ThreadState
<1> HIDE DEF new, c
<1>10. thread'[t] = new /\ \A u \in Threads \ {t} : thread'[u] = thread[u]
  BY <1>4 DEF ThrottleTyped
<1>11. /\ table'[c] = b /\ table' \in [Clients -> Nat]
       /\ \A d \in Clients \ {c} : table'[d] = table[d]
  BY <1>1, <1>3, <1>7 DEF ThrottleTyped
<1>12. Tracked' = Tracked \cup {c}
  BY <1>3, <1>7, <1>11 DEF Tracked
<1>13. ThrottleTyped'
  <2>1. thread' \in [Threads -> ThreadState]
    BY <1>4, <1>8 DEF ThrottleTyped
  <2>2. \A u \in Threads :
          /\ thread'[u].now <= clock
          /\ thread'[u].at # "idle" => thread'[u].client \in Clients
          /\ thread'[u].at = "spend" => thread'[u].bucket \in DOMAIN bucket'
    <3>1. /\ thread'[t].now <= clock /\ thread'[t].client \in Clients
          /\ thread'[t].bucket \in DOMAIN bucket'
      BY <1>2, <1>3, <1>7, <1>9, <1>10
    <3>2. \A u \in Threads \ {t} :
            /\ thread[u].now <= clock
            /\ thread[u].at # "idle" => thread[u].client \in Clients
            /\ thread[u].at = "spend" => thread[u].bucket \in DOMAIN bucket'
      BY <1>7 DEF ThrottleTyped
    <3> QED
      BY <1>10, <3>1, <3>2
  <2>3. \A d \in Tracked' : table'[d] \in DOMAIN bucket'
    BY <1>7, <1>11, <1>12 DEF ThrottleTyped, Tracked
  <2>4. \A d \in DOMAIN bucket' : bucket'[d].last <= clock
    <3>1. \A d \in DOMAIN bucket : bucket'[d].last <= clock
      BY <1>7 DEF ThrottleTyped
    <3>2. c \notin Tracked => bucket'[b].last <= clock
      BY <1>2, <1>6, <1>7
    <3> QED
      BY <1>7, <3>1, <3>2
  <2>5. /\ clock' = clock /\ clock' \in Nat /\ lastSweep' \in Nat
        /\ spent' \in [Clients -> Seq(Nat)]
        /\ \A d \in Clients : spent'[d] # << >>
    BY <1>1 DEF ThrottleTyped
  <2> QED
    BY <1>7, <1>11, <2>1, <2>2, <2>3, <2>4, <2>5 DEF ThrottleTyped
<1>14. OneSweeper'
  <2>1. sweeper # t
    BY <1>1 DEF OneSweeper
  <2>2. \A u \in Threads \ {t} : (Refilled(thread[u].seen, thread[u].now))' <=> Refilled(thread[u].seen, thread[u].now)
    BY <1>10 DEF Refilled
  <2>3. sweeper' = sweeper
    BY <1>1
  <2> QED
    <3>1. \A u \in Threads \ {t} :
            /\ thread'[u].at = "sweep" <=> sweeper' = u
            /\ thread'[u].at = "sweep" => thread'[u].todo \subseteq Tracked'
            /\ thread'[u].doomed # NoClient =>
                  /\ thread'[u].at = "sweep"
                  /\ thread'[u].doomed \in Tracked' \ thread'[u].todo
                  /\ Refilled(thread'[u].seen, thread'[u].now)
      BY <1>10, <1>12, <2>2, <2>3 DEF OneSweeper
    <3>2. thread'[t].at # "sweep" /\ sweeper' # t /\ thread'[t].doomed = NoClient
      BY <1>1, <1>9, <1>10, <2>1
    <3> QED
      BY <3>1, <3>2 DEF OneSweeper
<1>15. FewAboveTheCap'
  <2>1. Taking' = Taking \ {t} /\ t \in Taking
    BY <1>1, <1>9, <1>10 DEF Taking, StandsAt
  <2>2. /\ IsFiniteSet(Taking) /\ Cardinality(Taking) \in Nat
        /\ IsFiniteSet(Tracked) /\ Cardinality(Tracked) \in Nat
        /\ Cardinality(Threads) \in Nat /\ TrackedCap \in Nat
        /\ Cardinality(Tracked) + Cardinality(Taking) < TrackedCap + Cardinality(Threads)
    BY TakingFinite, ThrottleAssumption DEF FewAboveTheCap
  <2>3. Cardinality(Taking') = Cardinality(Taking) - 1
    BY <2>1, <2>2, FS_RemoveElement
  <2>4. /\ IsFiniteSet(Tracked') /\ Cardinality(Tracked') \in Nat
        /\ Cardinality(Tracked') <= Cardinality(Tracked) + 1
    <3>1. /\ IsFiniteSet(Tracked \cup {c})
          /\ Cardinality(Tracked \cup {c}) = Cardinality(Tracked)
                \/ Cardinality(Tracked \cup {c}) = Cardinality(Tracked) + 1
      BY <2>2, FS_AddElement
    <3> QED
      BY <1>12, <2>2, <3>1
  <2> QED
    BY <2>2, <2>3, <2>4 DEF FewAboveTheCap
\* Who can use what: as before, and c the bucket it takes.
<1>16. \A d \in Clients : \A e \in DOMAIN bucket' :
          Usable(d, e)' => \/ e \in DOMAIN bucket /\ Usable(d, e)
                           \/ (c \notin Tracked /\ d = c /\ e = b)
  <2> SUFFICES ASSUME NEW d \in Clients, NEW e \in DOMAIN bucket', Usable(d, e)'
               PROVE  \/ e \in DOMAIN bucket /\ Usable(d, e)
                      \/ c \notin Tracked /\ d = c /\ e = b
    OBVIOUS
  <2>1. \/ d \in Tracked' /\ e = table'[d]
        \/ \E u \in Threads : thread'[u].client = d /\ thread'[u].at = "spend" /\ thread'[u].bucket = e
    BY DEF Usable, StandsAt
  <2>2. CASE d \in Tracked' /\ e = table'[d]
    BY <1>7, <1>11, <1>12, <2>2, UsableIsThere DEF Usable
  <2>3. CASE \E u \in Threads : thread'[u].client = d /\ thread'[u].at = "spend" /\ thread'[u].bucket = e
    <3>1. PICK u \in Threads : thread'[u].client = d /\ thread'[u].at = "spend" /\ thread'[u].bucket = e
      BY <2>3
    <3>2. CASE u = t
      BY <1>7, <1>9, <1>10, <3>1, <3>2 DEF Usable
    <3>3. CASE u # t
      <4>1. Usable(d, e)
        BY <1>10, <3>1, <3>3 DEF Usable, StandsAt
      <4> QED
        BY <4>1, UsableIsThere
    <3> QED
      BY <3>2, <3>3
  <2> QED
    BY <2>1, <2>2, <2>3
<1>17. \A d \in DOMAIN bucket : Usable(c, d) /\ c \notin Tracked => bucket[d].life # Len(spent[c])
  <2>1. \A d \in DOMAIN bucket : d # 0
    BY BucketTyped
  <2> QED
    BY <1>3, <2>1 DEF OneBucketALife, Tracked
<1>18. OneBucketALife'
  <2> SUFFICES ASSUME NEW d \in Clients, NEW e \in DOMAIN bucket', Usable(d, e)'
               PROVE  /\ bucket'[e].life \in DOMAIN spent[d]
                      /\ bucket'[e].life = Len(spent[d]) <=> e = table'[d]
                      /\ \A f \in DOMAIN bucket' : Usable(d, f)' /\ bucket'[f].life = bucket'[e].life => f = e
    BY <1>1 DEF OneBucketALife
  <2>1. CASE e \in DOMAIN bucket /\ Usable(d, e)
    <3>1. /\ bucket[e].life \in DOMAIN spent[d]
          /\ bucket[e].life = Len(spent[d]) <=> e = table[d]
          /\ \A f \in DOMAIN bucket : Usable(d, f) /\ bucket[f].life = bucket[e].life => f = e
      BY <2>1 DEF OneBucketALife
    <3>2. bucket'[e] = bucket[e]
      BY <1>7, <2>1
    <3>3. bucket[e].life = Len(spent[d]) <=> e = table'[d]
      BY <1>7, <1>11, <1>17, <2>1, <3>1
    <3>4. \A f \in DOMAIN bucket' : Usable(d, f)' /\ bucket'[f].life = bucket'[e].life => f = e
      BY <1>6, <1>7, <1>16, <1>17, <2>1, <3>1, <3>2
    <3> QED
      BY <3>1, <3>2, <3>3, <3>4
  <2>2. CASE c \notin Tracked /\ d = c /\ e = b
    <3>1. bucket'[e].life = Len(spent[c])
      BY <1>6, <1>7, <2>2
    <3>2. Len(spent[c]) \in DOMAIN spent[c]
      BY <1>3, SpentTyped
    <3>3. \A f \in DOMAIN bucket' : Usable(d, f)' /\ bucket'[f].life = bucket'[e].life => f = e
      BY <1>7, <1>16, <1>17, <2>2, <3>1
    <3> QED
      BY <1>11, <2>2, <3>1, <3>2, <3>3
  <2> QED
    BY <1>16, <2>1, <2>2
<1>19. Balanced'
  <2> SUFFICES ASSUME NEW d \in Clients, NEW e \in DOMAIN bucket', Usable(d, e)'
               PROVE  spent[d][bucket'[e].life] + bucket'[e].tokens <= Burst + Rate * bucket'[e].last
    BY <1>1 DEF Balanced
  <2>1. CASE e \in DOMAIN bucket /\ Usable(d, e)
    BY <1>7, <2>1 DEF Balanced
  <2>2. CASE c \notin Tracked /\ d = c /\ e = b
    <3>1. t \in OnTheWay(c)
      BY <1>1 DEF OnTheWay, c
    <3>2. spent[c][Len(spent[c])] <= Rate * thread[t].now
      BY <1>3, <2>2, <3>1 DEF RoomForABurst
    <3>3. spent[c][Len(spent[c])] \in Nat /\ Burst \in Nat /\ Rate * thread[t].now \in Nat
      <4>1. spent[c][Len(spent[c])] \in Nat /\ Burst \in Nat
        BY <1>3, SpentTyped, ThrottleAssumption
      <4>2. Rate * thread[t].now \in Nat
        BY <1>2, RefillGrows
      <4> QED
        BY <4>1, <4>2
    <3>4. spent[c][Len(spent[c])] + Burst <= Burst + Rate * thread[t].now
      BY <3>2, <3>3
    <3> QED
      BY <1>6, <1>7, <2>2, <3>4
  <2> QED
    BY <1>16, <2>1, <2>2
<1>20. RoomForABurst'
  <2>1. \A d : \A u \in OnTheWay(d)' : u \in OnTheWay(d) /\ u \in Threads /\ thread'[u].now = thread[u].now
    BY <1>9, <1>10 DEF OnTheWay
  <2>2. \A d \in Clients \ Tracked' : d \in Clients \ Tracked
    BY <1>12
  <2> QED
    BY <1>1, <2>1, <2>2 DEF RoomForABurst
<1>21. WithinBurst'
  BY <1>1 DEF WithinBurst
<1> QED
  BY <1>13, <1>14, <1>15, <1>18, <1>19, <1>20, <1>21

\* What a request leaves in a bucket: refilled, and less what it was granted.
Filled(b, now) ==
    IF now > b.last
    THEN [b EXCEPT !.tokens = Smaller(Burst, @ + (now - b.last) * Rate), !.last = now]
    ELSE b
Granted(b, now, n) == Smaller(n, Filled(b, now).tokens)
Left(b, now, n) == [Filled(b, now) EXCEPT !.tokens = @ - Granted(b, now, n)]

\* Under its lock a bucket gets what was refilled since it was last looked at,
\* and what is granted goes from it to its client.
LEMMA DrawnFromBucket ==
    ASSUME NEW old \in BucketObject, NEW now \in Nat, NEW count \in Nat
    PROVE  /\ Left(old, now, count) \in BucketObject
           /\ Left(old, now, count).life = old.life
           /\ Granted(old, now, count) \in Nat
           /\ Left(old, now, count).last \in {old.last, now}
           /\ \A drawn \in Nat : drawn + old.tokens <= Burst + Rate * old.last
                 => drawn + Granted(old, now, count) + Left(old, now, count).tokens
                       <= Burst + Rate * Left(old, now, count).last
<1> DEFINE filled == Filled(old, now)
           granted == Granted(old, now, count)
           left == Left(old, now, count)
           gap == (now - old.last) * Rate
<1>1. old.tokens \in Nat /\ old.last \in Nat /\ Burst \in Nat /\ old.life \in Nat
  BY ThrottleAssumption DEF BucketObject
<1>2. /\ filled \in BucketObject /\ filled.life = old.life
      /\ filled.last = old.last \/ filled.last = now
      /\ \A drawn \in Nat : drawn + old.tokens <= Burst + Rate * old.last
            => drawn + filled.tokens <= Burst + Rate * filled.last
  <2>1. CASE now > old.last
    <3>0. old.last <= now
      BY <1>1, <2>1
    <3>1. gap = Rate * now - Rate * old.last /\ Rate * now \in Nat /\ Rate * old.last \in Nat
          /\ Rate * old.last <= Rate * now
      <4>1. gap = Rate * now - Rate * old.last
        BY <1>1, RefillOfGap
      <4>2. Rate * now \in Nat /\ Rate * old.last \in Nat /\ Rate * old.last <= Rate * now
        BY <1>1, <3>0, RefillGrows
      <4> QED
        BY <4>1, <4>2
    <3>8. filled = [old EXCEPT !.tokens = Smaller(Burst, @ + gap), !.last = now]
      BY <2>1 DEF Filled
    <3> HIDE DEF gap, filled
    <3>2. gap \in Nat /\ Rate * now = Rate * old.last + gap
      BY <3>1
    <3>3. filled = [old EXCEPT !.tokens = Smaller(Burst, old.tokens + gap), !.last = now]
      BY <3>8 DEF BucketObject
    <3>4. /\ Smaller(Burst, old.tokens + gap) \in Nat
          /\ Smaller(Burst, old.tokens + gap) <= old.tokens + gap
      BY <1>1, <3>2 DEF Smaller
    <3>5. /\ filled \in BucketObject /\ filled.life = old.life /\ filled.last = now
          /\ filled.tokens = Smaller(Burst, old.tokens + gap)
      BY <3>3, <3>4 DEF BucketObject
    <3> DEFINE before == Rate * old.last
               after == Rate * now
               tokens == filled.tokens
    <3>6. before \in Nat /\ after = before + gap /\ tokens \in Nat /\ tokens <= old.tokens + gap
      BY <3>1, <3>2, <3>4, <3>5
    <3> HIDE DEF before, after, tokens
    <3>7. \A drawn \in Nat : drawn + old.tokens <= Burst + before => drawn + tokens <= Burst + after
      BY <1>1, <3>2, <3>6
    <3> QED
      BY <3>5, <3>7 DEF before, after, tokens
  <2>2. CASE ~(now > old.last)
    <3>1. filled = old
      BY <2>2 DEF Filled
    <3> HIDE DEF filled
    <3> QED
      BY <3>1
  <2> QED
    BY <2>1, <2>2
<1>7. granted = Smaller(count, filled.tokens) /\ left = [filled EXCEPT !.tokens = @ - granted]
  BY DEF Granted, Left
<1> HIDE DEF filled, granted, left
<1>3. filled.tokens \in Nat
  BY <1>2 DEF BucketObject
<1>4. granted \in Nat /\ filled.tokens - granted \in Nat
  BY <1>3, <1>7 DEF Smaller
<1>5. /\ left \in BucketObject /\ left.life = filled.life /\ left.last = filled.last
      /\ left.tokens = filled.tokens - granted
  BY <1>2, <1>4, <1>7 DEF BucketObject
<1>6. \A drawn \in Nat : drawn + granted + left.tokens = drawn + filled.tokens
  BY <1>3, <1>4, <1>5
<1>8. left.last \in {old.last, now}
  BY <1>2, <1>5
<1>9. \A drawn \in Nat : drawn + old.tokens <= Burst + Rate * old.last
         => drawn + granted + left.tokens <= Burst + Rate * left.last
  BY <1>2, <1>5, <1>6
<1>10. left \in BucketObject /\ left.life = old.life /\ granted \in Nat
  BY <1>2, <1>4, <1>5
<1> QED
  BY <1>8, <1>9, <1>10 DEF left, granted

\* A grant is drawn in one life and leaves the others.
LEMMA DrawnInLife ==
    ASSUME NEW s \in Seq(Nat), NEW g \in DOMAIN s, NEW granted, s[g] + granted \in Nat, s # << >>
    PROVE  LET drawn == [s EXCEPT ![g] = @ + granted]
           IN  /\ drawn \in Seq(Nat) /\ Len(drawn) = Len(s) /\ DOMAIN drawn = DOMAIN s
               /\ drawn # << >> /\ drawn[g] = s[g] + granted
               /\ \A life \in DOMAIN s : life # g => drawn[life] = s[life]
  OBVIOUS

LEMMA SpendStep ==
    ASSUME ThrottleInv, NEW t \in Threads, Spend(t)
    PROVE  ThrottleInv'
<1> USE DEF ThrottleInv
<1> DEFINE c == thread[t].client
           e == thread[t].bucket
           now == thread[t].now
           old == bucket[e]
           g == old.life
           granted == Granted(old, now, thread[t].count)
           left == Left(old, now, thread[t].count)
<1>1. /\ thread[t].at = "spend"
      /\ bucket' = [bucket EXCEPT ![e] = left]
      /\ spent' = [spent EXCEPT ![c][g] = @ + granted]
      /\ thread' = [thread EXCEPT ![t] = Resting]
      /\ UNCHANGED <<clock, table, lastSweep, sweeper>>
  BY DEF Spend, StandsAt, Filled, Granted, Left
<1>2. /\ c \in Clients /\ e \in DOMAIN bucket /\ old \in BucketObject /\ now \in Nat
      /\ now <= clock /\ thread[t].count \in Nat /\ thread[t].doomed = NoClient
      /\ old.last <= clock /\ clock \in Nat
  BY <1>1, ClientOfThread, ThreadTyped, BucketTyped DEF Places, ThrottleTyped, OneSweeper
<1>3. /\ left \in BucketObject /\ left.life = g /\ granted \in Nat
      /\ left.last \in {old.last, now}
      /\ \A drawn \in Nat : drawn + old.tokens <= Burst + Rate * old.last
            => drawn + granted + left.tokens <= Burst + Rate * left.last
  BY <1>2, DrawnFromBucket
<1>4. Usable(c, e) /\ Tracked' = Tracked
  BY <1>1 DEF Usable, StandsAt, Tracked
<1>5. g \in DOMAIN spent[c] /\ spent[c] \in Seq(Nat) /\ spent[c][g] \in Nat /\ spent[c] # << >>
  <2>1. g \in DOMAIN spent[c]
    BY <1>2, <1>4 DEF OneBucketALife
  <2>2. spent[c] \in Seq(Nat) /\ spent[c] # << >>
    BY <1>2 DEF ThrottleTyped
  <2> HIDE DEF g, c
  <2> QED
    BY <2>1, <2>2
<1> HIDE DEF left, granted, c, e, now, old, g
<1>6. /\ bucket' \in Seq(BucketObject) /\ DOMAIN bucket' = DOMAIN bucket /\ bucket'[e] = left
      /\ \A d \in DOMAIN bucket : d # e => bucket'[d] = bucket[d]
  BY <1>1, <1>2, <1>3 DEF ThrottleTyped
<1>7. /\ spent' \in [Clients -> Seq(Nat)]
      /\ \A d \in Clients : DOMAIN spent'[d] = DOMAIN spent[d] /\ Len(spent'[d]) = Len(spent[d])
                            /\ spent'[d] # << >>
      /\ spent'[c][g] = spent[c][g] + granted
      /\ \A d \in Clients : \A life \in DOMAIN spent[d] :
            d # c \/ life # g => spent'[d][life] = spent[d][life]
  <2> DEFINE drawn == [spent[c] EXCEPT ![g] = @ + granted]
  <2>1. spent[c][g] + granted \in Nat
    BY <1>3, <1>5
  <2>2. /\ drawn \in Seq(Nat) /\ Len(drawn) = Len(spent[c]) /\ DOMAIN drawn = DOMAIN spent[c]
        /\ drawn # << >> /\ drawn[g] = spent[c][g] + granted
        /\ \A life \in DOMAIN spent[c] : life # g => drawn[life] = spent[c][life]
    BY <1>5, <2>1, DrawnInLife
  <2>3. spent' = [spent EXCEPT ![c] = drawn] /\ spent \in [Clients -> Seq(Nat)]
    BY <1>1 DEF ThrottleTyped
  <2> HIDE DEF drawn
  <2>4. spent'[c] = drawn /\ \A d \in Clients \ {c} : spent'[d] = spent[d]
    BY <1>2, <2>3
  <2>5. \A d \in Clients : spent[d] # << >>
    BY DEF ThrottleTyped
  <2>6. spent' \in [Clients -> Seq(Nat)]
    BY <2>2, <2>3
  <2> QED
    BY <1>2, <2>2, <2>4, <2>5, <2>6
<1>8. thread'[t] = Resting /\ \A u \in Threads \ {t} : thread'[u] = thread[u]
  BY <1>1 DEF ThrottleTyped
<1>9. /\ Resting \in ThreadState /\ Resting.at = "idle" /\ Resting.now = 0
      /\ Resting.doomed = NoClient
  BY DEF Resting, ThreadState, Places, BucketObject
<1>10. ThrottleTyped'
  <2>1. thread' \in [Threads -> ThreadState]
    BY <1>1, <1>9 DEF ThrottleTyped
  <2>2. \A u \in Threads :
          /\ thread'[u].now <= clock
          /\ thread'[u].at # "idle" => thread'[u].client \in Clients
          /\ thread'[u].at = "spend" => thread'[u].bucket \in DOMAIN bucket
    <3>1. thread'[t].at = "idle" /\ thread'[t].now <= clock
      BY <1>2, <1>8, <1>9
    <3>2. \A u \in Threads \ {t} :
            /\ thread[u].now <= clock
            /\ thread[u].at # "idle" => thread[u].client \in Clients
            /\ thread[u].at = "spend" => thread[u].bucket \in DOMAIN bucket
      BY DEF ThrottleTyped
    <3> QED
      BY <1>8, <3>1, <3>2
  <2>3. \A d \in DOMAIN bucket : bucket'[d].last <= clock
    <3>1. bucket'[e].last <= clock
      BY <1>2, <1>3, <1>6
    <3>2. \A d \in DOMAIN bucket \ {e} : bucket'[d].last <= clock
      BY <1>6 DEF ThrottleTyped
    <3> QED
      BY <3>1, <3>2
  <2>4. /\ clock' = clock /\ clock' \in Nat /\ lastSweep' \in Nat
        /\ table' = table /\ table' \in [Clients -> Nat]
        /\ \A d \in Tracked : table[d] \in DOMAIN bucket
    BY <1>1 DEF ThrottleTyped
  <2> QED
    BY <1>4, <1>6, <1>7, <2>1, <2>2, <2>3, <2>4 DEF ThrottleTyped
<1>11. OneSweeper'
  <2>1. sweeper # t /\ sweeper' = sweeper
    BY <1>1 DEF OneSweeper
  <2>2. \A u \in Threads \ {t} : (Refilled(thread[u].seen, thread[u].now))' <=> Refilled(thread[u].seen, thread[u].now)
    BY <1>8 DEF Refilled
  <2> QED
    BY <1>4, <1>8, <1>9, <2>1, <2>2 DEF OneSweeper
<1>12. FewAboveTheCap'
  <2>1. Taking' \subseteq Taking
    BY <1>8, <1>9 DEF Taking, StandsAt
  <2> QED
    BY <1>4, <2>1, CapKept
<1>13. \A d \in Clients : \A b \in DOMAIN bucket : Usable(d, b)' => Usable(d, b)
  BY <1>1, <1>4, <1>8, <1>9 DEF Usable, StandsAt
<1>14. \A d \in DOMAIN bucket : bucket'[d].life = bucket[d].life
  BY <1>3, <1>6 DEF g, old
<1>15. OneBucketALife'
  <2> SUFFICES ASSUME NEW d \in Clients, NEW b \in DOMAIN bucket, Usable(d, b)'
               PROVE  /\ bucket'[b].life \in DOMAIN spent'[d]
                      /\ bucket'[b].life = Len(spent'[d]) <=> b = table'[d]
                      /\ \A a \in DOMAIN bucket :
                            Usable(d, a)' /\ bucket'[a].life = bucket'[b].life => a = b
    BY <1>6 DEF OneBucketALife
  <2>1. Usable(d, b) /\ bucket'[b].life = bucket[b].life
    BY <1>13, <1>14
  <2>2. /\ bucket[b].life \in DOMAIN spent[d]
        /\ bucket[b].life = Len(spent[d]) <=> b = table[d]
        /\ \A a \in DOMAIN bucket : Usable(d, a) /\ bucket[a].life = bucket[b].life => a = b
    BY <2>1 DEF OneBucketALife
  <2>3. DOMAIN spent'[d] = DOMAIN spent[d] /\ Len(spent'[d]) = Len(spent[d]) /\ table'[d] = table[d]
    BY <1>1, <1>7
  <2> QED
    BY <1>13, <1>14, <2>1, <2>2, <2>3
<1>16. spent[c][g] + granted + left.tokens <= Burst + Rate * left.last
  <2>1. spent[c][g] + old.tokens <= Burst + Rate * old.last
    BY <1>2, <1>4 DEF Balanced, g, old
  <2> QED
    BY <1>3, <1>5, <2>1
<1>17. Balanced'
  <2> SUFFICES ASSUME NEW d \in Clients, NEW b \in DOMAIN bucket, Usable(d, b)'
               PROVE  spent'[d][bucket'[b].life] + bucket'[b].tokens <= Burst + Rate * bucket'[b].last
    BY <1>6 DEF Balanced
  <2>1. /\ bucket[b].life \in DOMAIN spent[d] /\ Usable(d, b)
        /\ spent[d][bucket[b].life] + bucket[b].tokens <= Burst + Rate * bucket[b].last
    BY <1>13 DEF OneBucketALife, Balanced
  <2>2. CASE b # e
    <3>1. d # c \/ bucket[b].life # g
      BY <1>2, <1>4, <2>1, <2>2 DEF OneBucketALife, g, old
    <3> QED
      BY <1>6, <1>7, <2>1, <2>2, <3>1
  <2>3. CASE b = e /\ d = c
    BY <1>3, <1>6, <1>7, <1>16, <2>3
  <2>4. CASE b = e /\ d # c
    <3>1. bucket[b] = old /\ g \in DOMAIN spent[d] /\ old.life = g
      BY <2>1, <2>4 DEF old, g
    <3>2. spent[d][g] \in Nat /\ spent'[d][g] = spent[d][g]
      BY <1>7, <2>4, <3>1, SpentTyped
    <3>3. spent[d][g] + granted + left.tokens <= Burst + Rate * left.last
      BY <1>3, <2>1, <3>1, <3>2
    <3>4. left.tokens \in Nat /\ left.last \in Nat /\ Rate * left.last \in Nat /\ Burst \in Nat
      <4>1. left.tokens \in Nat /\ left.last \in Nat
        BY <1>3 DEF BucketObject
      <4>2. Rate * left.last \in Nat
        BY <4>1, RefillGrows
      <4> QED
        BY <4>1, <4>2, ThrottleAssumption
    <3>5. spent[d][g] + left.tokens <= Burst + Rate * left.last
      BY <1>3, <3>2, <3>3, <3>4
    <3> QED
      BY <1>3, <1>6, <2>4, <3>2, <3>5
  <2> QED
    BY <2>2, <2>3, <2>4
<1>18. RoomForABurst'
  <2>1. \A d : \A u \in OnTheWay(d)' : u \in OnTheWay(d) /\ u \in Threads /\ thread'[u].now = thread[u].now
    BY <1>8, <1>9 DEF OnTheWay
  <2>2. ASSUME NEW d \in Clients \ Tracked
        PROVE  spent'[d][Len(spent'[d])] = spent[d][Len(spent[d])]
    <3>1. Len(spent[d]) \in DOMAIN spent[d]
      BY SpentTyped
    <3>2. d # c \/ Len(spent[d]) # g
      <4>1. d = c => table[d] = 0 /\ e # 0
        BY <1>2, BucketTyped DEF Tracked
      <4> QED
        BY <1>2, <1>4, <4>1 DEF OneBucketALife, g, old
    <3> QED
      BY <1>7, <3>1, <3>2
  <2> QED
    BY <1>1, <1>4, <2>1, <2>2 DEF RoomForABurst
<1>19. WithinBurst'
  <2>1. spent'[c][g] <= Burst + Rate * clock
    <3>1. left.tokens \in Nat /\ left.last \in Nat /\ left.last <= clock /\ Burst \in Nat
      BY <1>2, <1>3, ThrottleAssumption DEF BucketObject
    <3>2. Rate * left.last \in Nat /\ Rate * clock \in Nat /\ Rate * left.last <= Rate * clock
      BY <1>2, <3>1, RefillGrows
    <3> DEFINE until == Rate * left.last
               total == Rate * clock
               kept == left.tokens
    <3>3. until \in Nat /\ total \in Nat /\ until <= total /\ kept \in Nat
      BY <3>1, <3>2
    <3>4. spent[c][g] + granted + kept <= Burst + until
      BY <1>16
    <3>5. spent[c][g] \in Nat /\ granted \in Nat /\ Burst \in Nat
      BY <1>3, <1>5, <3>1
    <3> HIDE DEF until, total, kept
    <3>6. spent[c][g] + granted <= Burst + total
      BY <3>3, <3>4, <3>5
    <3> QED
      BY <1>7, <3>6 DEF total
  <2>2. \A d \in Clients : \A life \in DOMAIN spent[d] : d # c \/ life # g
          => spent'[d][life] <= Burst + Rate * clock
    BY <1>7 DEF WithinBurst
  <2> QED
    BY <1>1, <1>7, <2>1, <2>2 DEF WithinBurst
<1> QED
  BY <1>10, <1>11, <1>12, <1>15, <1>17, <1>18, <1>19

LEMMA ThrottleInitInv == ThrottleInit => ThrottleInv
<1> SUFFICES ASSUME ThrottleInit PROVE ThrottleInv
  OBVIOUS
<1>1. /\ clock = 0 /\ bucket = << >> /\ table = [c \in Clients |-> 0] /\ lastSweep = 0
      /\ sweeper = NoClient /\ thread = [t \in Threads |-> Resting]
      /\ spent = [c \in Clients |-> <<0>>]
  BY DEF ThrottleInit
<1>2. Resting \in ThreadState /\ Resting.at = "idle" /\ Resting.now = 0 /\ Resting.doomed = NoClient
  BY DEF Resting, ThreadState, Places, BucketObject
<1>3. Tracked = {} /\ Taking = {} /\ \A c : OnTheWay(c) = {}
  BY <1>1, <1>2 DEF Tracked, Taking, StandsAt, OnTheWay
<1>4. ThrottleTyped
  <2>1. bucket \in Seq(BucketObject) /\ DOMAIN bucket = {} /\ <<0>> \in Seq(Nat) /\ <<0>> # << >>
    BY <1>1
  <2>2. spent \in [Clients -> Seq(Nat)] /\ \A c \in Clients : spent[c] # << >>
    BY <1>1, <2>1
  <2>3. thread \in [Threads -> ThreadState]
    BY <1>1, <1>2
  <2>4. \A t \in Threads : thread[t].now <= clock /\ thread[t].at = "idle"
    BY <1>1, <1>2
  <2>5. \A c \in Tracked : table[c] \in DOMAIN bucket
    BY <1>3
  <2>6. clock \in Nat /\ lastSweep \in Nat /\ table \in [Clients -> Nat]
    BY <1>1
  <2>7. \A b \in DOMAIN bucket : bucket[b].last <= clock
    BY <2>1
  <2> QED
    BY <2>1, <2>2, <2>3, <2>4, <2>5, <2>6, <2>7 DEF ThrottleTyped
<1>5. OneSweeper
  <2>1. \A t \in Threads : t # NoClient
    BY ThrottleAssumption
  <2> QED
    BY <1>1, <1>2, <2>1 DEF OneSweeper
<1>6. OneBucketALife /\ Balanced
  BY <1>1 DEF OneBucketALife, Balanced
<1>7. Rate * clock = 0 /\ Burst \in Nat
  BY <1>1, ThrottleAssumption
<1>8. \A c \in Clients : spent[c] = <<0>>
  BY <1>1
<1>9. RoomForABurst
  <2>1. \A c \in Clients : spent[c][Len(spent[c])] <= Rate * clock
    <3>1. Len(<<0>>) = 1 /\ <<0>>[1] = 0
      OBVIOUS
    <3>2. \A c \in Clients : spent[c][Len(spent[c])] = 0
      BY <1>8, <3>1
    <3> QED
      BY <1>7, <3>2
  <2> QED
    BY <1>3, <2>1 DEF RoomForABurst
<1>10. WithinBurst
  <2>1. \A c \in Clients : \A life \in DOMAIN spent[c] : spent[c][life] = 0
    BY <1>8
  <2> QED
    BY <1>7, <2>1 DEF WithinBurst
<1>11. FewAboveTheCap
  <2>1. IsFiniteSet(Tracked) /\ Cardinality(Tracked) = 0 /\ Cardinality(Taking) = 0
    BY <1>3, FS_EmptySet
  <2>2. Cardinality(Threads) \in Nat /\ TrackedCap \in Nat /\ TrackedCap # 0
    BY FS_CardinalityType, ThrottleAssumption
  <2> QED
    BY <2>1, <2>2 DEF FewAboveTheCap
<1> QED
  BY <1>4, <1>5, <1>6, <1>9, <1>10, <1>11 DEF ThrottleInv

(* The invariant of the throttle: every usable bucket is of a life of its own,   *)
(* what was drawn in that life and what is left balance with what was refilled,  *)
(* and a client without a bucket may be given a full one.                        *)
THEOREM ThrottleInvariance == ThrottleSpec => []ThrottleInv
<1>1. ThrottleInv /\ [ThrottleNext]_throttleVars => ThrottleInv'
  <2> SUFFICES ASSUME ThrottleInv, [ThrottleNext]_throttleVars PROVE ThrottleInv'
    OBVIOUS
  <2>1. CASE UNCHANGED throttleVars
    BY <2>1 DEF throttleVars, ThrottleInv, ThrottleTyped, OneSweeper, OneBucketALife, Balanced,
                RoomForABurst, WithinBurst, FewAboveTheCap, Tracked, Taking, OnTheWay, Usable, StandsAt
  <2>2. CASE ThrottleNext
    BY <2>2, TryAcquireStep, CheckStep, EnterSweepStep, TestIdleStep, RemoveStep, EndSweepStep,
       TakeStep, SpendStep, TimeStep DEF ThrottleNext
  <2> QED
    BY <2>1, <2>2
<1> QED
  BY <1>1, ThrottleInitInv, PTL DEF ThrottleSpec

-----------------------------------------------------------------------------
(* How many lives the sweeps can give a client.                                *)

\* The lives the sweep under way may yet give c: one if its bucket is dropped
\* before the end, one if all buckets are cleared.
ToCome(c) ==
    IF sweeper = NoClient THEN 0
    ELSE IF c \in thread[sweeper].todo \/ c = thread[sweeper].doomed THEN 2 ELSE 1

Sweeps == sweeps.timed + sweeps.forced

SweepsCounted ==
    /\ sweeps \in [timed : Nat, forced : Nat]
    /\ sweeper \in Threads \cup {NoClient}
    /\ lastSweep <= clock
    /\ sweeps.forced = 0 => sweeps.timed * SweepPause <= lastSweep
    /\ \A c \in Clients : Len(spent[c]) + ToCome(c) <= 1 + 2 * Sweeps

LEMMA SweepsTyped ==
    ASSUME SweepsCounted
    PROVE  /\ sweeps.timed \in Nat /\ sweeps.forced \in Nat /\ Sweeps \in Nat
           /\ sweeps = [timed |-> sweeps.timed, forced |-> sweeps.forced]
  BY DEF SweepsCounted, Sweeps

\* A step that leaves the sweep alone and begins no life.
LEMMA SweepUntouched ==
    ASSUME ThrottleTyped, SweepsCounted, ThrottleTyped', UNCHANGED <<lastSweep, sweeper, sweeps>>,
           clock <= clock',
           \A u \in Threads : u = sweeper =>
              thread'[u].todo = thread[u].todo /\ thread'[u].doomed = thread[u].doomed,
           \A c \in Clients : Len(spent'[c]) = Len(spent[c])
    PROVE  SweepsCounted'
<1>1. \A c : ToCome(c)' = ToCome(c)
  BY DEF ToCome, SweepsCounted
<1>2. Sweeps' = Sweeps
  BY DEF Sweeps
<1>3. lastSweep <= clock'
  <2>1. lastSweep \in Nat /\ clock \in Nat /\ clock' \in Nat /\ lastSweep <= clock
    BY DEF ThrottleTyped, SweepsCounted
  <2> QED
    BY <2>1
<1>4. \A c \in Clients : Len(spent'[c]) + ToCome(c)' <= 1 + 2 * Sweeps'
  BY <1>1, <1>2 DEF SweepsCounted
<1> QED
  BY <1>3, <1>4 DEF SweepsCounted

\* Threads that are not sweeping may walk as they like.
LEMMA OthersWalk ==
    ASSUME ThrottleInv, SweepsCounted, ThrottleTyped', NEW t \in Threads, thread[t].at # "sweep",
           UNCHANGED <<clock, lastSweep, sweeper, sweeps>>,
           \A u \in Threads \ {t} : thread'[u] = thread[u],
           \A c \in Clients : Len(spent'[c]) = Len(spent[c])
    PROVE  SweepsCounted'
<1>1. sweeper # t
  BY DEF ThrottleInv, OneSweeper
<1>2. clock <= clock'
  BY DEF ThrottleInv, ThrottleTyped
<1> QED
  BY <1>1, <1>2, SweepUntouched DEF ThrottleInv

LEMMA SweepEntered ==
    ASSUME ThrottleInv, ThrottleInv', SweepsCounted, NEW t \in Threads, EnterSweep(t)
    PROVE  SweepsCounted'
<1>1. /\ thread[t].at = "enter" /\ sweeper = NoClient /\ UNCHANGED <<clock, spent>>
      /\ \A u \in Threads \ {t} : thread'[u] = thread[u]
  BY DEF EnterSweep, StandsAt, Goes, ThrottleInv, ThrottleTyped
<1>2. CASE ~Full /\ Since(t) < SweepPause
  <2>1. UNCHANGED <<lastSweep, sweeper, sweeps>>
    BY <1>2 DEF EnterSweep
  <2> QED
    BY <1>1, <2>1, OthersWalk DEF ThrottleInv
<1>3. CASE ~(~Full /\ Since(t) < SweepPause)
  <2>1. /\ lastSweep' = thread[t].now /\ sweeper' = t
        /\ sweeps' = IF Full THEN [sweeps EXCEPT !.forced = @ + 1] ELSE [sweeps EXCEPT !.timed = @ + 1]
    BY <1>3 DEF EnterSweep
  <2>2. sweeps.timed \in Nat /\ sweeps.forced \in Nat /\ Sweeps \in Nat
    BY SweepsTyped
  <2>3. /\ sweeps' \in [timed : Nat, forced : Nat] /\ Sweeps' = Sweeps + 1
        /\ Full => sweeps'.forced # 0
        /\ ~Full => sweeps'.timed = sweeps.timed + 1 /\ sweeps'.forced = sweeps.forced
    <3>1. CASE Full
      BY <2>1, <2>2, <3>1 DEF SweepsCounted, Sweeps
    <3>2. CASE ~Full
      BY <2>1, <2>2, <3>2 DEF SweepsCounted, Sweeps
    <3> QED
      BY <3>1, <3>2
  <2>4. lastSweep' <= clock'
    BY <1>1, <2>1, ThreadTyped DEF ThrottleInv
  <2>5. ASSUME sweeps'.forced = 0 PROVE sweeps'.timed * SweepPause <= lastSweep'
    <3>1. /\ ~Full /\ sweeps.forced = 0 /\ sweeps'.timed = sweeps.timed + 1
      BY <2>3, <2>5
    <3>2. thread[t].now \in Nat /\ lastSweep \in Nat /\ SweepPause \in Nat
      BY ThreadTyped, ThrottleAssumption DEF ThrottleInv, ThrottleTyped
    <3>3. thread[t].now - lastSweep >= SweepPause
      BY <1>3, <3>1, <3>2 DEF Since
    <3>4. sweeps.timed * SweepPause <= lastSweep
      BY <3>1 DEF SweepsCounted
    <3> DEFINE before == sweeps.timed * SweepPause
    <3>5. before \in Nat /\ (sweeps.timed + 1) * SweepPause = before + SweepPause
      BY <2>2, <3>2
    <3> HIDE DEF before
    <3>6. before + SweepPause <= thread[t].now
      <4>1. before <= lastSweep
        BY <3>4 DEF before
      <4> QED
        BY <3>2, <3>3, <3>5, <4>1
    <3> QED
      BY <2>1, <3>1, <3>5, <3>6
  <2>6. ASSUME NEW c \in Clients PROVE Len(spent'[c]) + ToCome(c)' <= 1 + 2 * Sweeps'
    <3>1. ToCome(c) = 0 /\ ToCome(c)' \in {0, 1, 2}
      BY <1>1 DEF ToCome
    <3>2. Len(spent[c]) \in Nat
      BY SpentTyped DEF ThrottleInv
    <3>3. Len(spent[c]) + ToCome(c) <= 1 + 2 * Sweeps
      BY DEF SweepsCounted
    <3> QED
      BY <1>1, <2>2, <2>3, <3>1, <3>2, <3>3
  <2> QED
    BY <2>1, <2>3, <2>4, <2>5, <2>6 DEF SweepsCounted
<1> QED
  BY <1>2, <1>3

\* A step of the sweep under way, which spends what it adds of the lives to come.
LEMMA SweepGoesOn ==
    ASSUME ThrottleInv, SweepsCounted, UNCHANGED <<clock, lastSweep, sweeps>>,
           sweeper' \in Threads \cup {NoClient},
           \A c \in Clients : /\ Len(spent'[c]) \in Nat /\ ToCome(c)' \in {0, 1, 2}
                              /\ Len(spent'[c]) + ToCome(c)' <= Len(spent[c]) + ToCome(c)
    PROVE  SweepsCounted'
<1>1. Sweeps' = Sweeps /\ Sweeps \in Nat
  BY SweepsTyped DEF Sweeps
<1>2. ASSUME NEW c \in Clients PROVE Len(spent'[c]) + ToCome(c)' <= 1 + 2 * Sweeps'
  <2>1. Len(spent[c]) \in Nat /\ ToCome(c) \in {0, 1, 2}
    BY SpentTyped DEF ToCome, ThrottleInv
  <2>2. Len(spent[c]) + ToCome(c) <= 1 + 2 * Sweeps
    BY DEF SweepsCounted
  <2> QED
    BY <1>1, <2>1, <2>2
<1> QED
  BY <1>2 DEF SweepsCounted

LEMMA IdleTested ==
    ASSUME ThrottleInv, SweepsCounted, NEW t \in Threads, NEW d \in Clients, TestIdle(t, d)
    PROVE  SweepsCounted'
<1>1. /\ thread[t].at = "sweep" /\ d \in thread[t].todo
      /\ UNCHANGED <<clock, lastSweep, sweeper, spent, sweeps>>
  BY DEF TestIdle, StandsAt
<1>2. thread'[t].todo \subseteq thread[t].todo /\ thread'[t].doomed \in thread[t].todo \cup {NoClient}
  BY <1>1, ThreadTyped DEF TestIdle, ThrottleInv, ThrottleTyped, ThreadState
<1>3. sweeper = t
  BY <1>1 DEF ThrottleInv, OneSweeper
<1>4. \A c \in Clients : c # NoClient
  BY ThrottleAssumption
<1>5. ASSUME NEW c \in Clients
      PROVE  /\ Len(spent'[c]) \in Nat /\ ToCome(c)' \in {0, 1, 2}
             /\ Len(spent'[c]) + ToCome(c)' <= Len(spent[c]) + ToCome(c)
  <2>1. Len(spent[c]) \in Nat
    BY SpentTyped DEF ThrottleInv
  <2>2. ToCome(c)' \in {0, 1, 2} /\ ToCome(c) \in {0, 1, 2} /\ ToCome(c)' <= ToCome(c)
    BY <1>1, <1>2, <1>3, <1>4 DEF ToCome
  <2> QED
    BY <1>1, <2>1, <2>2
<1> QED
  BY <1>1, <1>5, SweepGoesOn DEF SweepsCounted

LEMMA BucketDropped ==
    ASSUME ThrottleInv, SweepsCounted, NEW t \in Threads, Remove(t)
    PROVE  SweepsCounted'
<1> DEFINE d == thread[t].doomed
<1>1. /\ thread[t].at = "sweep" /\ d # NoClient /\ UNCHANGED <<clock, lastSweep, sweeper, sweeps>>
      /\ thread' = [thread EXCEPT ![t].doomed = NoClient]
      /\ spent' = [spent EXCEPT ![d] = Append(@, 0)] \/ spent' = spent
  BY DEF Remove, StandsAt
<1>2. sweeper = t /\ d \in Clients /\ d \notin thread[t].todo
  BY <1>1 DEF ThrottleInv, OneSweeper, Tracked
<1>3. thread'[t].doomed = NoClient /\ thread'[t].todo = thread[t].todo
  BY <1>1, ThreadTyped DEF ThrottleInv, ThrottleTyped, ThreadState
<1>4. \A c \in Clients : c # NoClient
  BY ThrottleAssumption
<1>5. t # NoClient
  BY ThrottleAssumption
<1>6. ASSUME NEW c \in Clients
      PROVE  /\ Len(spent'[c]) \in Nat /\ ToCome(c)' \in {0, 1, 2}
             /\ Len(spent'[c]) + ToCome(c)' <= Len(spent[c]) + ToCome(c)
  <2>1. spent[c] \in Seq(Nat) /\ Len(spent[c]) \in Nat /\ spent \in [Clients -> Seq(Nat)]
    BY SpentTyped DEF ThrottleInv, ThrottleTyped
  <2>2. Len(Append(spent[c], 0)) = Len(spent[c]) + 1
    BY <2>1
  <2>3. ToCome(c)' \in {0, 1, 2} /\ ToCome(c) \in {0, 1, 2}
    BY DEF ToCome
  <2>4. CASE c = d
    <3>1. ToCome(c) = 2 /\ ToCome(c)' = 1
      BY <1>1, <1>2, <1>3, <1>4, <1>5, <2>4 DEF ToCome
    <3>2. Len(spent'[c]) \in {Len(spent[c]), Len(spent[c]) + 1}
      BY <1>1, <2>1, <2>2, <2>4
    <3> QED
      BY <2>1, <3>1, <3>2
  <2>5. CASE c # d
    <3>1. ToCome(c)' = ToCome(c)
      BY <1>1, <1>2, <1>3, <1>4, <2>5 DEF ToCome
    <3>2. spent'[c] = spent[c]
      BY <1>1, <2>1, <2>5
    <3> QED
      BY <2>1, <2>3, <3>1, <3>2
  <2> QED
    BY <2>4, <2>5
<1> QED
  BY <1>1, <1>6, SweepGoesOn DEF SweepsCounted

LEMMA SweepEnded ==
    ASSUME ThrottleInv, SweepsCounted, NEW t \in Threads, EndSweep(t)
    PROVE  SweepsCounted'
<1>1. /\ thread[t].at = "sweep" /\ sweeper' = NoClient /\ UNCHANGED <<clock, lastSweep, sweeps>>
      /\ \A c \in Clients : spent'[c] = Append(spent[c], 0) \/ spent'[c] = spent[c]
  BY DEF EndSweep, StandsAt
<1>2. sweeper = t /\ t # NoClient
  BY <1>1, ThrottleAssumption DEF ThrottleInv, OneSweeper
<1>3. ASSUME NEW c \in Clients
      PROVE  /\ Len(spent'[c]) \in Nat /\ ToCome(c)' \in {0, 1, 2}
             /\ Len(spent'[c]) + ToCome(c)' <= Len(spent[c]) + ToCome(c)
  <2>1. spent[c] \in Seq(Nat) /\ Len(spent[c]) \in Nat
    BY SpentTyped DEF ThrottleInv
  <2>2. Len(Append(spent[c], 0)) = Len(spent[c]) + 1
    BY <2>1
  <2>3. ToCome(c)' = 0 /\ ToCome(c) \in {1, 2}
    BY <1>1, <1>2 DEF ToCome
  <2>4. Len(spent'[c]) \in {Len(spent[c]), Len(spent[c]) + 1}
    BY <1>1, <2>2
  <2> QED
    BY <2>1, <2>3, <2>4
<1> QED
  BY <1>1, <1>3, SweepGoesOn

LEMMA LengthKept ==
    ASSUME NEW s \in Seq(Nat), NEW i, NEW e
    PROVE  Len([s EXCEPT ![i] = e]) = Len(s)
  OBVIOUS

LEMMA SweepsStayCounted ==
    ASSUME ThrottleInv, ThrottleInv', SweepsCounted, ThrottleNext
    PROVE  SweepsCounted'
<1> USE DEF ThrottleInv
<1>1. ASSUME NEW t \in Threads, NEW c \in Clients, NEW n \in 1 .. Burst, TryAcquire(t, c, n)
      PROVE  SweepsCounted'
  <2>1. /\ thread[t].at # "sweep" /\ \A u \in Threads \ {t} : thread'[u] = thread[u]
        /\ UNCHANGED <<clock, lastSweep, sweeper, spent, sweeps>>
    BY <1>1 DEF TryAcquire, StandsAt, ThrottleTyped
  <2> QED
    BY <2>1, OthersWalk
<1>2. ASSUME NEW t \in Threads, Check(t) PROVE SweepsCounted'
  <2>1. /\ thread[t].at # "sweep" /\ \A u \in Threads \ {t} : thread'[u] = thread[u]
        /\ UNCHANGED <<clock, lastSweep, sweeper, spent, sweeps>>
    BY <1>2 DEF Check, StandsAt, Goes, ThrottleTyped
  <2> QED
    BY <2>1, OthersWalk
<1>3. ASSUME NEW t \in Threads, Take(t) PROVE SweepsCounted'
  <2>1. /\ thread[t].at # "sweep" /\ \A u \in Threads \ {t} : thread'[u] = thread[u]
        /\ UNCHANGED <<clock, lastSweep, sweeper, spent, sweeps>>
    BY <1>3 DEF Take, StandsAt, ThrottleTyped
  <2> QED
    BY <2>1, OthersWalk
<1>4. ASSUME NEW t \in Threads, Spend(t) PROVE SweepsCounted'
  <2>1. /\ thread[t].at # "sweep" /\ \A u \in Threads \ {t} : thread'[u] = thread[u]
        /\ UNCHANGED <<clock, lastSweep, sweeper, sweeps>>
    BY <1>4 DEF Spend, StandsAt, ThrottleTyped
  <2>2. PICK life, n : spent' = [spent EXCEPT ![thread[t].client][life] = n]
    BY <1>4 DEF Spend
  <2>3. ASSUME NEW c \in Clients PROVE Len(spent'[c]) = Len(spent[c])
    <3>1. spent[c] \in Seq(Nat) /\ spent \in [Clients -> Seq(Nat)]
      BY DEF ThrottleTyped
    <3>2. spent'[c] = [spent[c] EXCEPT ![life] = n] \/ spent'[c] = spent[c]
      BY <2>2, <3>1
    <3>3. Len([spent[c] EXCEPT ![life] = n]) = Len(spent[c])
      BY <3>1, LengthKept
    <3> QED
      BY <3>2, <3>3
  <2> QED
    BY <2>1, <2>3, OthersWalk
<1>5. ASSUME TimePasses PROVE SweepsCounted'
  <2>1. clock <= clock' /\ UNCHANGED <<lastSweep, sweeper, thread, spent, sweeps>>
    BY <1>5 DEF TimePasses, ThrottleTyped
  <2> QED
    BY <2>1, SweepUntouched
<1> QED
  BY <1>1, <1>2, <1>3, <1>4, <1>5, SweepEntered, IdleTested, BucketDropped, SweepEnded DEF ThrottleNext

(* The throttle holds for any number of threads, clients and requests, any       *)
(* burst, rate, cap and pause: a life grants its burst and what was refilled, a  *)
(* sweep gives a client two further lives at most, sweeps keep their pause while *)
(* the table stays below its cap, and the table exceeds that cap by fewer        *)
(* clients than there are threads (AnonymousCaptureThrottle).                    *)
THEOREM ThrottleAlwaysHolds == ThrottleSpec => []ThrottleHolds
<1>1. ThrottleInit => SweepsCounted
  <2> SUFFICES ASSUME ThrottleInit PROVE SweepsCounted
    OBVIOUS
  <2>1. /\ clock = 0 /\ lastSweep = 0 /\ sweeper = NoClient /\ sweeps = [timed |-> 0, forced |-> 0]
        /\ \A c \in Clients : spent[c] = <<0>>
    BY DEF ThrottleInit
  <2>2. Sweeps = 0 /\ \A c : ToCome(c) = 0
    BY <2>1 DEF Sweeps, ToCome
  <2>3. 0 * SweepPause = 0
    BY ThrottleAssumption
  <2>4. \A c \in Clients : Len(spent[c]) = 1
    BY <2>1
  <2>5. sweeps \in [timed : Nat, forced : Nat] /\ lastSweep <= clock
    BY <2>1
  <2>6. sweeps.timed * SweepPause <= lastSweep
    BY <2>1, <2>3
  <2>7. \A c \in Clients : Len(spent[c]) + ToCome(c) <= 1 + 2 * Sweeps
    <3>1. 1 + 0 <= 1 + 2 * 0
      OBVIOUS
    <3> QED
      BY <2>2, <2>4, <3>1
  <2> QED
    BY <2>1, <2>5, <2>6, <2>7 DEF SweepsCounted
<1>2. ThrottleInv /\ ThrottleInv' /\ SweepsCounted /\ [ThrottleNext]_throttleVars => SweepsCounted'
  <2> SUFFICES ASSUME ThrottleInv, ThrottleInv', SweepsCounted, UNCHANGED throttleVars
               PROVE  SweepsCounted'
    BY SweepsStayCounted
  <2> QED
    BY DEF throttleVars, SweepsCounted, Sweeps, ToCome
<1>3. ThrottleInv /\ SweepsCounted => ThrottleHolds
  <2> SUFFICES ASSUME ThrottleInv, SweepsCounted PROVE ThrottleHolds
    OBVIOUS
  <2>1. Cardinality(Tracked) < TrackedCap + Cardinality(Threads)
    <3>1. /\ Cardinality(Taking) \in Nat /\ Cardinality(Tracked) \in Nat
          /\ Cardinality(Threads) \in Nat /\ TrackedCap \in Nat
      BY TakingFinite, ThrottleAssumption DEF ThrottleInv
    <3> QED
      BY <3>1 DEF ThrottleInv, FewAboveTheCap
  <2>2. ASSUME NEW c \in Clients PROVE Len(spent[c]) <= 1 + 2 * (sweeps.timed + sweeps.forced)
    <3>1. Len(spent[c]) \in Nat /\ Sweeps \in Nat
      BY SpentTyped, SweepsTyped DEF ThrottleInv
    <3>2. ToCome(c) \in {0, 1, 2} /\ Len(spent[c]) + ToCome(c) <= 1 + 2 * Sweeps
      BY DEF ToCome, SweepsCounted
    <3>3. Len(spent[c]) <= 1 + 2 * Sweeps
      BY <3>1, <3>2
    <3> QED
      BY <3>3 DEF Sweeps
  <2>3. ASSUME sweeps.forced = 0 PROVE sweeps.timed * SweepPause <= clock
    <3> DEFINE taken == sweeps.timed * SweepPause
    <3>1. taken \in Nat /\ lastSweep \in Nat /\ clock \in Nat /\ lastSweep <= clock
      BY SweepsTyped, ThrottleAssumption DEF ThrottleInv, ThrottleTyped, SweepsCounted
    <3>2. taken <= lastSweep
      BY <2>3 DEF SweepsCounted
    <3> HIDE DEF taken
    <3>3. taken <= clock
      BY <3>1, <3>2
    <3> QED
      BY <3>3 DEF taken
  <2> QED
    BY <2>1, <2>2, <2>3 DEF ThrottleInv, WithinBurst, ThrottleHolds
<1> QED
  BY <1>1, <1>2, <1>3, ThrottleInvariance, PTL DEF ThrottleSpec

=============================================================================
