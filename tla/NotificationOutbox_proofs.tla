----------------------- MODULE NotificationOutbox_proofs -----------------------
(***************************************************************************)
(* Theorems about the delivery of notifications, for any number of rows, of *)
(* mailers and of jobs beside them, any batch sizes, attempt limit and      *)
(* stale window, whether or not a batch fits into the window.              *)
(*                                                                          *)
(* The argument: a row that a mailer still has to deal with, and that no    *)
(* job took and no claim larger than the window, is 'sending', and its      *)
(* claim is younger than the number of rows the pass has dealt with         *)
(* (Protected); so the stale sweep does not release it and nobody else can  *)
(* take it.  Copies and attempts are counted against the dispatchers that   *)
(* hold the row (Counted): whoever takes a row up may cost it one attempt   *)
(* and one copy, and takes it either from nobody, or beside another holder, *)
(* which overlaps counts.                                                  *)
(***************************************************************************)
EXTENDS NotificationOutbox, FiniteSetTheorems, TLAPS

(* The shape of a pass at each of its statements.                          *)
Shape(d) ==
    /\ pass[d].pc \in {"idle", "claim"} => pass[d].batch = {} /\ pass[d].busy = 0
    /\ pass[d].pc \in {"send", "report"} => pass[d].current \in pass[d].batch
    /\ pass[d].pc = "claim" => d \in Mailers

(* What holds of the rows in hand: none is still to be queued, and one that *)
(* is not exposed is as its claim left it.                                  *)
Protected(d) ==
    \A r \in Held(d) :
        /\ row[r].state # "absent"
        /\ r \notin exposed => /\ d \in Mailers
                               /\ row[r].state = "sending"
                               /\ row[r].age + Cardinality(Held(d))
                                       <= StaleWindow + pass[d].busy

Delivered(d) == pass[d].pc = "report" /\ pass[d].ok

Reported(d) == Delivered(d) => received[pass[d].current] > 0

PassInv(d) == Shape(d) /\ Protected(d) /\ Reported(d)

(* d may yet deliver r, or report its failure.                             *)
OpenBy(d, r) == r \in Held(d) /\ ~(Delivered(d) /\ pass[d].current = r)

Holders(r) == Cardinality({d \in Dispatchers : r \in Held(d)})
Openers(r) == Cardinality({d \in Dispatchers : OpenBy(d, r)})

Unsettled(r) == row[r].state \in {"absent", "pending", "sending"}

(* r will be taken up by a dispatcher that finds it in nobody's hand.      *)
Waiting(r) == IF Unsettled(r) /\ Holders(r) = 0 THEN 1 ELSE 0

Labelled(r) ==
    /\ Unsettled(r) => row[r].attempts < MaxAttempts
    /\ row[r].state = "failed" => row[r].attempts >= MaxAttempts
    /\ row[r].state = "sent" => received[r] > 0

Counted(r) ==
    /\ Labelled(r)
    /\ row[r].attempts + Holders(r) <= MaxAttempts + overlaps[r]
    /\ received[r] + Openers(r) + Waiting(r) <= 1 + faults + overlaps[r]

RowsInv == \A r \in Rows : Counted(r)

OutboxInv ==
    /\ TypeOK
    /\ OneHolder
    /\ \A d \in Dispatchers : PassInv(d)
    /\ RowsInv

----------------------------------------------------------------------------
(* Edits of a row's record.                                                *)
LEMMA RowState ==
    ASSUME NEW x \in Row, NEW s \in {"absent", "pending", "sending", "sent", "failed"},
           NEW y, y = [x EXCEPT !.state = s]
    PROVE  y \in Row /\ y.state = s /\ y.attempts = x.attempts /\ y.age = x.age
BY DEF Row

LEMMA RowAs ==
    ASSUME NEW r, row[r] \in Row,
           NEW s \in {"absent", "pending", "sending", "sent", "failed"}
    PROVE  As(r, s) \in Row /\ As(r, s).state = s
           /\ As(r, s).attempts = row[r].attempts /\ As(r, s).age = 0
BY DEF Row, As

LEMMA RowAge ==
    ASSUME NEW x \in Row, NEW y, y = [x EXCEPT !.age = @ + 1]
    PROVE  y \in Row /\ y.state = x.state /\ y.attempts = x.attempts
           /\ y.age = x.age + 1
BY DEF Row

LEMMA IdlePass ==
    /\ Idle \in Pass
    /\ Idle.pc = "idle" /\ Idle.batch = {} /\ Idle.current = None
    /\ Idle.ok = FALSE /\ Idle.busy = 0
BY DEF Idle, Pass

(* A pass that goes on with the rows of S, or is over.                     *)
GoesOn(p, S) == IF S = {} THEN p = Idle ELSE \E r \in S : p = Working(S, r)

LEMMA OnwardPass ==
    ASSUME NEW S \in SUBSET Rows, NEW p, GoesOn(p, S)
    PROVE  /\ p \in Pass /\ p.batch = S /\ p.busy = 0
           /\ \/ p.pc = "idle" /\ S = {}
              \/ p.pc = "send" /\ p.current \in S
<1>1. CASE S = {}
  BY <1>1, IdlePass DEF GoesOn
<1>2. CASE S # {}
  <2>1. PICK r \in S : p = Working(S, r)
    BY <1>2 DEF GoesOn
  <2> QED BY <2>1 DEF Working, Pass
<1> QED BY <1>1, <1>2

----------------------------------------------------------------------------
(* Counting those who hold a row.                                          *)

Unit(b) == IF b THEN 1 ELSE 0

LEMMA OneMember ==
    ASSUME NEW A \in SUBSET Dispatchers, NEW d \in Dispatchers
    PROVE  /\ Cardinality(A \ {d}) \in Nat
           /\ Cardinality(A) = Cardinality(A \ {d}) + Unit(d \in A)
<1>1. IsFiniteSet(A) /\ IsFiniteSet(A \ {d})
  BY OutboxAssumption, FS_Subset DEF Dispatchers
<1>2. Cardinality(A \ {d}) \in Nat /\ Cardinality(A) \in Nat
  BY <1>1, FS_CardinalityType
<1>3. CASE d \in A
  BY <1>1, <1>2, <1>3, FS_RemoveElement DEF Unit
<1>4. CASE d \notin A
  <2>1. A \ {d} = A
    BY <1>4
  <2>2. Unit(d \in A) = 0
    BY <1>4 DEF Unit
  <2>3. Cardinality(A \ {d}) = Cardinality(A)
    BY <2>1
  <2> QED BY <1>2, <2>2, <2>3
<1> QED BY <1>3, <1>4

(* A step of d changes the counts by d's share in them.                    *)
LEMMA Counting ==
    ASSUME OutboxInv, NEW d \in Dispatchers, NEW p \in Pass,
           pass' = [pass EXCEPT ![d] = p], NEW r \in Rows
    PROVE  \E h, o \in Nat :
               /\ Holders(r) = h + Unit(r \in Held(d))
               /\ Holders(r)' = h + Unit(r \in p.batch)
               /\ Openers(r) = o + Unit(OpenBy(d, r))
               /\ Openers(r)' = o + Unit(OpenBy(d, r)')
               /\ h = 0 => r \notin HeldBeside(d) /\ o = 0
               /\ r \notin HeldBeside(d) => h = 0
<1> DEFINE H == {e \in Dispatchers : r \in Held(e)}
           O == {e \in Dispatchers : OpenBy(e, r)}
           H2 == {e \in Dispatchers : r \in Held(e)'}
           O2 == {e \in Dispatchers : OpenBy(e, r)'}
<1>1. pass'[d] = p /\ \A e \in Dispatchers \ {d} : pass'[e] = pass[e]
  BY DEF OutboxInv, TypeOK
<1>2. \A e \in Dispatchers \ {d} : (Held(e)' = Held(e)) /\ (OpenBy(e, r)' <=> OpenBy(e, r))
  BY <1>1 DEF Held, OpenBy, Delivered
<1>3. H2 \ {d} = H \ {d} /\ O2 \ {d} = O \ {d}
  BY <1>2
<1>4. (d \in H2 <=> r \in p.batch) /\ (d \in H <=> r \in Held(d))
      /\ (d \in O2 <=> OpenBy(d, r)') /\ (d \in O <=> OpenBy(d, r))
  BY <1>1 DEF Held
<1>5. /\ Holders(r) = Cardinality(H) /\ Holders(r)' = Cardinality(H2)
      /\ Openers(r) = Cardinality(O) /\ Openers(r)' = Cardinality(O2)
  BY DEF Holders, Openers
<1>6. H \in SUBSET Dispatchers /\ O \in SUBSET Dispatchers
      /\ H2 \in SUBSET Dispatchers /\ O2 \in SUBSET Dispatchers
  OBVIOUS
<1>7. O \ {d} \subseteq H \ {d}
  BY DEF OpenBy
<1>8. r \in HeldBeside(d) <=> H \ {d} # {}
  BY DEF HeldBeside
<1>9. IsFiniteSet(H \ {d}) /\ IsFiniteSet(O \ {d})
  BY <1>6, OutboxAssumption, FS_Subset DEF Dispatchers
<1>10. /\ Cardinality(H \ {d}) = 0 <=> H \ {d} = {}
       /\ Cardinality(O \ {d}) = 0 <=> O \ {d} = {}
  BY <1>9, FS_EmptySet
<1> HIDE DEF H, O, H2, O2
<1>11. /\ Cardinality(H) = Cardinality(H \ {d}) + Unit(d \in H)
       /\ Cardinality(H2) = Cardinality(H \ {d}) + Unit(d \in H2)
       /\ Cardinality(O) = Cardinality(O \ {d}) + Unit(d \in O)
       /\ Cardinality(O2) = Cardinality(O \ {d}) + Unit(d \in O2)
       /\ Cardinality(H \ {d}) \in Nat /\ Cardinality(O \ {d}) \in Nat
  BY <1>3, <1>6, OneMember
<1>12. /\ Cardinality(H \ {d}) = 0 => r \notin HeldBeside(d) /\ Cardinality(O \ {d}) = 0
       /\ r \notin HeldBeside(d) => Cardinality(H \ {d}) = 0
  BY <1>7, <1>8, <1>10
<1>13. /\ Holders(r) = Cardinality(H \ {d}) + Unit(r \in Held(d))
       /\ Holders(r)' = Cardinality(H \ {d}) + Unit(r \in p.batch)
       /\ Openers(r) = Cardinality(O \ {d}) + Unit(OpenBy(d, r))
       /\ Openers(r)' = Cardinality(O \ {d}) + Unit(OpenBy(d, r)')
  BY <1>4, <1>5, <1>11 DEF Unit
<1> QED BY <1>11, <1>12, <1>13

----------------------------------------------------------------------------
LEMMA InitOutbox == Init => OutboxInv
<1> SUFFICES ASSUME Init PROVE OutboxInv
  OBVIOUS
<1>1. TypeOK
  BY IdlePass DEF Init, TypeOK, Row
<1>2. \A d \in Dispatchers : pass[d] = Idle /\ Held(d) = {}
  BY IdlePass DEF Init, Held
<1>3. OneHolder
  BY <1>2 DEF OneHolder
<1>4. \A d \in Dispatchers : PassInv(d)
  BY <1>2, IdlePass DEF PassInv, Shape, Protected, Reported, Delivered
<1>5. ASSUME NEW r \in Rows PROVE Counted(r)
  <2>1. row[r] = [state |-> "absent", attempts |-> 0, age |-> 0]
        /\ received[r] = 0 /\ faults = 0 /\ overlaps[r] = 0
    BY DEF Init
  <2>2. {d \in Dispatchers : r \in Held(d)} = {} /\ {d \in Dispatchers : OpenBy(d, r)} = {}
    BY <1>2 DEF OpenBy
  <2>3. Holders(r) = 0 /\ Openers(r) = 0
    BY <2>2, FS_EmptySet DEF Holders, Openers
  <2> QED BY <2>1, <2>3, OutboxAssumption DEF Counted, Labelled, Unsettled, Waiting
<1> QED BY <1>1, <1>3, <1>4, <1>5 DEF OutboxInv, RowsInv

(* What is known of a dispatcher and of the rows it holds.                 *)
LEMMA Holding ==
    ASSUME OutboxInv, NEW d \in Dispatchers
    PROVE  /\ pass[d] \in Pass
           /\ Held(d) \subseteq Rows /\ IsFiniteSet(Held(d))
           /\ Cardinality(Held(d)) \in Nat
           /\ \A r \in Held(d) : row[r] \in Row /\ Cardinality(Held(d)) >= 1
<1>1. pass[d] \in Pass
  BY DEF OutboxInv, TypeOK
<1>2. Held(d) \subseteq Rows
  BY <1>1 DEF Pass, Held
<1>3. IsFiniteSet(Held(d)) /\ Cardinality(Held(d)) \in Nat
  BY <1>2, OutboxAssumption, FS_Subset, FS_CardinalityType
<1>4. \A r \in Held(d) : Cardinality(Held(d)) # 0
  BY <1>3, FS_EmptySet
<1> QED BY <1>1, <1>2, <1>3, <1>4 DEF OutboxInv, TypeOK

(* The numbers kept of a row.                                              *)
LEMMA Numbers ==
    ASSUME OutboxInv, NEW r \in Rows
    PROVE  /\ row[r] \in Row /\ row[r].attempts \in Nat /\ row[r].age \in Nat
           /\ received[r] \in Nat /\ overlaps[r] \in Nat /\ faults \in Nat
           /\ MaxAttempts \in Nat \ {0}
           /\ Counted(r)
BY OutboxAssumption DEF OutboxInv, TypeOK, Row, RowsInv

(* The row a pass sends or reports.                                        *)
LEMMA Current ==
    ASSUME OutboxInv, NEW d \in Dispatchers, pass[d].pc \in {"send", "report"}
    PROVE  /\ pass[d].current \in Rows /\ pass[d].current \in Held(d)
           /\ row[pass[d].current] \in Row
           /\ row[pass[d].current].state # "absent"
<1>1. pass[d].current \in Held(d)
  BY DEF OutboxInv, PassInv, Shape, Held
<1> QED BY <1>1, Holding DEF OutboxInv, PassInv, Protected

(* A step of dispatcher d leaves the other ones in order, if it disturbs no *)
(* row that they alone hold.                                               *)
LEMMA PassFrame ==
    ASSUME OutboxInv, NEW d \in Dispatchers, NEW p \in Pass,
           pass' = [pass EXCEPT ![d] = p], TypeOK',
           \A r \in Rows : row[r].state # "absent" => row'[r].state # "absent",
           \A r \in Rows : received'[r] >= received[r],
           \A r \in HeldBeside(d) :
                /\ r \in exposed => r \in exposed'
                /\ r \notin exposed' => row'[r] = row[r] /\ r \notin p.batch,
           PassInv(d)', RowsInv'
    PROVE  OutboxInv'
<1>1. pass'[d] = p /\ \A e \in Dispatchers \ {d} : pass'[e] = pass[e]
  BY DEF OutboxInv, TypeOK
<1>2. \A e \in Dispatchers \ {d} : Held(e)' = Held(e) /\ Held(e) \subseteq HeldBeside(d)
  BY <1>1 DEF Held, HeldBeside
<1>3. Held(d)' = p.batch
  BY <1>1 DEF Held
<1>4. OneHolder'
  <2> SUFFICES ASSUME NEW e \in Dispatchers, NEW f \in Dispatchers, e # f,
                      NEW r, r \in Held(e)', r \in Held(f)'
               PROVE  r \in exposed'
    BY DEF OneHolder
  <2>1. CASE e # d /\ f # d
    <3>1. r \in Held(e) /\ r \in Held(f) /\ r \in HeldBeside(d)
      BY <1>2, <2>1
    <3>2. r \in exposed
      BY <3>1 DEF OutboxInv, OneHolder
    <3> QED BY <3>1, <3>2
  <2>2. CASE e = d
    BY <1>2, <1>3, <2>2
  <2>3. CASE f = d
    BY <1>2, <1>3, <2>3
  <2> QED BY <2>1, <2>2, <2>3
<1>5. ASSUME NEW e \in Dispatchers \ {d} PROVE PassInv(e)'
  <2>1. pass'[e] = pass[e] /\ Held(e)' = Held(e) /\ Held(e) \subseteq HeldBeside(d)
    BY <1>1, <1>2
  <2>2. PassInv(e) /\ Held(e) \subseteq Rows
    BY Holding DEF OutboxInv
  <2>3. Shape(e)'
    BY <2>1, <2>2 DEF PassInv, Shape
  <2>4. Protected(e)'
    BY <2>1, <2>2 DEF PassInv, Protected
  <2>5. Reported(e)'
    <3> SUFFICES ASSUME Delivered(e)' PROVE received'[pass'[e].current] > 0
      BY DEF Reported
    <3>1. Delivered(e) /\ pass[e].pc = "report"
      BY <2>1 DEF Delivered
    <3>2. pass[e].current \in Rows
      BY <3>1, Current
    <3>3. received[pass[e].current] > 0
      BY <2>2, <3>1 DEF PassInv, Reported
    <3>4. received'[pass[e].current] >= received[pass[e].current]
      BY <3>2
    <3>5. received[pass[e].current] \in Nat /\ received'[pass[e].current] \in Nat
      BY <3>2 DEF OutboxInv, TypeOK
    <3> QED BY <2>1, <3>3, <3>4, <3>5
  <2> QED BY <2>3, <2>4, <2>5 DEF PassInv
<1>6. \A e \in Dispatchers : PassInv(e)'
  BY <1>5
<1> QED BY <1>4, <1>6 DEF OutboxInv

(* A pass that gives up, or has not begun, is in order.                    *)
LEMMA IdleInv ==
    ASSUME NEW d \in Dispatchers,
           pass'[d].pc \in {"idle", "claim"}, pass'[d].batch = {}, pass'[d].busy = 0,
           pass'[d].pc = "claim" => d \in Mailers
    PROVE  PassInv(d)'
BY DEF PassInv, Shape, Protected, Reported, Delivered, Held

----------------------------------------------------------------------------
(* The actions.                                                            *)

(* A step in which no row changes hands.                                   *)
LEMMA SameHands ==
    ASSUME \A d \in Dispatchers :
               /\ pass'[d].pc = pass[d].pc /\ pass'[d].batch = pass[d].batch
               /\ pass'[d].current = pass[d].current /\ pass'[d].ok = pass[d].ok
    PROVE  /\ \A d \in Dispatchers : Held(d)' = Held(d)
           /\ \A r : Holders(r)' = Holders(r) /\ Openers(r)' = Openers(r)
<1>1. \A d \in Dispatchers : Held(d)' = Held(d)
  BY DEF Held
<1>2. \A d \in Dispatchers : \A r : OpenBy(d, r)' <=> OpenBy(d, r)
  BY <1>1 DEF OpenBy, Delivered
<1> SUFFICES ASSUME NEW r PROVE Holders(r)' = Holders(r) /\ Openers(r)' = Openers(r)
  BY <1>1
<1>3. {d \in Dispatchers : r \in Held(d)'} = {d \in Dispatchers : r \in Held(d)}
  BY <1>1
<1>4. {d \in Dispatchers : OpenBy(d, r)'} = {d \in Dispatchers : OpenBy(d, r)}
  BY <1>2
<1> QED BY <1>3, <1>4 DEF Holders, Openers

LEMMA EnqueueStep ==
    ASSUME OutboxInv, NEW r \in Rows, Enqueue(r)
    PROVE  OutboxInv'
<1>1. /\ row[r].state = "absent" /\ row[r] \in Row
      /\ row' = [row EXCEPT ![r] = [row[r] EXCEPT !.state = "pending"]]
      /\ UNCHANGED <<received, pass, exposed, overlaps, faults>>
  BY DEF Enqueue, OutboxInv, TypeOK
<1>2. /\ row' \in [Rows -> Row]
      /\ row'[r].state = "pending" /\ row'[r].attempts = row[r].attempts
      /\ \A q \in Rows \ {r} : row'[q] = row[q]
  <2> DEFINE queued == [row[r] EXCEPT !.state = "pending"]
  <2>1. queued \in Row /\ queued.state = "pending" /\ queued.attempts = row[r].attempts
    BY <1>1, RowState
  <2>2. row' = [row EXCEPT ![r] = queued] /\ row \in [Rows -> Row]
    BY <1>1 DEF OutboxInv, TypeOK
  <2> HIDE DEF queued
  <2> QED BY <2>1, <2>2
<1>3. TypeOK'
  BY <1>1, <1>2 DEF OutboxInv, TypeOK
<1>4. /\ \A d \in Dispatchers : Held(d)' = Held(d)
      /\ \A q : Holders(q)' = Holders(q) /\ Openers(q)' = Openers(q)
  BY <1>1, SameHands
<1>5. OneHolder'
  BY <1>1, <1>4 DEF OutboxInv, OneHolder
<1>6. ASSUME NEW d \in Dispatchers PROVE PassInv(d)'
  <2>1. PassInv(d) /\ Held(d) \subseteq Rows /\ r \notin Held(d)
    BY <1>1, Holding DEF OutboxInv, PassInv, Protected
  <2>2. Shape(d)' /\ Reported(d)'
    BY <1>1, <2>1 DEF PassInv, Shape, Reported, Delivered
  <2>3. Protected(d)'
    <3>1. \A q \in Held(d) : row'[q] = row[q]
      BY <1>2, <2>1
    <3> QED BY <1>1, <1>4, <2>1, <3>1 DEF PassInv, Protected
  <2> QED BY <2>2, <2>3 DEF PassInv
<1>7. ASSUME NEW q \in Rows PROVE Counted(q)'
  <2>1. Counted(q)
    BY Numbers
  <2>2. CASE q = r
    BY <1>1, <1>2, <1>4, <2>1, <2>2 DEF Counted, Labelled, Unsettled, Waiting
  <2>3. CASE q # r
    BY <1>1, <1>2, <1>4, <2>1, <2>3 DEF Counted, Labelled, Unsettled, Waiting
  <2> QED BY <2>2, <2>3
<1> QED BY <1>3, <1>5, <1>6, <1>7 DEF OutboxInv, RowsInv

(* The sweep leaves the rows alone that are not exposed.                   *)
LEMMA HeldNotStale ==
    ASSUME OutboxInv, NEW d \in Dispatchers, NEW r \in Held(d), r \notin exposed
    PROVE  ~(row[r].state = "sending" /\ row[r].age > StaleWindow)
<1>1. /\ d \in Mailers /\ row[r].age + Cardinality(Held(d)) <= StaleWindow + pass[d].busy
  BY DEF OutboxInv, PassInv, Protected
<1>2. /\ Cardinality(Held(d)) \in Nat /\ Cardinality(Held(d)) >= 1
      /\ pass[d].busy \in {0, 1} /\ row[r].age \in Nat
  BY Holding DEF Pass, Row
<1> QED BY <1>1, <1>2, OutboxAssumption

LEMMA ReleaseStep ==
    ASSUME OutboxInv, NEW d \in Dispatchers, ReleaseStale(d)
    PROVE  OutboxInv'
<1> DEFINE p == [Idle EXCEPT !.pc = "claim"]
<1>1. /\ d \in Mailers /\ pass[d] = Idle
      /\ pass' = [pass EXCEPT ![d] = p]
      /\ UNCHANGED <<received, exposed, overlaps, faults>>
  BY DEF ReleaseStale
<1>2. p \in Pass /\ p.pc = "claim" /\ p.batch = {} /\ p.busy = 0
  BY IdlePass DEF Pass
<1>3. pass'[d] = p
  BY <1>1 DEF OutboxInv, TypeOK
<1>4. ASSUME NEW r \in Rows
      PROVE  /\ row'[r] \in Row
             /\ \/ row'[r] = row[r]
                \/ /\ row[r].state = "sending" /\ row[r].age > StaleWindow
                   /\ row'[r].state = "pending"
                   /\ row'[r].attempts = row[r].attempts
  <2>1. row[r] \in Row
    BY Numbers
  <2>2. CASE row[r].state = "sending" /\ row[r].age > StaleWindow
    <3>1. row'[r] = As(r, "pending")
      BY <2>2 DEF ReleaseStale
    <3> QED BY <2>1, <2>2, <3>1, RowAs
  <2>3. CASE ~(row[r].state = "sending" /\ row[r].age > StaleWindow)
    BY <2>1, <2>3 DEF ReleaseStale
  <2> QED BY <2>2, <2>3
<1>5. row' \in [Rows -> Row]
  BY <1>4 DEF ReleaseStale
<1>6. PassInv(d)'
  BY <1>1, <1>2, <1>3, IdleInv
<1> HIDE DEF p
<1>7. pass' \in [Dispatchers -> Pass]
  BY <1>1, <1>2 DEF OutboxInv, TypeOK
<1>8. TypeOK'
  BY <1>1, <1>5, <1>7 DEF OutboxInv, TypeOK
<1>9. ASSUME NEW r \in HeldBeside(d)
      PROVE  /\ r \in exposed => r \in exposed'
             /\ r \notin exposed' => row'[r] = row[r] /\ r \notin p.batch
  <2>1. PICK e \in Dispatchers \ {d} : r \in Held(e)
    BY DEF HeldBeside
  <2>2. r \in Rows
    BY <2>1, Holding
  <2> QED BY <1>1, <1>2, <1>4, <2>1, <2>2, HeldNotStale
<1>10. ASSUME NEW r \in Rows PROVE Counted(r)'
  <2>1. Counted(r)
    BY Numbers
  <2>2. PICK h, o \in Nat : /\ Holders(r) = h + Unit(r \in Held(d))
                            /\ Holders(r)' = h + Unit(r \in p.batch)
                            /\ Openers(r) = o + Unit(OpenBy(d, r))
                            /\ Openers(r)' = o + Unit(OpenBy(d, r)')
    BY <1>1, <1>2, Counting
  <2>3. r \notin Held(d) /\ ~OpenBy(d, r) /\ ~OpenBy(d, r)'
    BY <1>1, <1>2, <1>3, IdlePass DEF Held, OpenBy
  <2>4. Holders(r)' = Holders(r) /\ Openers(r)' = Openers(r)
    BY <1>2, <2>2, <2>3 DEF Unit
  <2> QED BY <1>1, <1>4, <2>1, <2>4 DEF Counted, Labelled, Unsettled, Waiting
<1>11. RowsInv'
  BY <1>10 DEF RowsInv
<1>12. /\ \A r \in Rows : row[r].state # "absent" => row'[r].state # "absent"
       /\ \A r \in Rows : received'[r] >= received[r]
  BY <1>1, <1>4, Numbers
<1> QED BY <1>1, <1>2, <1>6, <1>8, <1>9, <1>11, <1>12, PassFrame

(* The rows a claim marks.                                                 *)
LEMMA MarkedRows ==
    ASSUME OutboxInv, NEW S \in SUBSET Pending, row' = Marked(S)
    PROVE  /\ row' \in [Rows -> Row]
           /\ \A r \in Rows \ S : row'[r] = row[r]
           /\ \A r \in S : /\ row'[r].state = "sending" /\ row'[r].age = 0
                           /\ row'[r].attempts = row[r].attempts
<1>2. ASSUME NEW r \in Rows
      PROVE  /\ row'[r] \in Row
             /\ r \notin S => row'[r] = row[r]
             /\ r \in S => /\ row'[r].state = "sending" /\ row'[r].age = 0
                           /\ row'[r].attempts = row[r].attempts
  <2>1. row[r] \in Row
    BY Numbers
  <2>2. CASE r \in S
    <3>1. row'[r] = As(r, "sending")
      BY <2>2 DEF Marked
    <3> QED BY <2>1, <2>2, <3>1, RowAs
  <2>3. CASE r \notin S
    BY <2>1, <2>3 DEF Marked
  <2> QED BY <2>2, <2>3
<1> QED BY <1>2 DEF Marked, Pending

(* A row that a mailer's claim protects is not up for being taken.         *)
LEMMA NotPending ==
    ASSUME OutboxInv, NEW d \in Dispatchers, NEW r \in HeldBeside(d), r \notin exposed
    PROVE  r \in Rows /\ r \notin Pending
<1>1. PICK e \in Dispatchers \ {d} : r \in Held(e)
  BY DEF HeldBeside
<1>2. row[r].state = "sending" /\ r \in Rows
  BY <1>1, Holding DEF OutboxInv, PassInv, Protected
<1> QED BY <1>2 DEF Pending

(* Taking rows up, whether the taker marks them or not.                    *)
LEMMA TakeUpStep ==
    ASSUME OutboxInv, NEW d \in Dispatchers, pass[d].batch = {},
           NEW S \in SUBSET Pending, TakeUp(d, S), UNCHANGED <<received, faults>>,
           \/ d \in Mailers /\ row' = Marked(S)
           \/ d \in Jobs /\ row' = row
    PROVE  OutboxInv'
<1>1. PICK p : pass' = [pass EXCEPT ![d] = p] /\ GoesOn(p, S)
  BY DEF TakeUp, GoesOn
<1>2. S \subseteq Rows
  BY DEF Pending
<1>3. /\ p \in Pass /\ p.batch = S /\ p.busy = 0
      /\ \/ p.pc = "idle" /\ S = {}
         \/ p.pc = "send" /\ p.current \in S
  BY <1>1, <1>2, OnwardPass
<1>4. pass'[d] = p
  BY <1>1 DEF OutboxInv, TypeOK
<1>5. /\ row' \in [Rows -> Row]
      /\ \A r \in Rows \ S : row'[r] = row[r]
      /\ \A r \in S : /\ row'[r].attempts = row[r].attempts
                      /\ row'[r].state \in {"pending", "sending"}
                      /\ d \in Mailers => row'[r].state = "sending" /\ row'[r].age = 0
  <2>1. CASE d \in Mailers /\ row' = Marked(S)
    BY <2>1, MarkedRows
  <2>2. CASE d \in Jobs /\ row' = row
    BY <2>2, OutboxAssumption DEF OutboxInv, TypeOK, Pending
  <2> QED BY <2>1, <2>2
<1>6. /\ exposed' \subseteq Rows /\ overlaps' \in [Rows -> Nat]
      /\ exposed \subseteq exposed'
      /\ \A r \in Rows : overlaps'[r] = overlaps[r] + Unit(r \in S \cap HeldBeside(d))
  <2>1. /\ exposed' = exposed \cup {r \in S : d \in Jobs \/ Cardinality(S) > StaleWindow}
        /\ overlaps' = [r \in Rows |-> IF r \in S \cap HeldBeside(d)
                                       THEN overlaps[r] + 1 ELSE overlaps[r]]
    BY DEF TakeUp
  <2>2. \A r \in Rows : overlaps[r] \in Nat
    BY Numbers
  <2> QED BY <1>2, <2>1, <2>2 DEF Unit, OutboxInv, TypeOK
<1>7. TypeOK'
  BY <1>1, <1>3, <1>5, <1>6 DEF OutboxInv, TypeOK
<1>8. PassInv(d)'
  <2>1. Held(d)' = S /\ ~Delivered(d)'
    BY <1>3, <1>4 DEF Held, Delivered
  <2>2. Shape(d)'
    BY <1>3, <1>4 DEF Shape
  <2>3. ASSUME NEW r \in S
        PROVE  /\ row'[r].state # "absent"
               /\ r \notin exposed' => /\ d \in Mailers
                                       /\ row'[r].state = "sending"
                                       /\ row'[r].age + Cardinality(S) <= StaleWindow + 0
    <3>1. r \notin exposed' => d \notin Jobs /\ ~(Cardinality(S) > StaleWindow)
      BY DEF TakeUp
    <3>2. Cardinality(S) \in Nat
      BY <1>2, OutboxAssumption, FS_Subset, FS_CardinalityType
    <3>3. d \notin Jobs => d \in Mailers
      BY DEF Dispatchers
    <3>4. row'[r].state # "absent"
      BY <1>5
    <3>5. d \in Mailers => row'[r].state = "sending" /\ row'[r].age = 0
      BY <1>5
    <3>6. r \notin exposed' => row'[r].age + Cardinality(S) <= StaleWindow + 0
      BY <3>1, <3>2, <3>3, <3>5, OutboxAssumption
    <3> QED BY <3>1, <3>3, <3>4, <3>5, <3>6
  <2>4. Protected(d)'
    BY <1>3, <1>4, <2>1, <2>3 DEF Protected
  <2> QED BY <2>1, <2>2, <2>4 DEF PassInv, Reported
<1>9. \A r \in HeldBeside(d) :
          /\ r \in exposed => r \in exposed'
          /\ r \notin exposed' => row'[r] = row[r] /\ r \notin p.batch
  BY <1>3, <1>5, <1>6, NotPending
<1>10. ASSUME NEW r \in Rows PROVE Counted(r)'
  <2>1. PICK h, o \in Nat : /\ Holders(r) = h + Unit(r \in Held(d))
                            /\ Holders(r)' = h + Unit(r \in p.batch)
                            /\ Openers(r) = o + Unit(OpenBy(d, r))
                            /\ Openers(r)' = o + Unit(OpenBy(d, r)')
                            /\ h = 0 => r \notin HeldBeside(d) /\ o = 0
                            /\ r \notin HeldBeside(d) => h = 0
    BY <1>1, <1>3, Counting
  <2>2. /\ r \notin Held(d) /\ ~OpenBy(d, r)
        /\ Holders(r) = h /\ Openers(r) = o
    BY <2>1 DEF Held, OpenBy, Unit
  <2>3. OpenBy(d, r)' <=> r \in S
    BY <1>3, <1>4 DEF OpenBy, Held, Delivered
  <2>4. Counted(r) /\ row[r].attempts \in Nat /\ received[r] \in Nat
        /\ overlaps[r] \in Nat /\ faults \in Nat /\ MaxAttempts \in Nat
    BY Numbers
  <2>5. CASE r \notin S
    <3>0. r \notin p.batch /\ ~OpenBy(d, r)' /\ r \notin S \cap HeldBeside(d)
      BY <1>3, <2>3, <2>5
    <3>1. Holders(r)' = Holders(r) /\ Openers(r)' = Openers(r)
          /\ overlaps'[r] = overlaps[r] /\ row'[r] = row[r]
      <4>1. Unit(r \in p.batch) = 0 /\ Unit(OpenBy(d, r)') = 0
            /\ Unit(r \in S \cap HeldBeside(d)) = 0
        BY <3>0 DEF Unit
      <4>2. row'[r] = row[r]
        BY <1>5, <2>5
      <4>3. overlaps'[r] = overlaps[r] + Unit(r \in S \cap HeldBeside(d))
        BY <1>6
      <4> QED BY <2>1, <2>2, <2>4, <4>1, <4>2, <4>3
    <3> QED BY <2>4, <3>1 DEF Counted, Labelled, Unsettled, Waiting
  <2>6. CASE r \in S
    <3>1. row[r].state = "pending" /\ row[r].attempts < MaxAttempts
      BY <2>6 DEF Pending
    <3>2. /\ Holders(r)' = h + 1 /\ Openers(r)' = o + 1
          /\ overlaps'[r] = overlaps[r] + (IF h = 0 THEN 0 ELSE 1)
          /\ row'[r].attempts = row[r].attempts
          /\ row'[r].state \in {"pending", "sending"}
      <4>0. r \in p.batch /\ OpenBy(d, r)' /\ (h # 0 <=> r \in S \cap HeldBeside(d))
        BY <1>3, <2>1, <2>3, <2>6
      <4>1. Unit(r \in p.batch) = 1 /\ Unit(OpenBy(d, r)') = 1
            /\ Unit(r \in S \cap HeldBeside(d)) = IF h = 0 THEN 0 ELSE 1
        BY <4>0 DEF Unit
      <4>2. row'[r].attempts = row[r].attempts /\ row'[r].state \in {"pending", "sending"}
        BY <1>5, <2>6
      <4>3. overlaps'[r] = overlaps[r] + Unit(r \in S \cap HeldBeside(d))
        BY <1>6
      <4> QED BY <2>1, <4>1, <4>2, <4>3
    <3>3. Waiting(r)' = 0
      BY <2>1, <3>2 DEF Waiting
    <3>4. /\ row[r].attempts + h <= MaxAttempts + overlaps[r]
          /\ received[r] + o + (IF h = 0 THEN 1 ELSE 0) <= 1 + faults + overlaps[r]
      BY <2>2, <2>4, <3>1 DEF Counted, Labelled, Unsettled, Waiting
    <3>5. /\ row[r].attempts + (h + 1) <= MaxAttempts + (overlaps[r] + (IF h = 0 THEN 0 ELSE 1))
          /\ received[r] + (o + 1) + 0 <= 1 + faults + (overlaps[r] + (IF h = 0 THEN 0 ELSE 1))
      <4>1. CASE h = 0
        BY <2>1, <2>4, <3>1, <3>4, <4>1
      <4>2. CASE h # 0
        BY <2>1, <2>4, <3>4, <4>2
      <4> QED BY <4>1, <4>2
    <3> QED BY <3>1, <3>2, <3>3, <3>5 DEF Counted, Labelled, Unsettled
  <2> QED BY <2>5, <2>6
<1>11. RowsInv'
  BY <1>10 DEF RowsInv
<1>12. \A r \in Rows : row[r].state # "absent" => row'[r].state # "absent"
  BY <1>5
<1>13. \A r \in Rows : received'[r] >= received[r]
  BY Numbers
<1>14. pass' = [pass EXCEPT ![d] = p] /\ p \in Pass
  BY <1>1, <1>3
<1> QED BY <1>7, <1>8, <1>9, <1>11, <1>12, <1>13, <1>14, PassFrame

LEMMA BatchPending ==
    ASSUME NEW n, NEW S \in Batches(n)
    PROVE  S \in SUBSET Pending
BY DEF Batches

LEMMA ClaimStep ==
    ASSUME OutboxInv, NEW d \in Dispatchers, Claim(d)
    PROVE  OutboxInv'
<1>1. PICK S \in Batches(BatchSize) : row' = Marked(S) /\ TakeUp(d, S)
  BY DEF Claim
<1>2. S \in SUBSET Pending
  BY BatchPending
<1>3. d \in Mailers /\ pass[d].batch = {}
  BY DEF Claim, OutboxInv, PassInv, Shape
<1>4. UNCHANGED <<received, faults>>
  BY DEF Claim
<1> QED BY <1>1, <1>2, <1>3, <1>4, TakeUpStep

LEMMA SelectStep ==
    ASSUME OutboxInv, NEW d \in Dispatchers, SelectPending(d)
    PROVE  OutboxInv'
<1>1. PICK S \in Batches(JobBatch) : TakeUp(d, S)
  BY DEF SelectPending
<1>2. S \in SUBSET Pending
  BY BatchPending
<1>3. d \in Jobs /\ pass[d].batch = {} /\ row' = row /\ UNCHANGED <<received, faults>>
  BY IdlePass DEF SelectPending
<1> QED BY <1>1, <1>2, <1>3, TakeUpStep

(* A fault that ends a pass, whatever it leaves the rows to.               *)
LEMMA GivesUp ==
    ASSUME OutboxInv, NEW d \in Dispatchers, pass' = [pass EXCEPT ![d] = Idle],
           UNCHANGED <<received, overlaps>>, faults' = faults + 1,
           exposed' \subseteq exposed,
           \A r \in HeldBeside(d) :
                /\ r \in exposed => r \in exposed'
                /\ r \notin exposed' => row'[r] = row[r],
           row' \in [Rows -> Row],
           \A r \in Rows :
                /\ row[r].state # "absent" => row'[r].state # "absent"
                /\ row'[r].attempts <= row[r].attempts + Unit(r \in Held(d))
                /\ Labelled(r)'
    PROVE  OutboxInv'
<1>1. pass'[d] = Idle /\ pass' \in [Dispatchers -> Pass]
  BY IdlePass DEF OutboxInv, TypeOK
<1>2. PassInv(d)'
  BY <1>1, IdlePass, IdleInv
<1>3. TypeOK'
  BY <1>1 DEF OutboxInv, TypeOK
<1>4. ASSUME NEW r \in Rows PROVE Counted(r)'
  <2>1. PICK h, o \in Nat : /\ Holders(r) = h + Unit(r \in Held(d))
                            /\ Holders(r)' = h + Unit(r \in Idle.batch)
                            /\ Openers(r) = o + Unit(OpenBy(d, r))
                            /\ Openers(r)' = o + Unit(OpenBy(d, r)')
    BY IdlePass, Counting
  <2>2. Unit(r \in Idle.batch) = 0 /\ Unit(OpenBy(d, r)') = 0
    BY <1>1, IdlePass DEF Unit, OpenBy, Held
  <2>3. Unit(OpenBy(d, r)) \in {0, 1} /\ Unit(r \in Held(d)) \in {0, 1}
        /\ Waiting(r) \in {0, 1} /\ Waiting(r)' \in {0, 1}
    BY DEF Unit, Waiting
  <2>4. Counted(r) /\ row[r].attempts \in Nat /\ received[r] \in Nat
        /\ overlaps[r] \in Nat /\ faults \in Nat /\ MaxAttempts \in Nat
    BY Numbers
  <2>5. row'[r].attempts \in Nat
    BY DEF Row
  <2>6. row'[r].attempts + Holders(r)' <= MaxAttempts + overlaps'[r]
    BY <2>1, <2>2, <2>3, <2>4, <2>5 DEF Counted
  <2>7. received'[r] + Openers(r)' + Waiting(r)' <= 1 + faults' + overlaps'[r]
    <3>1. received[r] + (o + Unit(OpenBy(d, r))) + Waiting(r) <= 1 + faults + overlaps[r]
      BY <2>1, <2>4 DEF Counted
    <3>2. received[r] + o + Waiting(r)' <= 1 + (faults + 1) + overlaps[r]
      BY <2>3, <2>4, <3>1
    <3> QED BY <2>1, <2>2, <3>2
  <2> QED BY <2>6, <2>7 DEF Counted
<1>5. RowsInv'
  BY <1>4 DEF RowsInv
<1>6. \A r \in HeldBeside(d) :
          /\ r \in exposed => r \in exposed'
          /\ r \notin exposed' => row'[r] = row[r] /\ r \notin Idle.batch
  BY IdlePass
<1>7. \A r \in Rows : received'[r] >= received[r]
  BY Numbers
<1>8. Idle \in Pass
  BY IdlePass
<1> QED BY <1>2, <1>3, <1>5, <1>6, <1>7, <1>8, PassFrame

LEMMA ClaimLostStep ==
    ASSUME OutboxInv, NEW d \in Dispatchers, ClaimLost(d)
    PROVE  OutboxInv'
<1>1. PICK S \in Batches(BatchSize) : row' = Marked(S)
  BY DEF ClaimLost
<1>2. /\ pass' = [pass EXCEPT ![d] = Idle] /\ faults' = faults + 1
      /\ UNCHANGED <<received, exposed, overlaps>>
  BY DEF ClaimLost, Fault
<1>3. S \in SUBSET Pending
  BY BatchPending
<1>4. /\ row' \in [Rows -> Row]
      /\ \A r \in Rows \ S : row'[r] = row[r]
      /\ \A r \in S : row'[r].state = "sending" /\ row'[r].attempts = row[r].attempts
  BY <1>1, <1>3, MarkedRows
<1>5. \A r \in HeldBeside(d) :
          /\ r \in exposed => r \in exposed'
          /\ r \notin exposed' => row'[r] = row[r]
  BY <1>2, <1>3, <1>4, NotPending
<1>6. ASSUME NEW r \in Rows
      PROVE  /\ row[r].state # "absent" => row'[r].state # "absent"
             /\ row'[r].attempts <= row[r].attempts + Unit(r \in Held(d))
             /\ Labelled(r)'
  <2>1. Labelled(r) /\ row[r].attempts \in Nat
    BY Numbers DEF Counted
  <2>2. row'[r].attempts = row[r].attempts
    BY <1>4
  <2>3. CASE r \in S
    <3>1. row[r].attempts < MaxAttempts
      BY <1>3, <2>3 DEF Pending
    <3> QED BY <1>4, <2>1, <2>2, <2>3, <3>1 DEF Labelled, Unit
  <2>4. CASE r \notin S
    BY <1>2, <1>4, <2>1, <2>4 DEF Labelled, Unsettled, Unit
  <2> QED BY <2>3, <2>4
<1> QED BY <1>2, <1>4, <1>5, <1>6, GivesUp

(* Going on with S, d drops no row another dispatcher holds.               *)
LEMMA Dropped ==
    ASSUME NEW d \in Dispatchers, NEW S \in SUBSET Rows, Continue(d, S)
    PROVE  /\ exposed' \subseteq exposed /\ UNCHANGED overlaps
           /\ \A r \in S \cup HeldBeside(d) : r \in exposed => r \in exposed'
BY DEF Continue

LEMMA CrashStep ==
    ASSUME OutboxInv, NEW d \in Dispatchers, Crash(d)
    PROVE  OutboxInv'
<1>1. /\ pass' = [pass EXCEPT ![d] = Idle] /\ faults' = faults + 1
      /\ Continue(d, {}) /\ UNCHANGED <<row, received>>
  BY DEF Crash, Fault, Continue
<1>2. /\ exposed' \subseteq exposed /\ UNCHANGED <<received, overlaps>>
      /\ \A r \in HeldBeside(d) : r \in exposed => r \in exposed'
  BY <1>1, Dropped
<1>3. row' = row /\ row' \in [Rows -> Row]
  BY <1>1 DEF OutboxInv, TypeOK
<1>4. ASSUME NEW r \in Rows
      PROVE  row'[r].attempts <= row[r].attempts + Unit(r \in Held(d)) /\ Labelled(r)'
  <2>1. Labelled(r) /\ row[r].attempts \in Nat
    BY Numbers DEF Counted
  <2> QED BY <1>1, <2>1 DEF Labelled, Unsettled, Unit
<1>5. /\ \A r \in HeldBeside(d) :
             /\ r \in exposed => r \in exposed'
             /\ r \notin exposed' => row'[r] = row[r]
      /\ \A r \in Rows :
             /\ row[r].state # "absent" => row'[r].state # "absent"
             /\ row'[r].attempts <= row[r].attempts + Unit(r \in Held(d))
             /\ Labelled(r)'
  BY <1>2, <1>3, <1>4
<1> QED BY <1>1, <1>2, <1>3, <1>5, GivesUp

(* What a report does to its row.                                          *)
LEMMA MarkedResult ==
    ASSUME OutboxInv, NEW d \in Dispatchers, pass[d].pc = "report",
           MarkResult(pass[d].current, pass[d].ok), NEW r, r = pass[d].current
    PROVE  /\ row' \in [Rows -> Row]
           /\ \A q \in Rows \ {r} : row'[q] = row[q]
           /\ row'[r].attempts = row[r].attempts + 1
           /\ row'[r].state = IF pass[d].ok THEN "sent"
                              ELSE IF row[r].attempts + 1 >= MaxAttempts
                              THEN "failed" ELSE "pending"
<1>1. r \in Rows /\ row[r] \in Row /\ row \in [Rows -> Row] /\ row[r].attempts \in Nat
  BY Current, Numbers DEF OutboxInv, TypeOK
<1> DEFINE x == [state |-> IF pass[d].ok THEN "sent"
                           ELSE IF row[r].attempts + 1 >= MaxAttempts
                           THEN "failed" ELSE "pending",
                 attempts |-> row[r].attempts + 1, age |-> 0]
<1>2. row' = [row EXCEPT ![r] = x]
  BY <1>1 DEF MarkResult
<1>3. x \in Row
  BY <1>1 DEF Row
<1>4. /\ x.attempts = row[r].attempts + 1
      /\ x.state = IF pass[d].ok THEN "sent"
                   ELSE IF row[r].attempts + 1 >= MaxAttempts THEN "failed" ELSE "pending"
  OBVIOUS
<1> HIDE DEF x
<1>5. row'[r] = x /\ row' \in [Rows -> Row] /\ \A q \in Rows \ {r} : row'[q] = row[q]
  BY <1>1, <1>2, <1>3
<1> QED BY <1>4, <1>5

(* A reported row is labelled by what is known of it.                      *)
LEMMA ResultLabelled ==
    ASSUME OutboxInv, NEW d \in Dispatchers, pass[d].pc = "report",
           MarkResult(pass[d].current, pass[d].ok), UNCHANGED received
    PROVE  \A r \in Rows : /\ row[r].state # "absent" => row'[r].state # "absent"
                           /\ row'[r].attempts = row[r].attempts + Unit(r = pass[d].current)
                           /\ Labelled(r)'
<1> SUFFICES ASSUME NEW r \in Rows
             PROVE  /\ row[r].state # "absent" => row'[r].state # "absent"
                    /\ row'[r].attempts = row[r].attempts + Unit(r = pass[d].current)
                    /\ Labelled(r)'
  OBVIOUS
<1>1. Labelled(r) /\ row[r].attempts \in Nat /\ MaxAttempts \in Nat
  BY Numbers DEF Counted
<1>2. CASE r = pass[d].current
  <2>1. /\ row'[r].attempts = row[r].attempts + 1
        /\ row'[r].state = IF pass[d].ok THEN "sent"
                           ELSE IF row[r].attempts + 1 >= MaxAttempts
                           THEN "failed" ELSE "pending"
    BY <1>2, MarkedResult
  <2>2. pass[d].ok => received'[r] > 0
    BY <1>2 DEF OutboxInv, PassInv, Reported, Delivered
  <2> QED BY <1>1, <1>2, <2>1, <2>2 DEF Labelled, Unsettled, Unit
<1>3. CASE r # pass[d].current
  <2>1. row'[r] = row[r]
    BY <1>3, MarkedResult
  <2> QED BY <1>1, <1>3, <2>1 DEF Labelled, Unsettled, Unit
<1> QED BY <1>2, <1>3

(* Only an exposed row can be in another hand when d reports on it.        *)
LEMMA ReportDisturbs ==
    ASSUME OutboxInv, NEW d \in Dispatchers, pass[d].pc = "report",
           MarkResult(pass[d].current, pass[d].ok),
           NEW r \in HeldBeside(d), r \notin exposed
    PROVE  row'[r] = row[r]
<1>1. PICK e \in Dispatchers \ {d} : r \in Held(e)
  BY DEF HeldBeside
<1>2. r \in Rows /\ pass[d].current \in Held(d)
  BY <1>1, Holding, Current
<1>3. r # pass[d].current
  BY <1>1, <1>2 DEF OutboxInv, OneHolder
<1> QED BY <1>2, <1>3, MarkedResult

LEMMA ReportThrowsStep ==
    ASSUME OutboxInv, NEW d \in Dispatchers, ReportThrows(d)
    PROVE  OutboxInv'
<1>1. /\ pass' = [pass EXCEPT ![d] = Idle] /\ faults' = faults + 1
      /\ pass[d].pc = "report" /\ Continue(d, {}) /\ UNCHANGED received
      /\ MarkResult(pass[d].current, pass[d].ok) \/ UNCHANGED row
  BY DEF ReportThrows, Fault, Continue
<1>2. /\ exposed' \subseteq exposed /\ UNCHANGED <<received, overlaps>>
      /\ \A r \in HeldBeside(d) : r \in exposed => r \in exposed'
  BY <1>1, Dropped
<1>3. /\ row' \in [Rows -> Row]
      /\ \A r \in HeldBeside(d) : r \notin exposed => row'[r] = row[r]
      /\ \A r \in Rows :
             /\ row[r].state # "absent" => row'[r].state # "absent"
             /\ row'[r].attempts <= row[r].attempts + Unit(r \in Held(d))
             /\ Labelled(r)'
  <2>1. CASE MarkResult(pass[d].current, pass[d].ok)
    <3>1. ASSUME NEW r \in Rows
          PROVE  /\ row[r].state # "absent" => row'[r].state # "absent"
                 /\ row'[r].attempts <= row[r].attempts + Unit(r \in Held(d))
                 /\ Labelled(r)'
      <4>1. /\ row[r].state # "absent" => row'[r].state # "absent"
            /\ row'[r].attempts = row[r].attempts + Unit(r = pass[d].current)
            /\ Labelled(r)'
        BY <1>1, <2>1, ResultLabelled
      <4>2. row[r].attempts \in Nat /\ pass[d].current \in Held(d)
        BY <1>1, Numbers, Current
      <4> QED BY <4>1, <4>2 DEF Unit
    <3>2. row' \in [Rows -> Row]
      BY <1>1, <2>1, MarkedResult
    <3>3. \A r \in HeldBeside(d) : r \notin exposed => row'[r] = row[r]
      BY <1>1, <2>1, ReportDisturbs
    <3> QED BY <3>1, <3>2, <3>3
  <2>2. CASE UNCHANGED row
    <3>1. ASSUME NEW r \in Rows
          PROVE  row'[r].attempts <= row[r].attempts + Unit(r \in Held(d)) /\ Labelled(r)'
      <4>1. Labelled(r) /\ row[r].attempts \in Nat
        BY Numbers DEF Counted
      <4> QED BY <1>1, <2>2, <4>1 DEF Labelled, Unsettled, Unit
    <3> QED BY <2>2, <3>1 DEF OutboxInv, TypeOK
  <2> QED BY <1>1, <2>1, <2>2
<1>4. \A r \in HeldBeside(d) :
          /\ r \in exposed => r \in exposed'
          /\ r \notin exposed' => row'[r] = row[r]
  BY <1>2, <1>3
<1> QED BY <1>1, <1>2, <1>3, <1>4, GivesUp

LEMMA ReportStep ==
    ASSUME OutboxInv, NEW d \in Dispatchers, Report(d)
    PROVE  OutboxInv'
<1> DEFINE c == pass[d].current
           S == Held(d) \ {c}
<1>1. /\ pass[d].pc = "report" /\ MarkResult(c, pass[d].ok) /\ Continue(d, S)
      /\ UNCHANGED <<received, faults>>
  BY DEF Report
<1>2. PICK p : pass' = [pass EXCEPT ![d] = p] /\ GoesOn(p, S)
  BY <1>1 DEF Continue, GoesOn
<1>3. c \in Held(d) /\ c \in Rows /\ S \in SUBSET Rows
  BY <1>1, Current, Holding
<1>4. /\ p \in Pass /\ p.batch = S /\ p.busy = 0
      /\ \/ p.pc = "idle" /\ S = {}
         \/ p.pc = "send" /\ p.current \in S
  BY <1>2, <1>3, OnwardPass
<1>5. pass'[d] = p
  BY <1>2 DEF OutboxInv, TypeOK
<1>6. /\ exposed' \subseteq exposed /\ UNCHANGED overlaps
      /\ \A r \in S \cup HeldBeside(d) : r \in exposed => r \in exposed'
  BY <1>1, <1>3, Dropped
<1>7. /\ row' \in [Rows -> Row]
      /\ \A r \in Rows \ {c} : row'[r] = row[r]
      /\ row'[c].attempts = row[c].attempts + 1
      /\ pass[d].ok => row'[c].state = "sent"
  BY <1>1, MarkedResult
<1>8. \A r \in Rows : /\ row[r].state # "absent" => row'[r].state # "absent"
                      /\ Labelled(r)'
  BY <1>1, ResultLabelled
<1>9. TypeOK'
  BY <1>1, <1>2, <1>4, <1>6, <1>7 DEF OutboxInv, TypeOK
<1>10. PassInv(d)'
  <2>1. Held(d)' = S /\ ~Delivered(d)'
    BY <1>4, <1>5 DEF Held, Delivered
  <2>2. Shape(d)'
    BY <1>4, <1>5 DEF Shape
  <2>3. Cardinality(Held(d)) = Cardinality(S) + 1 /\ Cardinality(S) \in Nat
    <3>1. IsFiniteSet(Held(d)) /\ IsFiniteSet(S)
      BY <1>3, Holding, FS_Subset
    <3>2. Cardinality(S) = Cardinality(Held(d)) - 1
      BY <1>3, <3>1, FS_RemoveElement
    <3>3. Cardinality(S) \in Nat /\ Cardinality(Held(d)) \in Nat
      BY <3>1, FS_CardinalityType
    <3> QED BY <3>2, <3>3
  <2>4. ASSUME NEW r \in S
        PROVE  /\ row'[r].state # "absent"
               /\ r \notin exposed' => /\ d \in Mailers
                                       /\ row'[r].state = "sending"
                                       /\ row'[r].age + Cardinality(S) <= StaleWindow + 0
    <3>1. r \in Held(d) /\ r \in Rows /\ row'[r] = row[r] /\ row[r].age \in Nat
      BY <1>3, <1>7, Numbers
    <3>2. r \notin exposed' => r \notin exposed
      BY <1>6
    <3>3. /\ row[r].state # "absent"
          /\ r \notin exposed => /\ d \in Mailers /\ row[r].state = "sending"
                                 /\ row[r].age + Cardinality(Held(d)) <= StaleWindow + pass[d].busy
      BY <3>1 DEF OutboxInv, PassInv, Protected
    <3>4. pass[d].busy \in {0, 1}
      BY Holding DEF Pass
    <3>5. r \notin exposed => row[r].age + Cardinality(S) <= StaleWindow + 0
      BY <2>3, <3>1, <3>3, <3>4, OutboxAssumption
    <3> QED BY <3>1, <3>2, <3>3, <3>5
  <2>5. Protected(d)'
    BY <1>4, <1>5, <2>1, <2>4 DEF Protected
  <2> QED BY <2>1, <2>2, <2>5 DEF PassInv, Reported
<1>11. \A r \in HeldBeside(d) :
          /\ r \in exposed => r \in exposed'
          /\ r \notin exposed' => row'[r] = row[r] /\ r \notin p.batch
  <2> SUFFICES ASSUME NEW r \in HeldBeside(d)
               PROVE  /\ r \in exposed => r \in exposed'
                      /\ r \notin exposed' => row'[r] = row[r] /\ r \notin p.batch
    OBVIOUS
  <2>1. PICK e \in Dispatchers \ {d} : r \in Held(e)
    BY DEF HeldBeside
  <2>2. r \notin exposed => r \notin Held(d)
    BY <2>1 DEF OutboxInv, OneHolder
  <2> QED BY <1>1, <1>4, <1>6, <2>2, ReportDisturbs
<1>12. pass' = [pass EXCEPT ![d] = p] /\ p \in Pass
  BY <1>2, <1>4
<1>13. ASSUME NEW r \in Rows PROVE Counted(r)'
  <2>1. PICK h, o \in Nat : /\ Holders(r) = h + Unit(r \in Held(d))
                            /\ Holders(r)' = h + Unit(r \in p.batch)
                            /\ Openers(r) = o + Unit(OpenBy(d, r))
                            /\ Openers(r)' = o + Unit(OpenBy(d, r)')
    BY <1>12, Counting
  <2>2. Counted(r) /\ row[r].attempts \in Nat /\ received[r] \in Nat
        /\ overlaps[r] \in Nat /\ faults \in Nat /\ MaxAttempts \in Nat
    BY Numbers
  <2>3. OpenBy(d, r)' <=> r \in S
    BY <1>4, <1>5 DEF OpenBy, Held, Delivered
  <2>4. CASE r # c
    <3>1. /\ row'[r] = row[r] /\ (r \in S <=> r \in Held(d))
          /\ (OpenBy(d, r) <=> r \in Held(d))
      BY <1>7, <2>4 DEF OpenBy
    <3>2. Holders(r)' = Holders(r) /\ Openers(r)' = Openers(r)
      BY <1>4, <2>1, <2>3, <3>1 DEF Unit
    <3> QED BY <1>1, <1>6, <1>8, <2>2, <3>1, <3>2 DEF Counted, Labelled, Unsettled, Waiting
  <2>5. CASE r = c
    <3>1. /\ Holders(r) = h + 1 /\ Holders(r)' = h /\ Openers(r)' = o
          /\ row'[r].attempts = row[r].attempts + 1
      BY <1>3, <1>4, <1>7, <2>1, <2>3, <2>5 DEF Unit
    <3>2. row'[r].attempts + Holders(r)' <= MaxAttempts + overlaps'[r]
      BY <1>6, <2>2, <3>1 DEF Counted
    <3>3. received[r] + Openers(r) + Waiting(r) <= 1 + faults + overlaps[r]
          /\ Waiting(r) \in {0, 1} /\ Waiting(r)' \in {0, 1}
      BY <2>2 DEF Counted, Waiting
    <3>4. received[r] + o + Waiting(r)' <= 1 + faults + overlaps[r]
      <4>1. CASE pass[d].ok
        <5>1. Waiting(r)' = 0
          BY <1>7, <2>5, <4>1 DEF Waiting, Unsettled
        <5>2. Unit(OpenBy(d, r)) \in Nat
          BY DEF Unit
        <5> QED BY <2>1, <2>2, <3>3, <5>1, <5>2
      <4>2. CASE ~pass[d].ok
        <5>1. OpenBy(d, r)
          BY <1>3, <2>5, <4>2 DEF OpenBy, Delivered
        <5>2. Openers(r) = o + 1
          BY <2>1, <5>1 DEF Unit
        <5> QED BY <2>2, <3>3, <5>2
      <4> QED BY <4>1, <4>2
    <3> QED BY <1>1, <1>6, <1>8, <3>1, <3>2, <3>4 DEF Counted
  <2> QED BY <2>4, <2>5
<1>14. RowsInv'
  BY <1>13 DEF RowsInv
<1>15. \A r \in Rows : received'[r] >= received[r]
  BY <1>1, Numbers
<1>16. \A r \in Rows : row[r].state # "absent" => row'[r].state # "absent"
  BY <1>8
<1> HIDE DEF c, S
<1> QED BY <1>9, <1>10, <1>11, <1>14, <1>15, <1>12, <1>16, PassFrame

(* A send, whatever comes of it: n copies are delivered, ok is reported.   *)
LEMMA SendStep ==
    ASSUME OutboxInv, NEW d \in Dispatchers, pass[d].pc = "send",
           NEW n \in {0, 1}, NEW ok \in BOOLEAN, ok => n = 1,
           received' = [received EXCEPT ![pass[d].current] = @ + n],
           Answered(d, ok), UNCHANGED <<row, exposed, overlaps>>,
           faults' = faults + (IF n = 1 /\ ~ok THEN 1 ELSE 0)
    PROVE  OutboxInv'
<1> DEFINE c == pass[d].current
           p == [pass[d] EXCEPT !.pc = "report", !.ok = ok]
<1>1. pass[d] \in Pass /\ c \in Rows /\ c \in Held(d)
  BY Holding, Current
<1>2. /\ p \in Pass /\ p.pc = "report" /\ p.ok = ok /\ p.batch = pass[d].batch
      /\ p.current = c /\ p.busy = pass[d].busy
  BY <1>1 DEF Pass
<1>3. pass' = [pass EXCEPT ![d] = p]
  BY DEF Answered
<1> HIDE DEF p
<1>4. pass'[d] = p
  BY <1>3 DEF OutboxInv, TypeOK
<1>5. \A r \in Rows : received[r] \in Nat /\ received'[r] = received[r] + n * Unit(r = c)
  BY <1>1, Numbers DEF OutboxInv, TypeOK, Unit
<1>6. received' \in [Rows -> Nat] /\ faults' \in Nat
  BY <1>1, <1>5 DEF OutboxInv, TypeOK, Unit
<1>7. TypeOK'
  BY <1>2, <1>3, <1>6 DEF OutboxInv, TypeOK
<1>8. PassInv(d)'
  <2>1. Held(d)' = Held(d)
    BY <1>2, <1>4 DEF Held
  <2>2. Shape(d)'
    BY <1>1, <1>2, <1>4 DEF Shape, Held
  <2>3. Protected(d)'
    BY <1>2, <1>4, <2>1 DEF OutboxInv, PassInv, Protected
  <2>4. Reported(d)'
    BY <1>1, <1>2, <1>4, <1>5 DEF Reported, Delivered, Unit
  <2> QED BY <2>2, <2>3, <2>4 DEF PassInv
<1>9. \A r \in HeldBeside(d) :
          /\ r \in exposed => r \in exposed'
          /\ r \notin exposed' => row'[r] = row[r] /\ r \notin p.batch
  <2> SUFFICES ASSUME NEW r \in HeldBeside(d), r \notin exposed
               PROVE  r \notin p.batch
    OBVIOUS
  <2>1. PICK e \in Dispatchers \ {d} : r \in Held(e)
    BY DEF HeldBeside
  <2>2. r \notin Held(d)
    BY <2>1 DEF OutboxInv, OneHolder
  <2> QED BY <1>2, <2>2 DEF Held
<1>10. ASSUME NEW r \in Rows PROVE Counted(r)'
  <2>1. PICK h, o \in Nat : /\ Holders(r) = h + Unit(r \in Held(d))
                            /\ Holders(r)' = h + Unit(r \in p.batch)
                            /\ Openers(r) = o + Unit(OpenBy(d, r))
                            /\ Openers(r)' = o + Unit(OpenBy(d, r)')
    BY <1>2, <1>3, Counting
  <2>2. Counted(r) /\ row[r].attempts \in Nat /\ received[r] \in Nat
        /\ overlaps[r] \in Nat /\ faults \in Nat /\ MaxAttempts \in Nat
    BY Numbers
  <2>3. Holders(r)' = Holders(r) /\ Waiting(r)' = Waiting(r)
    BY <1>2, <2>1 DEF Held, Waiting, Unsettled
  <2>4. OpenBy(d, r) <=> r \in Held(d)
    BY DEF OpenBy, Delivered
  <2>5. OpenBy(d, r)' <=> r \in Held(d) /\ ~(ok /\ r = c)
    BY <1>2, <1>4 DEF OpenBy, Delivered, Held
  <2>6. Waiting(r) \in {0, 1}
    BY DEF Waiting
  <2>7. received'[r] + Openers(r)' + Waiting(r)' <= 1 + faults' + overlaps'[r]
    <3>1. received[r] + Openers(r) + Waiting(r) <= 1 + faults + overlaps[r]
      BY <2>2 DEF Counted
    <3>2. CASE r = c /\ n = 1 /\ ok
      <4>1. Openers(r) = o + 1 /\ Openers(r)' = o
        BY <1>1, <2>1, <2>4, <2>5, <3>2 DEF Unit
      <4>2. received'[r] = received[r] + 1 /\ faults' = faults
        BY <1>5, <2>2, <3>2 DEF Unit
      <4> QED BY <2>2, <2>3, <2>6, <3>1, <4>1, <4>2
    <3>3. CASE ~(r = c /\ ok)
      <4>1. Openers(r)' = Openers(r)
        BY <2>1, <2>4, <2>5, <3>3 DEF Unit
      <4>2. received'[r] + faults <= received[r] + faults'
        BY <1>5, <2>2, <3>3 DEF Unit
      <4>3. received'[r] \in Nat /\ faults' \in Nat /\ Openers(r) \in Nat
        BY <1>6, <2>1 DEF Unit
      <4> QED BY <2>2, <2>3, <2>6, <3>1, <4>1, <4>2, <4>3
    <3> QED BY <3>2, <3>3
  <2>8. Labelled(r)'
    BY <1>5, <2>2 DEF Counted, Labelled, Unsettled, Unit
  <2> QED BY <2>2, <2>3, <2>7, <2>8 DEF Counted
<1>11. RowsInv'
  BY <1>10 DEF RowsInv
<1>12. \A r \in Rows : received'[r] >= received[r]
  BY <1>5 DEF Unit
<1>13. \A r \in Rows : row[r].state # "absent" => row'[r].state # "absent"
  OBVIOUS
<1> HIDE DEF c
<1> QED BY <1>2, <1>3, <1>7, <1>8, <1>9, <1>11, <1>12, <1>13, PassFrame

LEMMA SentStep ==
    ASSUME OutboxInv, NEW d \in Dispatchers,
           SendUnsure(d) \/ \E ok \in BOOLEAN : Send(d, ok)
    PROVE  OutboxInv'
<1>1. /\ pass[d].pc = "send" /\ pass[d].current \in Rows
      /\ received \in [Rows -> Nat] /\ faults \in Nat
  BY Current DEF SendUnsure, Send, OutboxInv, TypeOK
<1>2. CASE SendUnsure(d)
  <2>1. /\ received' = [received EXCEPT ![pass[d].current] = @ + 1]
        /\ Answered(d, FALSE) /\ faults' = faults + 1
        /\ UNCHANGED <<row, exposed, overlaps>>
    BY <1>2 DEF SendUnsure, Fault
  <2> QED BY <1>1, <2>1, SendStep
<1>3. CASE Send(d, TRUE)
  <2>1. /\ received' = [received EXCEPT ![pass[d].current] = @ + 1]
        /\ Answered(d, TRUE) /\ UNCHANGED <<row, exposed, overlaps, faults>>
    BY <1>3 DEF Send
  <2>2. faults' = faults + 0
    BY <1>1, <2>1
  <2> QED BY <1>1, <2>1, <2>2, SendStep
<1>4. CASE Send(d, FALSE)
  <2>1. /\ received' = received
        /\ Answered(d, FALSE) /\ UNCHANGED <<row, exposed, overlaps, faults>>
    BY <1>4 DEF Send
  <2>2. faults' = faults + 0
    BY <1>1, <2>1
  <2>3. received[pass[d].current] + 0 = received[pass[d].current]
    BY <1>1
  <2>4. received' = [received EXCEPT ![pass[d].current] = @ + 0]
    BY <1>1, <2>1, <2>3
  <2> QED BY <1>1, <2>1, <2>2, <2>4, SendStep
<1> QED BY <1>2, <1>3, <1>4

LEMMA TickStep ==
    ASSUME OutboxInv, Tick
    PROVE  OutboxInv'
<1>1. UNCHANGED <<received, exposed, overlaps, faults>>
  BY DEF Tick
<1>2. ASSUME NEW r \in Rows
      PROVE  /\ row'[r] \in Row
             /\ row'[r].state = row[r].state /\ row'[r].attempts = row[r].attempts
             /\ row'[r].age <= row[r].age + 1
  <2>1. row[r] \in Row
    BY Numbers
  <2>2. CASE row[r].state = "sending" /\ row[r].age <= StaleWindow
    <3> DEFINE x == row[r]
               y == [x EXCEPT !.age = @ + 1]
    <3>1. row'[r] = y
      BY <2>2 DEF Tick
    <3>2. y \in Row /\ y.state = x.state /\ y.attempts = x.attempts /\ y.age = x.age + 1
      BY <2>1, RowAge
    <3>3. x.age \in Nat
      BY <2>1 DEF Row
    <3> HIDE DEF x, y
    <3>4. /\ row'[r] \in Row
          /\ row'[r].state = x.state /\ row'[r].attempts = x.attempts
          /\ row'[r].age <= x.age + 1
      BY <3>1, <3>2, <3>3
    <3> QED BY <3>4 DEF x
  <2>3. CASE ~(row[r].state = "sending" /\ row[r].age <= StaleWindow)
    <3>1. row'[r] = row[r] /\ row[r].age \in Nat
      BY <2>1, <2>3 DEF Tick, Row
    <3> QED BY <2>1, <3>1
  <2> QED BY <2>2, <2>3
<1>3. row' \in [Rows -> Row]
  BY <1>2 DEF Tick
<1>4. ASSUME NEW d \in Dispatchers
      PROVE  /\ pass'[d] \in Pass
             /\ pass'[d].pc = pass[d].pc /\ pass'[d].batch = pass[d].batch
             /\ pass'[d].current = pass[d].current /\ pass'[d].ok = pass[d].ok
             /\ d \in Mailers => pass[d].busy = 0
             /\ pass'[d].busy = IF d \in Mailers /\ pass[d].pc \in {"send", "report"}
                                THEN 1 ELSE pass[d].busy
  <2> DEFINE p == pass[d]
             q == [p EXCEPT !.busy = 1]
  <2>1. p \in Pass /\ (d \in Mailers => p.busy = 0)
    BY Holding DEF Tick
  <2>2. q \in Pass /\ q.pc = p.pc /\ q.batch = p.batch /\ q.current = p.current
        /\ q.ok = p.ok /\ q.busy = 1
    <3> HIDE DEF p
    <3> QED BY <2>1 DEF Pass
  <2>3. pass'[d] = IF d \in Mailers /\ p.pc \in {"send", "report"} THEN q ELSE p
    BY DEF Tick
  <2> HIDE DEF q
  <2> QED BY <2>1, <2>2, <2>3
<1>5. pass' \in [Dispatchers -> Pass]
  BY <1>4 DEF Tick
<1>6. TypeOK'
  BY <1>1, <1>3, <1>5 DEF OutboxInv, TypeOK
<1>7. /\ \A d \in Dispatchers : Held(d)' = Held(d)
      /\ \A r : Holders(r)' = Holders(r) /\ Openers(r)' = Openers(r)
  BY <1>4, SameHands
<1>8. OneHolder'
  BY <1>1, <1>7 DEF OutboxInv, OneHolder
<1>9. ASSUME NEW d \in Dispatchers PROVE PassInv(d)'
  <2>1. Shape(d)' /\ Reported(d)'
    BY <1>1, <1>4 DEF OutboxInv, PassInv, Shape, Reported, Delivered
  <2>2. ASSUME NEW r \in Held(d)
        PROVE  /\ row'[r].state # "absent"
               /\ r \notin exposed => /\ d \in Mailers
                                      /\ row'[r].state = "sending"
                                      /\ row'[r].age + Cardinality(Held(d))
                                              <= StaleWindow + pass'[d].busy
    <3>1. r \in Rows /\ Cardinality(Held(d)) \in Nat
      BY Holding
    <3>2. row'[r].age \in Nat /\ row[r].age \in Nat /\ row'[r].age <= row[r].age + 1
      BY <1>2, <3>1, Numbers DEF Row
    <3>3. pass[d].pc \in {"send", "report"}
      BY Holding DEF OutboxInv, PassInv, Shape, Held, Pass
    <3>4. d \in Mailers => pass[d].busy = 0 /\ pass'[d].busy = 1
      BY <1>4, <3>3
    <3>5. /\ row[r].state # "absent"
          /\ r \notin exposed => /\ d \in Mailers
                                 /\ row[r].state = "sending"
                                 /\ row[r].age + Cardinality(Held(d)) <= StaleWindow + pass[d].busy
      BY DEF OutboxInv, PassInv, Protected
    <3>6. r \notin exposed => row'[r].age + Cardinality(Held(d)) <= StaleWindow + pass'[d].busy
      BY <3>1, <3>2, <3>4, <3>5, OutboxAssumption
    <3> QED BY <1>2, <3>1, <3>5, <3>6
  <2>3. Protected(d)'
    BY <1>1, <1>7, <2>2 DEF Protected
  <2> QED BY <2>1, <2>3 DEF PassInv
<1>10. ASSUME NEW r \in Rows PROVE Counted(r)'
  <2>1. Counted(r)
    BY Numbers
  <2> QED BY <1>1, <1>2, <1>7, <2>1 DEF Counted, Labelled, Unsettled, Waiting
<1> QED BY <1>6, <1>8, <1>9, <1>10 DEF OutboxInv, RowsInv

LEMMA OutboxNext ==
    ASSUME OutboxInv, [Next]_vars
    PROVE  OutboxInv'
<1>1. CASE \E r \in Rows : Enqueue(r)
  BY <1>1, EnqueueStep
<1>2. ASSUME NEW d \in Dispatchers, PassStep(d) PROVE OutboxInv'
  BY <1>2, ReleaseStep, ClaimStep, SelectStep, SentStep, ReportStep DEF PassStep
<1>3. ASSUME NEW d \in Dispatchers, PassFault(d) PROVE OutboxInv'
  BY <1>3, ClaimLostStep, SentStep, ReportThrowsStep, CrashStep DEF PassFault
<1>4. CASE Tick
  BY <1>4, TickStep
<1>5. CASE UNCHANGED vars
  <2>1. row' = row /\ received' = received /\ pass' = pass /\ exposed' = exposed
        /\ overlaps' = overlaps /\ faults' = faults
    BY <1>5 DEF vars
  <2>2. /\ \A d \in Dispatchers : Held(d)' = Held(d)
        /\ \A r : Holders(r)' = Holders(r) /\ Openers(r)' = Openers(r)
    BY <2>1, SameHands
  <2>3. TypeOK' /\ OneHolder'
    BY <2>1, <2>2 DEF OutboxInv, TypeOK, OneHolder
  <2>4. \A d \in Dispatchers : PassInv(d)'
    BY <2>1, <2>2 DEF OutboxInv, PassInv, Shape, Protected, Reported, Delivered
  <2>5. \A r \in Rows : Counted(r)'
    BY <2>1, <2>2 DEF OutboxInv, RowsInv, Counted, Labelled, Unsettled, Waiting
  <2> QED BY <2>3, <2>4, <2>5 DEF OutboxInv, RowsInv
<1> QED BY <1>1, <1>2, <1>3, <1>4, <1>5 DEF Next

LEMMA OutboxInvariance == Spec => []OutboxInv
<1>1. Init => OutboxInv
  BY InitOutbox
<1>2. OutboxInv /\ [Next]_vars => OutboxInv'
  BY OutboxNext
<1> QED BY <1>1, <1>2, PTL DEF Spec

----------------------------------------------------------------------------
(* Every row and every pass is of its declared type.                       *)
THEOREM OutboxTyped == Spec => []TypeOK
<1>1. OutboxInv => TypeOK
  BY DEF OutboxInv
<1> QED BY <1>1, OutboxInvariance, PTL

(* usp_Notification_Claim gives a row to one caller for as long as that     *)
(* caller may still send it, unless a job takes rows beside it or the batch *)
(* is larger than the stale window allows.                                 *)
THEOREM ClaimExclusive == Spec => []OneHolder
<1>1. OutboxInv => OneHolder
  BY DEF OutboxInv
<1> QED BY <1>1, OutboxInvariance, PTL

LEMMA CountsTell ==
    ASSUME OutboxInv
    PROVE  OutboxTruthful /\ DuplicatesBounded
<1> SUFFICES ASSUME NEW r \in Rows
             PROVE  /\ row[r].state = "sent" => received[r] > 0
                    /\ row[r].state = "failed" => row[r].attempts >= MaxAttempts
                    /\ row[r].attempts <= MaxAttempts + overlaps[r]
                    /\ received[r] <= 1 + faults + overlaps[r]
  BY DEF OutboxTruthful, DuplicatesBounded
<1>1. /\ row[r].attempts \in Nat /\ received[r] \in Nat /\ overlaps[r] \in Nat
      /\ faults \in Nat /\ MaxAttempts \in Nat /\ Counted(r)
  BY Numbers
<1>2. Holders(r) \in Nat /\ Openers(r) \in Nat /\ Waiting(r) \in Nat
  <2>1. \A A \in SUBSET Dispatchers : Cardinality(A) \in Nat
    BY OutboxAssumption, FS_Subset, FS_CardinalityType DEF Dispatchers
  <2>2. {d \in Dispatchers : r \in Held(d)} \in SUBSET Dispatchers
        /\ {d \in Dispatchers : OpenBy(d, r)} \in SUBSET Dispatchers
    OBVIOUS
  <2> QED BY <2>1, <2>2 DEF Holders, Openers, Waiting
<1> QED BY <1>1, <1>2 DEF Counted, Labelled

(* DeliveryState and AttemptCount say what happened, whoever dispatches.   *)
THEOREM OutboxTells == Spec => []OutboxTruthful
<1>1. OutboxInv => OutboxTruthful
  BY CountsTell
<1> QED BY <1>1, OutboxInvariance, PTL

(* A recipient gets one copy, and at most one more for each fault and each  *)
(* time the notification was taken up while another dispatcher had it.     *)
THEOREM FewDuplicates == Spec => []DuplicatesBounded
<1>1. OutboxInv => DuplicatesBounded
  BY CountsTell
<1> QED BY <1>1, OutboxInvariance, PTL

----------------------------------------------------------------------------
(* A site that runs mailers only, and batches that fit into the window.    *)

NothingShared == exposed = {} /\ \A r \in Rows : overlaps[r] = 0

LEMMA NothingSharedStep ==
    ASSUME Jobs = {}, BatchSize <= StaleWindow, OutboxInv, NothingShared, [Next]_vars
    PROVE  NothingShared'
<1>1. ASSUME NEW d \in Dispatchers, NEW S \in Batches(BatchSize), TakeUp(d, S)
      PROVE  NothingShared'
  <2>1. S \in SUBSET Pending /\ S \subseteq Rows
    BY BatchPending DEF Pending
  <2>2. Cardinality(S) \in Nat /\ Cardinality(S) <= BatchSize
    <3>1. Cardinality(S) \in Nat
      BY <2>1, OutboxAssumption, FS_Subset, FS_CardinalityType
    <3> QED BY <3>1, OutboxAssumption DEF Batches
  <2>3. ~(Cardinality(S) > StaleWindow)
    BY <2>2, OutboxAssumption
  <2>4. exposed' = {}
    <3>1. exposed' = exposed \cup {r \in S : d \in Jobs \/ Cardinality(S) > StaleWindow}
      BY <1>1 DEF TakeUp
    <3>2. {r \in S : d \in Jobs \/ Cardinality(S) > StaleWindow} = {}
      BY <2>3
    <3> QED BY <3>1, <3>2 DEF NothingShared
  <2>5. S \cap HeldBeside(d) = {}
    BY <2>1, NotPending DEF NothingShared
  <2>6. \A r \in Rows : overlaps'[r] = overlaps[r]
    <3>1. overlaps' = [r \in Rows |-> IF r \in S \cap HeldBeside(d)
                                      THEN overlaps[r] + 1 ELSE overlaps[r]]
      BY <1>1 DEF TakeUp
    <3> QED BY <2>5, <3>1
  <2> QED BY <2>4, <2>6 DEF NothingShared
<1>2. ASSUME exposed' \subseteq exposed, UNCHANGED overlaps PROVE NothingShared'
  BY <1>2 DEF NothingShared
<1>3. ASSUME NEW d \in Dispatchers, NEW S, Continue(d, S) PROVE NothingShared'
  BY <1>2, <1>3 DEF Continue
<1>4. ASSUME NEW d \in Dispatchers, PassStep(d) PROVE NothingShared'
  BY <1>1, <1>2, <1>3, <1>4 DEF PassStep, ReleaseStale, Claim, SelectPending, Send, Report
<1>5. ASSUME NEW d \in Dispatchers, PassFault(d) PROVE NothingShared'
  BY <1>2, <1>3, <1>5 DEF PassFault, ClaimLost, SendUnsure, ReportThrows, Crash
<1>6. CASE (\E r \in Rows : Enqueue(r)) \/ Tick \/ UNCHANGED vars
  BY <1>2, <1>6 DEF Enqueue, Tick, vars
<1> QED BY <1>4, <1>5, <1>6 DEF Next

(* With application processes alone, however many, and a batch that can be  *)
(* sent within the stale window, a claim is exclusive without exception, no *)
(* row is attempted more than MaxAttempts times, and only a fault can cost  *)
(* a recipient a second copy.                                              *)
THEOREM MailersAlone ==
    ASSUME Jobs = {}, BatchSize <= StaleWindow
    PROVE  Spec => [](/\ \A d, e \in Dispatchers : d # e => Held(d) \cap Held(e) = {}
                      /\ \A r \in Rows : /\ row[r].attempts <= MaxAttempts
                                         /\ received[r] <= 1 + faults)
<1>1. Init => NothingShared
  BY DEF Init, NothingShared
<1>2. OutboxInv /\ NothingShared /\ [Next]_vars => NothingShared'
  BY NothingSharedStep
<1>3. OutboxInv /\ NothingShared =>
          /\ \A d, e \in Dispatchers : d # e => Held(d) \cap Held(e) = {}
          /\ \A r \in Rows : /\ row[r].attempts <= MaxAttempts
                             /\ received[r] <= 1 + faults
  <2> SUFFICES ASSUME OutboxInv, NothingShared
               PROVE  /\ \A d, e \in Dispatchers : d # e => Held(d) \cap Held(e) = {}
                      /\ \A r \in Rows : /\ row[r].attempts <= MaxAttempts
                                         /\ received[r] <= 1 + faults
    OBVIOUS
  <2>1. \A d, e \in Dispatchers : d # e => Held(d) \cap Held(e) = {}
    BY DEF OutboxInv, OneHolder, NothingShared
  <2>2. ASSUME NEW r \in Rows
        PROVE  row[r].attempts <= MaxAttempts /\ received[r] <= 1 + faults
    <3>1. overlaps[r] = 0 /\ MaxAttempts \in Nat /\ faults \in Nat
      BY Numbers DEF NothingShared
    <3>2. row[r].attempts <= MaxAttempts + 0 /\ received[r] <= 1 + faults + 0
      BY <3>1, CountsTell DEF OutboxTruthful, DuplicatesBounded
    <3> QED BY <3>1, <3>2
  <2> QED BY <2>1, <2>2
<1> QED BY <1>1, <1>2, <1>3, OutboxInvariance, PTL DEF Spec

----------------------------------------------------------------------------
(* The outbox implements NotificationPromise.                              *)

Statuses == [r \in Rows |-> StatusOf(r)]

(* A step after which the outbox says the same of every row.               *)
LEMMA SameStatuses ==
    ASSUME UNCHANGED received, \A r \in Rows : StatusOf(r)' = StatusOf(r)
    PROVE  UNCHANGED <<Statuses, received>>
BY DEF Statuses

(* A step that changes what it says of one row.                            *)
LEMMA OneStatus ==
    ASSUME NEW r \in Rows, UNCHANGED received,
           \A q \in Rows \ {r} : row'[q] = row[q]
    PROVE  Statuses' = [Statuses EXCEPT ![r] = StatusOf(r)']
<1>1. \A q \in Rows \ {r} : StatusOf(q)' = StatusOf(q)
  BY DEF StatusOf, Queued
<1> QED BY <1>1 DEF Statuses

(* A dispatcher has in hand what the promise lets it deliver and settle.   *)
LEMMA CurrentInHand ==
    ASSUME OutboxInv, NEW d \in Dispatchers, pass[d].pc \in {"send", "report"},
           NEW r, r = pass[d].current
    PROVE  /\ r \in Rows
           /\ Statuses[r] = "queued" \/ (r \in exposed /\ Statuses[r] # "absent")
           /\ r \notin exposed => Queued(r)
<1>1. r \in Held(d) /\ r \in Rows /\ row[r].state # "absent"
  BY Current
<1>2. r \notin exposed => Queued(r)
  BY <1>1 DEF OutboxInv, PassInv, Protected, Queued
<1>3. Statuses[r] = IF Queued(r) THEN "queued" ELSE row[r].state
  BY <1>1 DEF Statuses, StatusOf
<1> QED BY <1>1, <1>2, <1>3

LEMMA SendKept ==
    ASSUME OutboxInv, NEW d \in Dispatchers, pass[d].pc = "send", UNCHANGED row,
           received' \in {received, [received EXCEPT ![pass[d].current] = @ + 1]}
    PROVE  [P!PNext]_P!pvars
<1>1. \A r \in Rows : StatusOf(r)' = StatusOf(r)
  BY DEF StatusOf, Queued
<1>2. Statuses' = Statuses
  BY <1>1 DEF Statuses
<1>3. PICK r : r = pass[d].current
  OBVIOUS
<1>4. /\ r \in Rows
      /\ Statuses[r] = "queued" \/ (r \in exposed /\ Statuses[r] # "absent")
  BY <1>3, CurrentInHand
<1> QED BY <1>2, <1>3, <1>4 DEF P!PNext, P!Receive, P!InHand, P!pvars, Statuses

LEMMA ReportKept ==
    ASSUME OutboxInv, NEW d \in Dispatchers, pass[d].pc = "report",
           MarkResult(pass[d].current, pass[d].ok), UNCHANGED received
    PROVE  [P!PNext]_P!pvars
<1>0. PICK r : r = pass[d].current
  OBVIOUS
<1>1. /\ \A q \in Rows \ {r} : row'[q] = row[q]
      /\ pass[d].ok => row'[r].state = "sent"
      /\ ~pass[d].ok => row'[r].state \in {"failed", "pending"}
  BY <1>0, MarkedResult
<1>2. /\ r \in Rows
      /\ Statuses[r] = "queued" \/ (r \in exposed /\ Statuses[r] # "absent")
      /\ r \notin exposed => Queued(r)
  BY <1>0, CurrentInHand
<1>3. Statuses' = [Statuses EXCEPT ![r] = StatusOf(r)']
  BY <1>1, <1>2, OneStatus
<1>4. CASE row'[r].state = "sent"
  <2>1. StatusOf(r)' = "sent"
    BY <1>4 DEF StatusOf, Queued
  <2>2. received[r] > 0
    BY <1>0, <1>1, <1>4 DEF OutboxInv, PassInv, Reported, Delivered
  <2> QED BY <1>2, <1>3, <2>1, <2>2 DEF P!PNext, P!Settle, P!InHand, Statuses
<1>5. CASE row'[r].state = "failed"
  <2>1. StatusOf(r)' = "failed"
    BY <1>5 DEF StatusOf, Queued
  <2> QED BY <1>2, <1>3, <2>1 DEF P!PNext, P!Settle, P!InHand, Statuses
<1>6. CASE row'[r].state = "pending" /\ r \in exposed
  <2>1. StatusOf(r)' = "queued"
    BY <1>6 DEF StatusOf, Queued
  <2> QED BY <1>2, <1>3, <1>6, <2>1 DEF P!PNext, P!Settle, P!InHand, Statuses
<1>7. CASE row'[r].state = "pending" /\ r \notin exposed
  <2>1. StatusOf(r)' = StatusOf(r)
    BY <1>2, <1>7 DEF StatusOf, Queued
  <2>2. \A q \in Rows : StatusOf(q)' = StatusOf(q)
    BY <1>1, <2>1 DEF StatusOf, Queued
  <2> QED BY <2>2, SameStatuses DEF P!pvars, Statuses
<1> QED BY <1>1, <1>4, <1>5, <1>6, <1>7

(* Everything else that happens is between the rows and the dispatchers.   *)
LEMMA Unseen ==
    ASSUME OutboxInv, UNCHANGED received,
           \A r \in Rows : \/ row'[r].state = row[r].state
                          \/ {row'[r].state, row[r].state} \subseteq {"pending", "sending"}
    PROVE  [P!PNext]_P!pvars
<1>1. \A r \in Rows : StatusOf(r)' = StatusOf(r)
  BY DEF StatusOf, Queued
<1> QED BY <1>1, SameStatuses DEF P!pvars, Statuses

LEMMA StepKept ==
    ASSUME OutboxInv, [Next]_vars
    PROVE  [P!PNext]_P!pvars
<1>1. ASSUME NEW r \in Rows, Enqueue(r) PROVE [P!PNext]_P!pvars
  <2>1. /\ row[r].state = "absent" /\ UNCHANGED received
        /\ row' = [row EXCEPT ![r] = [row[r] EXCEPT !.state = "pending"]]
    BY <1>1 DEF Enqueue
  <2>2. row[r] \in Row /\ row \in [Rows -> Row]
    BY DEF OutboxInv, TypeOK
  <2> DEFINE x == row[r]
             y == [x EXCEPT !.state = "pending"]
  <2>3. y.state = "pending"
    BY <2>2, RowState
  <2>4. row' = [row EXCEPT ![r] = y]
    BY <2>1
  <2> HIDE DEF y
  <2>5. row'[r].state = "pending" /\ \A q \in Rows \ {r} : row'[q] = row[q]
    BY <2>2, <2>3, <2>4
  <2>6. StatusOf(r) = "absent" /\ StatusOf(r)' = "queued"
    BY <2>1, <2>5 DEF StatusOf, Queued
  <2>7. Statuses' = [Statuses EXCEPT ![r] = "queued"]
    BY <2>1, <2>5, <2>6, OneStatus
  <2>8. Statuses[r] = "absent"
    BY <2>6 DEF Statuses
  <2> QED BY <2>1, <2>7, <2>8 DEF P!PNext, P!Queue, Statuses
<1>2. ASSUME NEW d \in Dispatchers, ReleaseStale(d) PROVE [P!PNext]_P!pvars
  <2>1. \A r \in Rows : row[r] \in Row
    BY DEF OutboxInv, TypeOK
  <2>2. \A r \in Rows : \/ row'[r].state = row[r].state
                        \/ row'[r].state = "pending" /\ row[r].state = "sending"
    BY <1>2, <2>1, RowAs DEF ReleaseStale
  <2>3. UNCHANGED received
    BY <1>2 DEF ReleaseStale
  <2> QED BY <2>2, <2>3, Unseen
<1>3. ASSUME NEW d \in Dispatchers, Claim(d) \/ ClaimLost(d) PROVE [P!PNext]_P!pvars
  <2>1. PICK S \in Batches(BatchSize) : row' = Marked(S)
    BY <1>3 DEF Claim, ClaimLost
  <2>2. UNCHANGED received
    BY <1>3 DEF Claim, ClaimLost
  <2>3. S \in SUBSET Pending
    BY BatchPending
  <2>4. \A r \in Rows : \/ row'[r].state = row[r].state
                        \/ row'[r].state = "sending" /\ row[r].state = "pending"
    BY <2>1, <2>3, MarkedRows DEF Pending
  <2> QED BY <2>2, <2>4, Unseen
<1>4. ASSUME NEW d \in Dispatchers, SelectPending(d) \/ Crash(d)
      PROVE  [P!PNext]_P!pvars
  <2>1. UNCHANGED <<row, received>>
    BY <1>4 DEF SelectPending, Crash
  <2> QED BY <2>1, Unseen
<1>5. ASSUME NEW d \in Dispatchers, NEW ok \in BOOLEAN, Send(d, ok) PROVE [P!PNext]_P!pvars
  BY <1>5, SendKept DEF Send
<1>6. ASSUME NEW d \in Dispatchers, SendUnsure(d) PROVE [P!PNext]_P!pvars
  BY <1>6, SendKept DEF SendUnsure
<1>7. ASSUME NEW d \in Dispatchers, Report(d) PROVE [P!PNext]_P!pvars
  BY <1>7, ReportKept DEF Report
<1>8. ASSUME NEW d \in Dispatchers, ReportThrows(d) PROVE [P!PNext]_P!pvars
  <2>1. CASE UNCHANGED row
    <3>1. UNCHANGED <<row, received>>
      BY <1>8, <2>1 DEF ReportThrows
    <3> QED BY <3>1, Unseen
  <2>2. CASE MarkResult(pass[d].current, pass[d].ok)
    BY <1>8, <2>2, ReportKept DEF ReportThrows
  <2> QED BY <1>8, <2>1, <2>2 DEF ReportThrows
<1>9. ASSUME Tick PROVE [P!PNext]_P!pvars
  <2>1. UNCHANGED received /\ \A r \in Rows : row[r] \in Row
    BY <1>9 DEF Tick, OutboxInv, TypeOK
  <2>2. \A r \in Rows : row'[r].state = row[r].state
    <3> SUFFICES ASSUME NEW r \in Rows PROVE row'[r].state = row[r].state
      OBVIOUS
    <3> DEFINE x == row[r]
               y == [x EXCEPT !.age = @ + 1]
    <3>1. y.state = x.state
      BY <2>1, RowAge
    <3>2. row'[r] = y \/ row'[r] = x
      BY <1>9 DEF Tick
    <3> HIDE DEF y
    <3> QED BY <3>1, <3>2
  <2> QED BY <2>1, <2>2, Unseen
<1>10. CASE UNCHANGED vars
  <2>1. UNCHANGED <<row, received>>
    BY <1>10 DEF vars
  <2> QED BY <2>1, Unseen
<1>11. ASSUME NEW d \in Dispatchers, PassStep(d) \/ PassFault(d) PROVE [P!PNext]_P!pvars
  BY <1>11, <1>2, <1>3, <1>4, <1>5, <1>6, <1>7, <1>8 DEF PassStep, PassFault
<1> QED BY <1>1, <1>9, <1>10, <1>11 DEF Next

(* Whichever dispatchers run, and whatever fails, they keep what db/012 and *)
(* db/013 promise of a notification: strictly, unless no claim protects it, *)
(* and then still that 'sent' means delivered.                             *)
THEOREM OutboxKeepsPromise == Spec => KeepsPromise
<1>1. Init => P!PInit
  BY DEF Init, P!PInit, StatusOf, Queued
<1>2. OutboxInv /\ [Next]_vars => [P!PNext]_P!pvars
  BY StepKept
<1> QED BY <1>1, <1>2, OutboxInvariance, PTL DEF Spec, KeepsPromise, P!Promise
=============================================================================
