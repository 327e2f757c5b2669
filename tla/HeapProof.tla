----------------------------- MODULE HeapProof -----------------------------
(***************************************************************************)
(* What ak_heap.c promises, for any number of objects, patches, threads and   *)
(* transactions: no accepted patch is lost, the history of an object is what  *)
(* it was, and the counts are right.  UpdateInv, HistoryInv and CountInv of   *)
(* Heap are the invariants.  Nothing is needed of a transaction but its       *)
(* types: a commit repeats the compare of every write it applies.             *)
(***************************************************************************)
EXTENDS Heap, FiniteSetTheorems, SequenceTheorems, TLAPS

-----------------------------------------------------------------------------
(* The operators of the model *)

\* What a table says of its objects.
LEMMA TableFacts ==
    ASSUME NEW f, IsTable(f), NEW p \in DOMAIN f
    PROVE  /\ p \in Nat \ {0} /\ f[p] \in Object /\ f[p].version \in Nat \ {0} /\ f[p].value \subseteq Nat
           /\ f[p].deleted \in BOOLEAN
  BY DEF IsTable, Object

\* An object written to: its value has a patch more, its version counts.
LEMMA Written ==
    ASSUME NEW o \in Object, NEW id \in Nat
    PROVE  /\ [o EXCEPT !.value = @ \cup {id}, !.version = @ + 1] \in Object
           /\ [o EXCEPT !.value = @ \cup {id}, !.version = @ + 1].value = o.value \cup {id}
           /\ [o EXCEPT !.value = @ \cup {id}, !.version = @ + 1].version = o.version + 1
           /\ [o EXCEPT !.value = @ \cup {id}, !.version = @ + 1].deleted = o.deleted
  <1>1. o.value \cup {id} \in SUBSET Nat /\ o.version + 1 \in Nat \ {0}
    BY DEF Object
  <1>2. \A x \in SUBSET Nat, n \in Nat \ {0} :
          /\ [o EXCEPT !.value = x, !.version = n] \in Object
          /\ [o EXCEPT !.value = x, !.version = n].value = x
          /\ [o EXCEPT !.value = x, !.version = n].version = n
          /\ [o EXCEPT !.value = x, !.version = n].deleted = o.deleted
    BY DEF Object
  <1> QED BY <1>1, <1>2

\* A deleted object keeps its value.
LEMMA Deleted ==
    ASSUME NEW o \in Object, NEW c \in Nat
    PROVE  /\ [o EXCEPT !.deleted = TRUE, !.version = @ + 1, !.deleted_at = c] \in Object
           /\ [o EXCEPT !.deleted = TRUE, !.version = @ + 1, !.deleted_at = c].value = o.value
           /\ [o EXCEPT !.deleted = TRUE, !.version = @ + 1, !.deleted_at = c].version = o.version + 1
           /\ [o EXCEPT !.deleted = TRUE, !.version = @ + 1, !.deleted_at = c].deleted = TRUE
  <1>1. o.version + 1 \in Nat \ {0}
    BY DEF Object
  <1>2. \A n \in Nat \ {0} :
          /\ [o EXCEPT !.deleted = TRUE, !.version = n, !.deleted_at = c] \in Object
          /\ [o EXCEPT !.deleted = TRUE, !.version = n, !.deleted_at = c].value = o.value
          /\ [o EXCEPT !.deleted = TRUE, !.version = n, !.deleted_at = c].version = n
          /\ [o EXCEPT !.deleted = TRUE, !.version = n, !.deleted_at = c].deleted = TRUE
    BY DEF Object
  <1> QED BY <1>1, <1>2

\* An object allocated with one patch.
LEMMA Fresh ==
    ASSUME NEW id \in Nat
    PROVE  [version |-> 1, value |-> {id}, deleted |-> FALSE, deleted_at |-> 0] \in Object
  <1>1. {id} \in SUBSET Nat
    OBVIOUS
  <1> QED BY <1>1 DEF Object

\* A new entry of the ghost log.
LEMMA NewApplied ==
    ASSUME NEW p \in Nat, NEW b \in Nat, NEW v \in Nat, NEW id \in Nat
    PROVE  [ptr |-> p, base |-> b, version |-> v, id |-> id] \in Applied
  BY DEF Applied

-----------------------------------------------------------------------------
(* The table and the patches applied to it *)

\* The fields of what was applied.
LEMMA AppliedFacts ==
    ASSUME NEW A, A \subseteq Applied, NEW a \in A
    PROVE  a.ptr \in Nat /\ a.base \in Nat /\ a.version \in Nat /\ a.id \in Nat
  BY DEF Applied

\* ak_heap_alloc takes a ptr nothing was ever applied to.
LEMMA AllocBelongs ==
    ASSUME UpdateInv, NEW id \in Nat, Alloc(id)
    PROVE  /\ IsTable(objects') /\ next_ptr' \in Nat \ {0} /\ applied' \subseteq Applied
           /\ Belong(objects', next_ptr', applied')
  <1> DEFINE p == next_ptr
             x == [version |-> 1, value |-> {id}, deleted |-> FALSE, deleted_at |-> 0]
             e == [ptr |-> p, base |-> 0, version |-> 1, id |-> id]
  <1>0. IsTable(objects) /\ p \in Nat \ {0} /\ applied \subseteq Applied /\ Belong(objects, p, applied)
    BY DEF UpdateInv, TypeOK
  <1>1. objects' = Put(objects, p, x) /\ next_ptr' = p + 1 /\ applied' = applied \cup {e}
    BY DEF Alloc, Acknowledge
  <1>2. x \in Object /\ x.value = {id} /\ x.version = 1
    BY Fresh
  <1>3. e \in Applied /\ e.ptr = p /\ e.base = 0 /\ e.version = 1 /\ e.id = id
    BY <1>0, NewApplied
  <1> HIDE DEF p, x, e
  <1>4. /\ IsTable(objects') /\ DOMAIN objects' = DOMAIN objects \cup {p} /\ objects'[p] = x
        /\ \A q \in DOMAIN objects : q # p => objects'[q] = objects[q]
    <2>1. /\ DOMAIN objects' = DOMAIN objects \cup {p} /\ objects'[p] = x
          /\ \A q \in DOMAIN objects : q # p => objects'[q] = objects[q]
      BY <1>1 DEF Put
    <2>2. IsTable(objects')
      BY <1>0, <1>2, <2>1 DEF IsTable
    <2> QED BY <2>1, <2>2
  <1>5. /\ \A q \in DOMAIN objects : q \in Nat /\ q < p
        /\ \A a \in applied : a.ptr \in Nat /\ a.ptr < p /\ a.version \in Nat
    BY <1>0, TableFacts, AppliedFacts DEF Belong
  <1>6. p \notin DOMAIN objects /\ \A a \in applied : a.ptr # p
    BY <1>0, <1>5
  <1>7. \A q \in DOMAIN objects' : q < p + 1
    BY <1>0, <1>4, <1>5
  <1>8. \A q \in DOMAIN objects' : objects'[q].value = {a.id : a \in {b \in applied' : b.ptr = q}}
    <2> TAKE q \in DOMAIN objects'
    <2>1. CASE q = p
      <3>1. {b \in applied' : b.ptr = q} = {e}
        BY <1>1, <1>3, <1>6, <2>1
      <3> QED BY <1>2, <1>3, <1>4, <2>1, <3>1
    <2>2. CASE q # p
      <3>1. {b \in applied' : b.ptr = q} = {b \in applied : b.ptr = q}
        BY <1>1, <1>3, <2>2
      <3>2. q \in DOMAIN objects /\ objects'[q] = objects[q]
        BY <1>4, <2>2
      <3> QED BY <1>0, <3>1, <3>2 DEF Belong
    <2> QED BY <2>1, <2>2
  <1>9. \A a \in applied' : a.version = a.base + 1 /\ a.ptr < p + 1
    BY <1>0, <1>1, <1>3, <1>5 DEF Belong
  <1>10. \A a, b \in applied' : a.ptr = b.ptr /\ a.version = b.version => a = b
    BY <1>0, <1>1, <1>3, <1>6 DEF Belong
  <1>11. \A a \in applied' : a.ptr \in DOMAIN objects' => a.version <= objects'[a.ptr].version
    BY <1>0, <1>1, <1>2, <1>3, <1>4, <1>6 DEF Belong
  <1> QED BY <1>0, <1>1, <1>3, <1>4, <1>7, <1>8, <1>9, <1>10, <1>11 DEF Belong

\* ak_heap_write makes a version that nothing made before.
LEMMA WriteBelongs ==
    ASSUME UpdateInv, NEW p, NEW v, NEW id \in Nat, Write(p, v, id)
    PROVE  /\ IsTable(objects') /\ next_ptr' \in Nat \ {0} /\ applied' \subseteq Applied
           /\ Belong(objects', next_ptr', applied')
  <1> DEFINE e == [ptr |-> p, base |-> v, version |-> objects[p].version + 1, id |-> id]
  <1>0. IsTable(objects) /\ next_ptr \in Nat \ {0} /\ applied \subseteq Applied /\ Belong(objects, next_ptr, applied)
    BY DEF UpdateInv, TypeOK
  <1>1. /\ p \in DOMAIN objects /\ objects[p].version = v /\ next_ptr' = next_ptr /\ applied' = applied \cup {e}
        /\ objects' = [objects EXCEPT ![p].value = @ \cup {id}, ![p].version = @ + 1]
    BY DEF Write, Matches, Present, Acknowledge
  <1>2. p \in Nat \ {0} /\ objects[p] \in Object /\ v \in Nat \ {0}
    BY <1>0, <1>1, TableFacts
  <1>3. e \in Applied /\ e.ptr = p /\ e.base = v /\ e.version = v + 1 /\ e.id = id
    <2>1. v + 1 \in Nat /\ p \in Nat /\ v \in Nat
      BY <1>2
    <2>2. [ptr |-> p, base |-> v, version |-> v + 1, id |-> id] \in Applied
      BY <2>1, NewApplied
    <2> QED BY <1>1, <2>2
  <1> HIDE DEF e
  <1>4. DOMAIN objects' = DOMAIN objects /\ \A q \in DOMAIN objects : q # p => objects'[q] = objects[q]
    BY <1>1
  <1>5. objects'[p] \in Object /\ objects'[p].value = objects[p].value \cup {id} /\ objects'[p].version = v + 1
    <2>1. objects'[p] = [objects[p] EXCEPT !.value = @ \cup {id}, !.version = @ + 1]
      BY <1>1
    <2> QED BY ZenonT(30), <1>1, <1>2, <2>1, Written
  <1>6. IsTable(objects')
    BY <1>0, <1>4, <1>5 DEF IsTable
  <1>7. \A a \in applied : a.ptr = p => a.version \in Nat /\ a.version <= v
    BY <1>0, <1>1, AppliedFacts DEF Belong
  <1>8. \A q \in DOMAIN objects' : objects'[q].value = {a.id : a \in {b \in applied' : b.ptr = q}}
    <2> TAKE q \in DOMAIN objects'
    <2>1. CASE q = p
      <3>1. {b \in applied' : b.ptr = q} = {b \in applied : b.ptr = q} \cup {e}
        BY <1>1, <1>3, <2>1
      <3>2. objects[p].value = {a.id : a \in {b \in applied : b.ptr = q}}
        BY <1>0, <1>1, <2>1 DEF Belong
      <3> QED BY <1>3, <1>5, <2>1, <3>1, <3>2
    <2>2. CASE q # p
      <3>1. {b \in applied' : b.ptr = q} = {b \in applied : b.ptr = q}
        BY <1>1, <1>3, <2>2
      <3>2. q \in DOMAIN objects /\ objects'[q] = objects[q]
        BY <1>4, <2>2
      <3> QED BY <1>0, <3>1, <3>2 DEF Belong
    <2> QED BY <2>1, <2>2
  <1>9. \A a \in applied' : a.version = a.base + 1 /\ a.ptr < next_ptr
    BY <1>0, <1>1, <1>3 DEF Belong
  <1>10. \A a, b \in applied' : a.ptr = b.ptr /\ a.version = b.version => a = b
    <2>1. \A a \in applied : a.ptr = p => a.version # v + 1
      BY <1>2, <1>7
    <2> QED BY <1>0, <1>1, <1>3, <2>1 DEF Belong
  <1>11. \A a \in applied' : a.ptr \in DOMAIN objects' => a.version <= objects'[a.ptr].version
    <2>1. \A a \in applied : a.ptr = p => a.version <= v + 1
      BY <1>2, <1>7
    <2>2. e.version <= objects'[p].version
      BY <1>2, <1>3, <1>5
    <2> QED BY <1>0, <1>1, <1>3, <1>4, <1>5, <2>1, <2>2 DEF Belong
  <1> QED BY <1>0, <1>1, <1>3, <1>4, <1>6, <1>8, <1>9, <1>10, <1>11 DEF Belong

\* ak_heap_delete makes a version without a patch.
LEMMA DeleteBelongs ==
    ASSUME UpdateInv, NEW p, NEW v, Delete(p, v)
    PROVE  /\ IsTable(objects') /\ next_ptr' \in Nat \ {0} /\ applied' \subseteq Applied
           /\ Belong(objects', next_ptr', applied')
  <1>0. /\ IsTable(objects) /\ next_ptr \in Nat \ {0} /\ applied \subseteq Applied
        /\ Belong(objects, next_ptr, applied) /\ clock \in Nat
    BY DEF UpdateInv, TypeOK
  <1>1. /\ p \in DOMAIN objects /\ objects[p].version = v /\ next_ptr' = next_ptr /\ applied' = applied
        /\ objects' = [objects EXCEPT ![p].deleted = TRUE, ![p].version = @ + 1, ![p].deleted_at = clock]
    BY DEF Delete, Matches, Present, ledger
  <1>2. p \in Nat \ {0} /\ objects[p] \in Object /\ v \in Nat \ {0}
    BY <1>0, <1>1, TableFacts
  <1>3. DOMAIN objects' = DOMAIN objects /\ \A q \in DOMAIN objects : q # p => objects'[q] = objects[q]
    BY <1>1
  <1>4. objects'[p] \in Object /\ objects'[p].value = objects[p].value /\ objects'[p].version = v + 1
    <2>1. objects'[p] = [objects[p] EXCEPT !.deleted = TRUE, !.version = @ + 1, !.deleted_at = clock]
      BY <1>1
    <2> DEFINE o == objects[p]
               d == [o EXCEPT !.deleted = TRUE, !.version = @ + 1, !.deleted_at = clock]
    <2>2. d \in Object /\ d.value = o.value /\ d.version = o.version + 1
      BY <1>0, <1>2, Deleted
    <2> QED BY <1>1, <2>1, <2>2
  <1>5. IsTable(objects')
    BY <1>0, <1>3, <1>4 DEF IsTable
  <1>6. \A a \in applied : a.ptr = p => a.version \in Nat /\ a.version <= v
    BY <1>0, <1>1, AppliedFacts DEF Belong
  <1>7. \A a \in applied : a.ptr \in DOMAIN objects' => a.version <= objects'[a.ptr].version
    <2>1. \A a \in applied : a.ptr = p => a.version <= v + 1
      BY <1>2, <1>6
    <2> QED BY <1>0, <1>3, <1>4, <2>1 DEF Belong
  <1>8. \A q \in DOMAIN objects' : objects'[q].value = {a.id : a \in {b \in applied' : b.ptr = q}}
    <2>1. \A q \in DOMAIN objects : objects'[q].value = objects[q].value
      BY <1>3, <1>4
    <2> QED BY <1>0, <1>1, <1>3, <2>1 DEF Belong
  <1> QED BY <1>0, <1>1, <1>3, <1>5, <1>7, <1>8 DEF Belong

\* ak_heap_purge_tombstones, and any other step that only takes objects away.
LEMMA FewerBelong ==
    ASSUME NEW T, IsTable(T), NEW n, NEW A, Belong(T, n, A), NEW S
    PROVE  /\ IsTable([p \in DOMAIN T \ S |-> T[p]])
           /\ Belong([p \in DOMAIN T \ S |-> T[p]], n, A)
  <1> DEFINE U == [p \in DOMAIN T \ S |-> T[p]]
  <1>1. DOMAIN U \subseteq DOMAIN T /\ \A p \in DOMAIN U : U[p] = T[p]
    OBVIOUS
  <1> HIDE DEF U
  <1>2. IsTable(U)
    BY <1>1 DEF IsTable
  <1>3. Belong(U, n, A)
    BY <1>1 DEF Belong
  <1> QED BY <1>2, <1>3 DEF U

\* A set of naturals with a bound has a greatest element.
LEMMA GreatestNat ==
    ASSUME NEW T, T \subseteq Nat, T # {}, NEW bound \in Nat, \A m \in T : m <= bound
    PROVE  \E n \in T : \A m \in T : m <= n
  <1> DEFINE R == {ss \in Nat \X Nat : ss[1] < ss[2]}
             D == {d \in Nat : \E m \in T : m + d = bound}
  <1>1. IsWellFoundedOn(R, Nat)
    BY NatLessThanWellFounded, Zenon DEF OpToRel
  <1>2. D \subseteq Nat /\ D # {}
    <2>1. PICK m \in T : TRUE
      OBVIOUS
    <2>2. bound - m \in Nat /\ m + (bound - m) = bound
      BY <2>1
    <2> QED BY <2>1, <2>2
  <1> HIDE DEF R, D
  <1>3. PICK d \in D : \A c \in D : ~(<<c, d>> \in R)
    BY <1>1, <1>2, WFMin
  <1>4. \A c \in D : ~(c < d)
    BY <1>2, <1>3 DEF R
  <1>5. PICK n \in T : n + d = bound /\ d \in Nat
    BY <1>3 DEF D
  <1>6. ASSUME NEW m \in T PROVE m <= n
    <2>1. m \in Nat /\ n \in Nat /\ m <= bound
      OBVIOUS
    <2>2. bound - m \in Nat /\ m + (bound - m) = bound
      BY <2>1
    <2>3. bound - m \in D
      BY <2>2 DEF D
    <2>4. ~(bound - m < d)
      BY <1>4, <2>3
    <2> QED BY <1>5, <2>1, <2>4
  <1> QED BY <1>6

\* ak_heap_restore brings the objects back with the patches they had.
LEMMA RestoreBelongs ==
    ASSUME UpdateInv, ak_heap_restore
    PROVE  /\ IsTable(objects') /\ next_ptr' \in Nat \ {0} /\ applied' \subseteq Applied
           /\ Belong(objects', next_ptr', applied') /\ next_ptr <= next_ptr'
  <1> DEFINE T == snap.objects
             B == snap.applied
             AtLeast(S) == {next_ptr} \cup {p + 1 : p \in S}
                             \cup (IF S = DOMAIN T THEN {snap.next_ptr} ELSE {})
  <1>0. /\ IsTable(objects) /\ next_ptr \in Nat \ {0} /\ applied \subseteq Applied
        /\ Belong(objects, next_ptr, applied)
        /\ IsTable(T) /\ snap.next_ptr \in Nat \ {0} /\ B \subseteq Applied /\ Belong(T, snap.next_ptr, B)
    BY DEF UpdateInv, TypeOK
  <1>1. PICK S \in SUBSET DOMAIN T :
          /\ objects' = [p \in DOMAIN objects \cup S |-> IF p \in S THEN T[p] ELSE objects[p]]
          /\ next_ptr' = CHOOSE n \in AtLeast(S) : \A m \in AtLeast(S) : m <= n
          /\ applied' = {a \in applied : a.ptr \notin S} \cup {a \in B : a.ptr \in S}
    BY DEF ak_heap_restore
  <1>2. next_ptr' \in AtLeast(S) /\ \A m \in AtLeast(S) : m \in Nat /\ m <= next_ptr'
    <2>1. \A p \in S : p \in Nat /\ p < snap.next_ptr
      BY <1>0, TableFacts DEF Belong
    <2>2. next_ptr + snap.next_ptr \in Nat
      BY <1>0
    <2>3. \A m \in AtLeast(S) : m \in Nat /\ m <= next_ptr + snap.next_ptr
      BY <1>0, <2>1
    <2>4. next_ptr \in AtLeast(S)
      OBVIOUS
    <2>5. next_ptr' = CHOOSE n \in AtLeast(S) : \A m \in AtLeast(S) : m <= n
      BY <1>1
    <2> HIDE DEF AtLeast
    <2>6. \E n \in AtLeast(S) : \A m \in AtLeast(S) : m <= n
      BY <2>2, <2>3, <2>4, GreatestNat
    <2> QED BY <2>3, <2>5, <2>6
  <1>3. next_ptr <= next_ptr' /\ \A p \in S : p + 1 <= next_ptr'
    BY <1>2
  <1>4. next_ptr' \in Nat
    BY <1>2
  <1> HIDE DEF T, B, AtLeast
  <1>5. /\ DOMAIN objects' = DOMAIN objects \cup S
        /\ \A p \in S : p \in DOMAIN T /\ objects'[p] = T[p]
        /\ \A p \in DOMAIN objects' : p \notin S => p \in DOMAIN objects /\ objects'[p] = objects[p]
    BY <1>1
  <1>6. IsTable(objects')
    BY <1>0, <1>5 DEF IsTable
  <1>7. applied' \subseteq Applied
    BY <1>0, <1>1
  <1>8. /\ \A a \in applied' : (a.ptr \in S => a \in B) /\ (a.ptr \notin S => a \in applied)
        /\ \A p \in S : {b \in applied' : b.ptr = p} = {b \in B : b.ptr = p}
        /\ \A p : p \notin S => {b \in applied' : b.ptr = p} = {b \in applied : b.ptr = p}
    BY <1>1
  <1>9. \A p \in DOMAIN objects' : p < next_ptr'
    <2> TAKE p \in DOMAIN objects'
    <2>1. p \in Nat
      BY <1>6, TableFacts
    <2>2. CASE p \in S
      BY <1>3, <1>4, <2>1, <2>2
    <2>3. CASE p \notin S
      BY <1>0, <1>3, <1>4, <1>5, <2>1, <2>3 DEF Belong
    <2> QED BY <2>2, <2>3
  <1>10. \A p \in DOMAIN objects' : objects'[p].value = {a.id : a \in {b \in applied' : b.ptr = p}}
    <2> TAKE p \in DOMAIN objects'
    <2>2. CASE p \in S
      BY <1>0, <1>5, <1>8, <2>2 DEF Belong
    <2>3. CASE p \notin S
      BY <1>0, <1>5, <1>8, <2>3 DEF Belong
    <2> QED BY <2>2, <2>3
  <1>11. \A a \in applied' : a.version = a.base + 1 /\ a.ptr < next_ptr'
    <2> TAKE a \in applied'
    <2>1. a.ptr \in Nat
      BY <1>7, AppliedFacts
    <2>2. CASE a.ptr \in S
      BY <1>0, <1>3, <1>4, <1>8, <2>1, <2>2 DEF Belong
    <2>3. CASE a.ptr \notin S
      BY <1>0, <1>3, <1>4, <1>8, <2>1, <2>3 DEF Belong
    <2> QED BY <2>2, <2>3
  <1>12. \A a, b \in applied' : a.ptr = b.ptr /\ a.version = b.version => a = b
    BY <1>0, <1>8 DEF Belong
  <1>13. \A a \in applied' : a.ptr \in DOMAIN objects' => a.version <= objects'[a.ptr].version
    <2> TAKE a \in applied'
    <2> HAVE a.ptr \in DOMAIN objects'
    <2>2. CASE a.ptr \in S
      BY <1>0, <1>5, <1>8, <2>2 DEF Belong
    <2>3. CASE a.ptr \notin S
      BY <1>0, <1>5, <1>8, <2>3 DEF Belong
    <2> QED BY <2>2, <2>3
  <1>14. next_ptr' # 0
    BY <1>0, <1>3, <1>4
  <1> QED BY <1>3, <1>4, <1>6, <1>7, <1>9, <1>10, <1>11, <1>12, <1>13, <1>14 DEF Belong

-----------------------------------------------------------------------------
(* The other variables keep their types *)

\* The history when save_version finds the memory it needs.
Saves(p, v, value) == history' = Put(history, p, <<[version |-> v, value |-> value]>> \o HistoryOf(p))

\* save_version puts one entry in front of one history, or does nothing.
LEMMA SaveCases ==
    ASSUME NEW p, NEW v, NEW value, save_version(p, v, value)
    PROVE  (Saves(p, v, value) /\ version_count' = version_count + 1) \/ UNCHANGED <<history, version_count>>
  BY DEF save_version, Saves

\* The history with the entry.
LEMMA SaveHistory ==
    ASSUME DOMAIN history \subseteq Nat, \A q \in DOMAIN history : history[q] \in Seq(Entry),
           NEW p \in Nat, NEW v \in Nat \ {0}, NEW value \in SUBSET Nat, Saves(p, v, value)
    PROVE  /\ DOMAIN history' = DOMAIN history \cup {p} /\ DOMAIN history' \subseteq Nat
           /\ \A q \in DOMAIN history : q # p => history'[q] = history[q]
           /\ history'[p] = <<[version |-> v, value |-> value]>> \o HistoryOf(p)
           /\ HistoryOf(p) \in Seq(Entry)
           /\ \A q \in DOMAIN history' : history'[q] \in Seq(Entry)
  <1> DEFINE e == [version |-> v, value |-> value]
             h == <<e>> \o HistoryOf(p)
  <1>1. history' = Put(history, p, h)
    BY DEF Saves
  <1>2. HistoryOf(p) \in Seq(Entry)
    BY DEF HistoryOf
  <1>3. e \in Entry
    BY DEF Entry
  <1>4. h \in Seq(Entry)
    <2>1. <<e>> \in Seq(Entry)
      BY <1>3
    <2> QED BY <1>2, <2>1, ConcatProperties
  <1> HIDE DEF h
  <1>5. /\ DOMAIN history' = DOMAIN history \cup {p} /\ history'[p] = h
        /\ \A q \in DOMAIN history : q # p => history'[q] = history[q]
    BY <1>1 DEF Put
  <1>6. \A q \in DOMAIN history' : history'[q] \in Seq(Entry)
    BY <1>4, <1>5
  <1> QED BY <1>2, <1>5, <1>6 DEF h

\* The part of TypeOK about the history.
HistoryTyped == DOMAIN history \subseteq Nat /\ \A p \in DOMAIN history : history[p] \in Seq(Entry)

\* What an operation on the table leaves to be shown of the whole.
LEMMA UpdateKept ==
    ASSUME UpdateInv, HistoryTyped', txn' \in [Threads -> Txn], patches' \in Nat,
           IsTable(objects') /\ next_ptr' \in Nat \ {0} /\ applied' \subseteq Applied
           /\ Belong(objects', next_ptr', applied'),
           acked' \subseteq applied' \cup undone', UNCHANGED <<clock, snap>>
    PROVE  UpdateInv'
  BY DEF UpdateInv, TypeOK, HistoryTyped

\* A step that leaves the table, its history and the snapshot alone.
LEMMA UpdateElsewhere ==
    ASSUME UpdateInv, txn' \in [Threads -> Txn], patches' \in Nat, clock' \in Nat,
           UNCHANGED <<objects, next_ptr, ledger, history, snap>>
    PROVE  UpdateInv'
  BY DEF UpdateInv, TypeOK, ledger

\* ak_heap_alloc starts a history.
LEMMA AllocHistory ==
    ASSUME UpdateInv, NEW id \in Nat, Alloc(id) PROVE HistoryTyped'
  <1>1. DOMAIN history \subseteq Nat /\ \A q \in DOMAIN history : history[q] \in Seq(Entry)
    BY DEF UpdateInv, TypeOK
  <1>2. next_ptr \in Nat /\ 1 \in Nat \ {0} /\ {id} \in SUBSET Nat /\ save_version(next_ptr, 1, {id})
    BY DEF UpdateInv, TypeOK, Alloc
  <1> QED BY <1>1, <1>2, SaveCases, SaveHistory DEF HistoryTyped

\* ak_heap_write and ak_heap_delete lengthen one.
LEMMA SaveOldHistory ==
    ASSUME UpdateInv, NEW p \in DOMAIN objects, SaveOld(p) PROVE HistoryTyped'
  <1>1. DOMAIN history \subseteq Nat /\ \A q \in DOMAIN history : history[q] \in Seq(Entry)
    BY DEF UpdateInv, TypeOK
  <1> DEFINE v == objects[p].version
             x == objects[p].value
  <1>2. p \in Nat /\ v \in Nat \ {0} /\ x \in SUBSET Nat
    <2>1. IsTable(objects)
      BY DEF UpdateInv, TypeOK
    <2> QED BY <2>1, TableFacts
  <1>3. save_version(p, v, x)
    BY DEF SaveOld
  <1> HIDE DEF v, x
  <1> QED BY <1>1, <1>2, <1>3, SaveCases, SaveHistory DEF HistoryTyped

\* What is acknowledged is applied.
LEMMA ApplyAcked ==
    ASSUME UpdateInv, NEW id, NEW p, NEW v, Alloc(id) \/ Write(p, v, id) \/ Delete(p, v)
    PROVE  acked' \subseteq applied' \cup undone'
  <1>1. acked \subseteq applied \cup undone
    BY DEF UpdateInv
  <1>2. ASSUME NEW a, Acknowledge(a) PROVE acked' \subseteq applied' \cup undone'
    BY <1>1, <1>2 DEF Acknowledge
  <1>3. CASE Alloc(id)
    BY <1>2, <1>3 DEF Alloc
  <1>4. CASE Write(p, v, id)
    BY <1>2, <1>4 DEF Write
  <1>5. CASE Delete(p, v)
    BY <1>1, <1>5 DEF Delete, ledger
  <1> QED BY <1>3, <1>4, <1>5

\* The three operations on an object keep UpdateInv.
LEMMA ApplyStep ==
    ASSUME UpdateInv, txn' \in [Threads -> Txn], patches' \in Nat, UNCHANGED <<clock, snap>>,
           NEW id \in Nat, NEW p, NEW v,
           Alloc(id) \/ Write(p, v, id) \/ Delete(p, v)
    PROVE  UpdateInv'
  <1>1. CASE Alloc(id)
    BY <1>1, AllocHistory, AllocBelongs, ApplyAcked, UpdateKept
  <1>2. CASE Write(p, v, id)
    <2>1. p \in DOMAIN objects /\ SaveOld(p)
      BY <1>2 DEF Write, Matches, Present
    <2> QED BY <1>2, <2>1, SaveOldHistory, WriteBelongs, ApplyAcked, UpdateKept
  <1>3. CASE Delete(p, v)
    <2>1. p \in DOMAIN objects /\ SaveOld(p)
      BY <1>3 DEF Delete, Matches, Present
    <2> QED BY <1>3, <2>1, SaveOldHistory, DeleteBelongs, ApplyAcked, UpdateKept
  <1> QED BY <1>1, <1>2, <1>3

\* A transaction that has not begun.
LEMMA NoTxnTyped == NoTxn \in Txn /\ [NoTxn EXCEPT !.state = "open"] \in Txn
  <1>1. <<>> \in Seq(Op) /\ 1 \in Nat \ {0}
    OBVIOUS
  <1> QED BY <1>1 DEF NoTxn, Txn

\* What TypeOK says of a transaction.
LEMMA TxnFacts ==
    ASSUME UpdateInv, NEW t \in Threads
    PROVE  /\ txn \in [Threads -> Txn] /\ txn[t] \in Txn /\ txn[t].ops \in Seq(Op) /\ txn[t].at \in Nat \ {0}
           /\ Len(txn[t].ops) \in Nat
  <1>1. txn \in [Threads -> Txn]
    BY DEF UpdateInv, TypeOK
  <1>2. txn[t] \in Txn /\ txn[t].ops \in Seq(Op) /\ txn[t].at \in Nat \ {0}
    BY <1>1 DEF Txn
  <1> QED BY <1>1, <1>2, LenProperties

\* An operation is added to a transaction.
LEMMA BufferTyped ==
    ASSUME UpdateInv, NEW t \in Threads, NEW op \in Op, Buffer(t, op)
    PROVE  txn' \in [Threads -> Txn]
  <1> DEFINE l == Append(txn[t].ops, op)
             x == txn[t]
  <1>1. l \in Seq(Op) /\ x \in Txn
    BY TxnFacts, AppendProperties
  <1>2. txn' = [txn EXCEPT ![t] = [x EXCEPT !.ops = l]]
    BY TxnFacts DEF Buffer
  <1> HIDE DEF l, x
  <1>3. [x EXCEPT !.ops = l] \in Txn
    BY <1>1 DEF Txn
  <1> QED BY <1>2, <1>3, TxnFacts

\* The operation that is buffered.
LEMMA NewOp ==
    ASSUME NEW o \in {"alloc", "write", "delete"}, NEW p \in Nat, NEW v \in Nat, NEW id \in Nat
    PROVE  [op |-> o, ptr |-> p, version |-> v, id |-> id] \in Op
  BY DEF Op

\* A commit goes on to its next operation.
LEMMA WentTyped ==
    ASSUME UpdateInv, NEW t \in Threads, NEW ok \in BOOLEAN,
           txn' = [txn EXCEPT ![t].at = @ + 1, ![t].whole = @ /\ ok]
    PROVE  txn' \in [Threads -> Txn]
  <1> DEFINE x == txn[t]
             w == x.whole /\ ok
             n == x.at + 1
  <1>1. x \in Txn /\ n \in Nat \ {0} /\ w \in BOOLEAN
    BY TxnFacts
  <1>2. txn' = [txn EXCEPT ![t] = [x EXCEPT !.at = n, !.whole = w]]
    BY TxnFacts
  <1> HIDE DEF x, w, n
  <1>3. [x EXCEPT !.at = n, !.whole = w] \in Txn
    BY <1>1 DEF Txn
  <1> QED BY <1>2, <1>3, TxnFacts

-----------------------------------------------------------------------------
(* UpdateInv *)

\* UpdateInv holds initially.
LEMMA UpdateInit == Init => UpdateInv
  <1> SUFFICES ASSUME Init PROVE UpdateInv
    OBVIOUS
  <1>1. /\ objects = <<>> /\ history = <<>> /\ next_ptr = 1 /\ applied = {} /\ acked = {}
        /\ patches = 0 /\ clock = 1
    BY DEF Init, Empty
  <1>2. snap.objects = <<>> /\ snap.next_ptr = 1 /\ snap.applied = {}
    BY DEF Init, NoSnap
  <1>3. txn \in [Threads -> Txn]
    BY NoTxnTyped DEF Init
  <1>4. DOMAIN <<>> = {}
    OBVIOUS
  <1>5. IsTable(<<>>) /\ Belong(<<>>, 1, {})
    BY <1>4 DEF IsTable, Belong
  <1>6. TypeOK
    BY <1>1, <1>2, <1>3, <1>4, <1>5 DEF TypeOK
  <1> QED BY <1>1, <1>2, <1>5, <1>6 DEF UpdateInv

\* The operations outside transactions keep UpdateInv.
LEMMA SingleStep == ASSUME UpdateInv, Single PROVE UpdateInv'
  <1>0. patches \in Nat /\ patches + 1 \in Nat /\ txn \in [Threads -> Txn] /\ clock \in Nat
    BY DEF UpdateInv, TypeOK
  <1>1. CASE ak_heap_alloc
    <2>1. patches' \in Nat /\ Alloc(patches + 1) /\ UNCHANGED <<txn, clock, snap>>
      BY <1>0, <1>1 DEF ak_heap_alloc, NewPatch, Elsewhere, env
    <2> QED BY <1>0, <2>1, ApplyStep
  <1>2. CASE ak_heap_write
    <2>1. patches' \in Nat /\ UNCHANGED <<txn, clock, snap>>
      BY <1>0, <1>2 DEF ak_heap_write, NewPatch, Elsewhere, env
    <2>2. PICK p \in DOMAIN objects : Write(p, objects[p].version, patches + 1)
      BY <1>2 DEF ak_heap_write
    <2> QED BY <1>0, <2>1, <2>2, ApplyStep
  <1>3. CASE ak_heap_delete
    <2>1. UNCHANGED <<txn, clock, snap, patches>>
      BY <1>3 DEF ak_heap_delete, Elsewhere, env
    <2>2. PICK p \in DOMAIN objects : Delete(p, objects[p].version)
      BY <1>3 DEF ak_heap_delete
    <2> QED BY <1>0, <2>1, <2>2, ApplyStep
  <1>4. CASE ak_heap_purge_versions
    <2>1. UNCHANGED <<objects, next_ptr, ledger, txn, clock, snap, patches>>
      BY <1>4 DEF ak_heap_purge_versions, table, env
    <2>2. HistoryTyped'
      <3>1. PICK k \in KeepCounts :
              history' = [p \in DOMAIN history |->
                  IF p \in {q \in DOMAIN history : Len(history[q]) > k} THEN SubSeq(history[p], 1, k) ELSE history[p]]
        BY <1>4 DEF ak_heap_purge_versions
      <3>2. DOMAIN history \subseteq Nat /\ \A p \in DOMAIN history : history[p] \in Seq(Entry)
        BY DEF UpdateInv, TypeOK
      <3>3. k \in Nat
        BY HeapAssumption
      <3>4. ASSUME NEW p \in DOMAIN history PROVE history'[p] \in Seq(Entry)
        <4>1. CASE Len(history[p]) > k
          <5>1. SubSeq(history[p], 1, k) \in Seq(Entry)
            BY <3>2, <3>3, <4>1, SubSeqProperties
          <5> QED BY <3>1, <4>1, <5>1
        <4>2. CASE ~(Len(history[p]) > k)
          BY <3>1, <3>2, <4>2
        <4> QED BY <4>1, <4>2
      <3> QED BY <3>1, <3>2, <3>4 DEF HistoryTyped
    <2> QED BY <2>1, <2>2 DEF UpdateInv, TypeOK, HistoryTyped, ledger
  <1>5. CASE PurgeStart
    <2>1. UNCHANGED <<objects, next_ptr, ledger, history, txn, clock, snap, patches>>
      BY <1>5 DEF PurgeStart, table, saved, env
    <2> QED BY <1>0, <2>1, UpdateElsewhere
  <1>6. CASE ak_heap_purge_tombstones
    <2>1. UNCHANGED <<next_ptr, ledger, history, txn, clock, snap, patches>>
      BY <1>6 DEF ak_heap_purge_tombstones, saved, env
    <2>2. PICK gone : objects' = [p \in DOMAIN objects \ gone |-> objects[p]]
      BY <1>6 DEF ak_heap_purge_tombstones
    <2>3. IsTable(objects) /\ Belong(objects, next_ptr, applied) /\ applied \subseteq Applied /\ next_ptr \in Nat \ {0}
      BY DEF UpdateInv, TypeOK
    <2>4. IsTable(objects') /\ Belong(objects', next_ptr, applied)
      BY <2>2, <2>3, FewerBelong
    <2>5. HistoryTyped'
      BY <2>1 DEF UpdateInv, TypeOK, HistoryTyped
    <2>6. acked' \subseteq applied' \cup undone' /\ applied' = applied
      BY <2>1 DEF UpdateInv, ledger
    <2> QED BY <1>0, <2>1, <2>3, <2>4, <2>5, <2>6, UpdateKept
  <1> QED BY <1>1, <1>2, <1>3, <1>4, <1>5, <1>6 DEF Single

\* A buffered operation is one.
LEMMA BufferStep ==
    ASSUME UpdateInv, NEW t \in Threads, NEW op \in Op, Buffer(t, op), patches' \in Nat
    PROVE  UpdateInv'
  <1>1. UNCHANGED <<objects, next_ptr, ledger, history, clock, snap>>
    BY DEF Buffer, table, saved, env
  <1>2. clock \in Nat
    BY DEF UpdateInv, TypeOK
  <1> QED BY <1>1, <1>2, BufferTyped, UpdateElsewhere

\* A step of a commit is an operation with the version it was buffered with.
LEMMA CommitApplyStep ==
    ASSUME UpdateInv, NEW t \in Threads, CommitApply(t) PROVE UpdateInv'
  <1> DEFINE op == txn[t].ops[txn[t].at]
             Went(ok) == txn' = [txn EXCEPT ![t].at = @ + 1, ![t].whole = @ /\ ok]
  <1>0. patches \in Nat /\ clock \in Nat
    BY DEF UpdateInv, TypeOK
  <1>1. txn[t].at <= Len(txn[t].ops) /\ UNCHANGED <<clock, snap, patches>>
    BY DEF CommitApply, env
  <1>2. op \in Op /\ op.id \in Nat
    <2>1. txn[t].at \in 1..Len(txn[t].ops)
      BY <1>1, TxnFacts
    <2>2. op \in Op
      BY <2>1, TxnFacts, ElementOfSeq
    <2> QED BY <2>2 DEF Op
  <1>3. \/ Alloc(op.id) /\ Went(TRUE)
        \/ Write(op.ptr, op.version, op.id) /\ Went(TRUE)
        \/ Delete(op.ptr, op.version) /\ Went(TRUE)
        \/ Went(FALSE) /\ UNCHANGED <<objects, next_ptr, ledger, history>>
    BY DEF CommitApply, table, saved
  <1>4. txn' \in [Threads -> Txn]
    BY <1>3, WentTyped
  <1> HIDE DEF op, Went
  <1>5. CASE Alloc(op.id) \/ Write(op.ptr, op.version, op.id) \/ Delete(op.ptr, op.version)
    BY <1>0, <1>1, <1>2, <1>4, <1>5, ApplyStep
  <1>6. CASE UNCHANGED <<objects, next_ptr, ledger, history>>
    BY <1>0, <1>1, <1>4, <1>6, UpdateElsewhere
  <1> QED BY <1>3, <1>5, <1>6

\* The steps of a transaction keep UpdateInv.
LEMMA BatchStep == ASSUME UpdateInv, NEW t \in Threads, Batch(t) PROVE UpdateInv'
  <1>0. /\ patches \in Nat /\ patches + 1 \in Nat /\ clock \in Nat /\ next_ptr \in Nat /\ IsTable(objects)
        /\ 0 \in Nat
    BY DEF UpdateInv, TypeOK
  <1>1. CASE ak_heap_txn_begin(t)
    <2>1. UNCHANGED <<objects, next_ptr, ledger, history, clock, snap, patches>>
      BY <1>1 DEF ak_heap_txn_begin, table, saved, env
    <2>2. txn' \in [Threads -> Txn]
      BY <1>1, TxnFacts, NoTxnTyped DEF ak_heap_txn_begin
    <2> QED BY <1>0, <2>1, <2>2, UpdateElsewhere
  <1>2. CASE ak_heap_txn_alloc(t)
    <2> DEFINE n == next_ptr + Len(txn[t].ops)
    <2>1. n \in Nat
      BY <1>0, TxnFacts
    <2>2. [op |-> "alloc", ptr |-> n, version |-> 0, id |-> patches + 1] \in Op
      BY <1>0, <2>1, NewOp
    <2>3. patches' \in Nat /\ Buffer(t, [op |-> "alloc", ptr |-> n, version |-> 0, id |-> patches + 1])
      BY <1>0, <1>2 DEF ak_heap_txn_alloc, NewPatch
    <2> QED BY <2>2, <2>3, BufferStep
  <1>3. CASE ak_heap_txn_write(t)
    <2>1. PICK p \in DOMAIN objects :
            Buffer(t, [op |-> "write", ptr |-> p, version |-> objects[p].version, id |-> patches + 1])
      BY <1>3 DEF ak_heap_txn_write
    <2>2. p \in Nat /\ objects[p].version \in Nat
      BY <1>0, TableFacts
    <2>3. [op |-> "write", ptr |-> p, version |-> objects[p].version, id |-> patches + 1] \in Op
      BY <1>0, <2>2, NewOp
    <2>4. patches' \in Nat
      BY <1>0, <1>3 DEF ak_heap_txn_write, NewPatch
    <2> QED BY <2>1, <2>3, <2>4, BufferStep
  <1>4. CASE ak_heap_txn_delete(t)
    <2>1. PICK p \in DOMAIN objects :
            Buffer(t, [op |-> "delete", ptr |-> p, version |-> objects[p].version, id |-> 0])
      BY <1>4 DEF ak_heap_txn_delete
    <2>2. p \in Nat /\ objects[p].version \in Nat
      BY <1>0, TableFacts
    <2>3. [op |-> "delete", ptr |-> p, version |-> objects[p].version, id |-> 0] \in Op
      BY <1>0, <2>2, NewOp
    <2>4. patches' \in Nat
      BY <1>0, <1>4 DEF ak_heap_txn_delete
    <2> QED BY <2>1, <2>3, <2>4, BufferStep
  <1>5. CASE CommitValidate(t)
    <2>1. UNCHANGED <<objects, next_ptr, ledger, history, clock, snap, patches>>
      BY <1>5 DEF CommitValidate, table, saved, env
    <2> DEFINE x == txn[t]
    <2>2. [x EXCEPT !.state = "applying"] \in Txn
      <3>1. x \in Txn
        BY TxnFacts
      <3> HIDE DEF x
      <3> QED BY <3>1 DEF Txn
    <2>3. txn' = [txn EXCEPT ![t] = [x EXCEPT !.state = "applying"]] \/ txn' = [txn EXCEPT ![t] = NoTxn]
      BY <1>5, TxnFacts DEF CommitValidate
    <2>4. txn' \in [Threads -> Txn]
      BY <2>2, <2>3, TxnFacts, NoTxnTyped
    <2> QED BY <1>0, <2>1, <2>4, UpdateElsewhere
  <1>6. CASE CommitApply(t)
    BY <1>6, CommitApplyStep
  <1>7. CASE CommitReturn(t)
    <2>1. UNCHANGED <<objects, next_ptr, ledger, history, clock, snap, patches>>
      BY <1>7 DEF CommitReturn, table, saved, env
    <2>2. txn' \in [Threads -> Txn]
      BY <1>7, TxnFacts, NoTxnTyped DEF CommitReturn
    <2> QED BY <1>0, <2>1, <2>2, UpdateElsewhere
  <1> QED BY <1>1, <1>2, <1>3, <1>4, <1>5, <1>6, <1>7 DEF Batch

\* The snapshot has what belongs together.
LEMMA SnapshotStep == ASSUME UpdateInv, ak_heap_snapshot PROVE UpdateInv'
  <1>1. snap'.objects = objects /\ snap'.next_ptr = next_ptr /\ snap'.applied = applied
    BY DEF ak_heap_snapshot
  <1>2. UNCHANGED <<objects, next_ptr, ledger, history, txn, clock, patches>>
    BY DEF ak_heap_snapshot, table, saved
  <1>3. /\ IsTable(snap'.objects) /\ snap'.next_ptr \in Nat \ {0} /\ snap'.applied \subseteq Applied
        /\ Belong(snap'.objects, snap'.next_ptr, snap'.applied)
    BY <1>1 DEF UpdateInv, TypeOK
  <1> QED BY <1>2, <1>3 DEF UpdateInv, TypeOK, ledger

\* After a reboot nothing is there.
LEMMA RebootStep == ASSUME UpdateInv, Reboot PROVE UpdateInv'
  <1>1. /\ objects' = <<>> /\ next_ptr' = 1 /\ applied' = {} /\ history' = <<>> /\ clock' = 1
        /\ txn' = [u \in Threads |-> NoTxn] /\ undone' = undone \cup applied /\ UNCHANGED <<snap, patches, acked>>
    BY DEF Reboot
  <1>2. DOMAIN <<>> = {}
    OBVIOUS
  <1>3. IsTable(<<>>) /\ Belong(<<>>, 1, {})
    BY <1>2 DEF IsTable, Belong
  <1>4. acked' \subseteq applied' \cup undone'
    BY <1>1 DEF UpdateInv
  <1>5. txn' \in [Threads -> Txn]
    BY <1>1, NoTxnTyped
  <1> QED BY <1>1, <1>2, <1>3, <1>4, <1>5 DEF UpdateInv, TypeOK

\* Every step keeps UpdateInv.
LEMMA UpdateStep == ASSUME UpdateInv, [Next]_vars PROVE UpdateInv'
  <1>0. patches \in Nat /\ clock \in Nat /\ txn \in [Threads -> Txn]
    BY DEF UpdateInv, TypeOK
  <1>1. CASE Single
    BY <1>1, SingleStep
  <1>2. ASSUME NEW t \in Threads, Batch(t) PROVE UpdateInv'
    BY <1>2, BatchStep
  <1>3. CASE ak_heap_snapshot
    BY <1>3, SnapshotStep
  <1>7. CASE Reboot
    BY <1>7, RebootStep
  <1>4. CASE ak_heap_restore
    <2>1. UNCHANGED <<history, clock, snap, txn, patches>>
      BY <1>4 DEF ak_heap_restore
    <2>2. HistoryTyped'
      BY <2>1 DEF UpdateInv, TypeOK, HistoryTyped
    <2>3. acked' \subseteq applied' \cup undone'
      <3>1. acked' = acked /\ undone' = (undone \cup applied) \ applied'
        BY <1>4 DEF ak_heap_restore
      <3> QED BY <3>1 DEF UpdateInv
    <2> QED BY <1>0, <1>4, <2>1, <2>2, <2>3, RestoreBelongs, UpdateKept
  <1>5. CASE Tick
    <2>1. UNCHANGED <<objects, next_ptr, ledger, history, txn, snap, patches>> /\ clock' \in Nat
      BY <1>0, <1>5 DEF Tick, table, saved
    <2> QED BY <1>0, <2>1, UpdateElsewhere
  <1>6. CASE UNCHANGED vars
    <2>1. UNCHANGED <<objects, next_ptr, ledger, history, txn, snap, patches, clock>>
      BY <1>6 DEF vars, table, saved, env
    <2> QED BY <1>0, <2>1, UpdateElsewhere
  <1> QED BY <1>1, <1>2, <1>3, <1>4, <1>5, <1>6, <1>7 DEF Next

\* What belongs together has lost no update.
LEMMA UpdateImplies == UpdateInv => NoLostUpdate
  <1> SUFFICES ASSUME UpdateInv PROVE NoLostUpdate
    OBVIOUS
  <1>1. Belong(objects, next_ptr, applied)
    BY DEF UpdateInv
  <1>2. ASSUME NEW p \in DOMAIN objects PROVE objects[p].value = ValueAt(p, objects[p].version)
    <2>1. {b \in applied : b.ptr = p} = {b \in applied : b.ptr = p /\ b.version <= objects[p].version}
      BY <1>1 DEF Belong
    <2> QED BY <1>1, <2>1 DEF Belong, ValueAt
  <1>3. ASSUME NEW a \in acked, a \notin undone, a.ptr \in DOMAIN objects
        PROVE  a.id \in objects[a.ptr].value
    <2>1. a \in applied
      BY <1>3 DEF UpdateInv
    <2> QED BY <1>1, <1>3, <2>1 DEF Belong
  <1> QED BY <1>1, <1>2, <1>3 DEF Belong, NoLostUpdate

\* "Version control prevents lost updates": the compare of ak_heap_write, repeated when
\* a batch is applied, keeps every patch that was accepted until a reboot or a restore
\* undoes it, for any number of threads and objects.
THEOREM UpdatesNeverLost == Spec => []NoLostUpdate
  <1>1. UpdateInv /\ [Next]_vars => UpdateInv'
    BY UpdateStep
  <1> QED BY <1>1, UpdateInit, UpdateImplies, PTL DEF Spec

-----------------------------------------------------------------------------
(* The history *)

\* The histories nothing is claimed of.
Apart == rewound \cup dangling

\* A history as a sequence.
LEMMA Entries ==
    ASSUME NEW h \in Seq(Entry)
    PROVE  /\ Len(h) \in Nat /\ DOMAIN h = 1..Len(h) /\ (h # <<>> => Len(h) >= 1)
           /\ \A i \in 1..Len(h) : h[i].version \in Nat \ {0}
  <1>1. Len(h) \in Nat /\ DOMAIN h = 1..Len(h)
    BY LenProperties
  <1>2. \A i \in 1..Len(h) : h[i] \in Entry
    BY ElementOfSeq
  <1>3. h # <<>> => Len(h) >= 1
    BY EmptySeq, <1>1
  <1> QED BY <1>1, <1>2, <1>3 DEF Entry

\* An entry in front.
LEMMA Prepend ==
    ASSUME NEW h \in Seq(Entry), NEW e \in Entry, NEW g, g = <<e>> \o h
    PROVE  /\ Len(g) = Len(h) + 1 /\ DOMAIN g = 1..(Len(h) + 1) /\ g # <<>>
           /\ g[1] = e /\ \A i \in 2..(Len(h) + 1) : g[i] = h[i - 1]
  <1>1. <<e>> \in Seq(Entry) /\ Len(<<e>>) = 1 /\ <<e>>[1] = e
    OBVIOUS
  <1>2. /\ g \in Seq(Entry) /\ Len(g) = 1 + Len(h)
        /\ \A i \in 1..(1 + Len(h)) : g[i] = IF i <= 1 THEN <<e>>[i] ELSE h[i - 1]
    BY <1>1, ConcatProperties
  <1>3. Len(h) \in Nat
    BY LenProperties
  <1>4. DOMAIN g = 1..(Len(h) + 1) /\ Len(g) = Len(h) + 1
    BY <1>2, <1>3, LenProperties
  <1>5. g # <<>>
    BY <1>3, <1>4
  <1>6. g[1] = e
    BY <1>1, <1>2, <1>3
  <1>7. \A i \in 2..(Len(h) + 1) : g[i] = h[i - 1]
    BY <1>2, <1>3
  <1> QED BY <1>4, <1>5, <1>6, <1>7

\* The version an operation replaces goes in front of the history.
LEMMA SavedInFront ==
    ASSUME NEW h \in Seq(Entry), NEW e \in Entry, NEW v \in Nat \ {0}, e.version = v,
           NewestFirst(h), UpTo(h, v)
    PROVE  NewestFirst(<<e>> \o h) /\ UpTo(<<e>> \o h, v + 1)
  <1> DEFINE g == <<e>> \o h
  <1>1. DOMAIN g = 1..(Len(h) + 1) /\ g[1] = e /\ \A i \in 2..(Len(h) + 1) : g[i] = h[i - 1]
    BY Prepend
  <1> HIDE DEF g
  <1>2. Len(h) \in Nat /\ DOMAIN h = 1..Len(h) /\ \A i \in 1..Len(h) : h[i].version \in Nat \ {0}
    BY Entries
  <1>3. ASSUME NEW i \in DOMAIN g, i # 1 PROVE i - 1 \in DOMAIN h /\ i \in 2..(Len(h) + 1) /\ g[i] = h[i - 1]
    BY <1>1, <1>2, <1>3
  <1>4. ASSUME NEW i \in DOMAIN g PROVE g[i].version < v + 1 \/ g[i].version = 1
    <2>1. CASE i = 1
      BY <1>1, <2>1
    <2>2. CASE i # 1
      BY <1>2, <1>3, <2>2 DEF UpTo
    <2> QED BY <2>1, <2>2
  <1>5. ASSUME NEW i \in DOMAIN g, NEW j \in DOMAIN g, i < j
        PROVE  g[j].version < g[i].version \/ g[j].version = 1
    <2>1. j # 1
      BY <1>1, <1>2, <1>5
    <2>2. CASE i = 1
      BY <1>1, <1>3, <2>1, <2>2 DEF UpTo
    <2>3. CASE i # 1
      <3>1. i - 1 < j - 1
        BY <1>1, <1>2, <1>5
      <3> QED BY <1>3, <2>1, <2>3, <3>1 DEF NewestFirst
    <2> QED BY <2>2, <2>3
  <1> QED BY <1>4, <1>5 DEF NewestFirst, UpTo, g

\* A write or a delete saves what it replaces, when memory allows.
LEMMA SaveOldStep ==
    ASSUME UpdateInv, HistoryInv, NEW p \in DOMAIN objects, SaveOld(p),
           UNCHANGED <<next_ptr, dangling, rewound>>, DOMAIN objects' = DOMAIN objects,
           \A q \in DOMAIN objects : q # p => objects'[q] = objects[q],
           objects'[p].version = objects[p].version + 1,
           \A a \in applied : a \in applied',
           \A a \in applied' : a \in applied \/ (a.ptr = p /\ a.version = objects[p].version + 1)
    PROVE  HistoryInv'
  <1> DEFINE v == objects[p].version
             x == objects[p].value
             e == [version |-> v, value |-> x]
             Ids(q, w, A) == {a.id : a \in {b \in A : b.ptr = q /\ b.version <= w}}
             Good(g, q, w) == /\ NewestFirst(g) /\ UpTo(g, w)
                              /\ \A i \in DOMAIN g : g[i].value = Ids(q, g[i].version, applied')
             h == HistoryOf(p)
  <1>0. /\ DOMAIN history \subseteq Nat /\ \A q \in DOMAIN history : history[q] \in Seq(Entry)
        /\ IsTable(objects) /\ applied \subseteq Applied /\ Belong(objects, next_ptr, applied)
        /\ next_ptr \in Nat
    BY DEF UpdateInv, TypeOK
  <1>1. p \in Nat \ {0} /\ v \in Nat \ {0} /\ x \in SUBSET Nat /\ p \in 1..(next_ptr - 1)
    <2>1. p \in Nat \ {0} /\ v \in Nat \ {0} /\ x \in SUBSET Nat
      BY <1>0, TableFacts
    <2>2. p < next_ptr
      BY <1>0 DEF Belong
    <2> QED BY <1>0, <2>1, <2>2
  <1>2. save_version(p, v, x) /\ x = Ids(p, v, applied)
    <2>1. x = ValueAt(p, v)
      BY UpdateImplies DEF NoLostUpdate
    <2> QED BY <2>1 DEF SaveOld, ValueAt
  <1>3. objects'[p].version = v + 1 /\ \A a \in applied' : a \in applied \/ (a.ptr = p /\ a.version = v + 1)
    OBVIOUS
  <1>4. e \in Entry /\ e.version = v /\ e.value = x
    BY <1>1 DEF Entry
  <1>5. (p \in DOMAIN history => h = history[p]) /\ (p \notin DOMAIN history => h = <<>>) /\ h \in Seq(Entry)
    BY <1>0 DEF HistoryOf
  <1>6. \A q \in DOMAIN history \ Apart :
          /\ NewestFirst(history[q])
          /\ \A i \in DOMAIN history[q] : history[q][i].value = Ids(q, history[q][i].version, applied)
          /\ q \in DOMAIN objects => UpTo(history[q], objects[q].version)
    BY DEF HistoryInv, Recorded, Apart
  <1>7. p \notin Apart => /\ NewestFirst(h) /\ UpTo(h, v)
                          /\ \A i \in DOMAIN h : h[i].value = Ids(p, h[i].version, applied)
    <2>1. CASE p \in DOMAIN history
      BY <1>5, <1>6, <2>1
    <2>2. CASE p \notin DOMAIN history
      BY <1>5, <2>2 DEF NewestFirst, UpTo
    <2> QED BY <2>1, <2>2
  <1> HIDE DEF v, x, h
  <1>8. \A w \in Nat : w <= v => Ids(p, w, applied') = Ids(p, w, applied)
    <2> TAKE w \in Nat
    <2> HAVE w <= v
    <2>1. ~(v + 1 <= w)
      BY <1>1
    <2>2. {b \in applied' : b.ptr = p /\ b.version <= w} = {b \in applied : b.ptr = p /\ b.version <= w}
      BY <1>3, <2>1
    <2> QED BY <2>2
  <1>9. \A q, w : q # p => Ids(q, w, applied') = Ids(q, w, applied)
    <2> TAKE q, w
    <2> HAVE q # p
    <2>1. {b \in applied' : b.ptr = q /\ b.version <= w} = {b \in applied : b.ptr = q /\ b.version <= w}
      BY <1>3
    <2> QED BY <2>1
  <1> HIDE DEF e, Ids
  <1>10. Len(h) \in Nat /\ DOMAIN h = 1..Len(h) /\ \A i \in DOMAIN h : h[i].version \in Nat \ {0}
    BY <1>5, Entries
  <1>11. p \notin Apart => Good(h, p, v + 1)
    <2> HAVE p \notin Apart
    <2>1. \A i \in DOMAIN h : h[i].version \in Nat /\ h[i].version <= v
      BY <1>1, <1>7, <1>10 DEF UpTo
    <2>2. \A i \in DOMAIN h : h[i].value = Ids(p, h[i].version, applied')
      BY <1>7, <1>8, <2>1
    <2>3. UpTo(h, v + 1)
      BY <1>1, <2>1 DEF UpTo
    <2> QED BY <1>7, <2>2, <2>3
  <1>12. p \notin Apart => Good(<<e>> \o h, p, v + 1)
    <2> HAVE p \notin Apart
    <2> DEFINE g == <<e>> \o h
    <2>1. NewestFirst(g) /\ UpTo(g, v + 1)
      BY <1>1, <1>4, <1>5, <1>7, SavedInFront
    <2>2. DOMAIN g = 1..(Len(h) + 1) /\ g[1] = e /\ \A i \in 2..(Len(h) + 1) : g[i] = h[i - 1]
      BY <1>4, <1>5, Prepend
    <2> HIDE DEF g
    <2>3. ASSUME NEW i \in DOMAIN g PROVE g[i].value = Ids(p, g[i].version, applied')
      <3>1. CASE i = 1
        BY <1>1, <1>2, <1>4, <1>8, <2>2, <3>1
      <3>2. CASE i # 1
        <4>1. i - 1 \in DOMAIN h /\ g[i] = h[i - 1]
          BY <1>10, <2>2, <3>2
        <4> QED BY <1>11, <4>1
      <3> QED BY <3>1, <3>2
    <2> QED BY <2>1, <2>3 DEF g
  <1>13. /\ DOMAIN history' \subseteq DOMAIN history \cup {p}
         /\ \A q \in DOMAIN history : q # p => history'[q] = history[q]
         /\ p \in DOMAIN history' => history'[p] = h \/ history'[p] = <<e>> \o h
    <2>1. CASE Saves(p, v, x)
      <3>1. /\ DOMAIN history' = DOMAIN history \cup {p}
            /\ \A q \in DOMAIN history : q # p => history'[q] = history[q]
            /\ history'[p] = <<[version |-> v, value |-> x]>> \o HistoryOf(p)
        BY <1>0, <1>1, <2>1, SaveHistory
      <3> QED BY <3>1 DEF e, h
    <2>2. CASE UNCHANGED history
      BY <1>5, <2>2
    <2> QED BY <1>2, <2>1, <2>2, SaveCases
  <1>14. ASSUME NEW q \in DOMAIN history', q \notin Apart
         PROVE  /\ NewestFirst(history'[q])
                /\ \A i \in DOMAIN history'[q] : history'[q][i].value = Ids(q, history'[q][i].version, applied')
                /\ q \in DOMAIN objects' => UpTo(history'[q], objects'[q].version)
    <2>1. CASE q = p
      <3>1. Good(history'[p], p, v + 1)
        BY <1>11, <1>12, <1>13, <1>14, <2>1
      <3> QED BY <1>3, <2>1, <3>1
    <2>2. CASE q # p
      <3>1. q \in DOMAIN history /\ history'[q] = history[q]
        BY <1>13, <2>2
      <3> QED BY <1>6, <1>9, <1>14, <2>2, <3>1
    <2> QED BY <2>1, <2>2
  <1>15. \A q \in DOMAIN history' : q \in 1..(next_ptr - 1)
    BY <1>1, <1>13 DEF HistoryInv
  <1> QED BY <1>14, <1>15 DEF HistoryInv, Recorded, Apart, Ids

\* A new object's history has the version it was made with, or nothing.
LEMMA AllocHistoryStep ==
    ASSUME UpdateInv, HistoryInv, NEW id \in Nat, Alloc(id) PROVE HistoryInv'
  <1> DEFINE p == next_ptr
             e == [version |-> 1, value |-> {id}]
             Ids(q, w, A) == {a.id : a \in {b \in A : b.ptr = q /\ b.version <= w}}
             o == [version |-> 1, value |-> {id}, deleted |-> FALSE, deleted_at |-> 0]
             r == [ptr |-> p, base |-> 0, version |-> 1, id |-> id]
  <1>0. /\ DOMAIN history \subseteq Nat /\ \A q \in DOMAIN history : history[q] \in Seq(Entry)
        /\ IsTable(objects) /\ applied \subseteq Applied /\ Belong(objects, p, applied)
        /\ p \in Nat \ {0}
    BY DEF UpdateInv, TypeOK
  <1>1. /\ save_version(p, 1, {id}) /\ objects' = Put(objects, p, o) /\ applied' = applied \cup {r}
        /\ next_ptr' = p + 1 /\ dangling' = dangling /\ rewound' = rewound
    BY DEF Alloc, Acknowledge
  <1>2. r.ptr = p /\ r.version = 1 /\ r.id = id /\ o.version = 1
    OBVIOUS
  <1>3. e \in Entry /\ e.version = 1 /\ e.value = {id} /\ {id} \in SUBSET Nat
    <2>1. {id} \in SUBSET Nat
      OBVIOUS
    <2> QED BY <2>1 DEF Entry
  <1> HIDE DEF p, o, r
  <1>4. \A q \in DOMAIN history : q \in 1..(p - 1)
    BY DEF HistoryInv, p
  <1>5. \A q \in DOMAIN history \ Apart :
          /\ NewestFirst(history[q])
          /\ \A i \in DOMAIN history[q] : history[q][i].value = Ids(q, history[q][i].version, applied)
          /\ q \in DOMAIN objects => UpTo(history[q], objects[q].version)
    BY DEF HistoryInv, Recorded, Apart
  <1>6. p \notin DOMAIN history /\ HistoryOf(p) = <<>>
    BY <1>0, <1>4 DEF HistoryOf
  <1>7. /\ DOMAIN history' \subseteq DOMAIN history \cup {p}
        /\ \A q \in DOMAIN history : history'[q] = history[q]
        /\ p \in DOMAIN history' => history'[p] = <<e>> \o <<>>
    <2>1. CASE Saves(p, 1, {id})
      <3>1. p \in Nat /\ 1 \in Nat \ {0}
        BY <1>0
      <3>2. /\ DOMAIN history' = DOMAIN history \cup {p}
            /\ \A q \in DOMAIN history : q # p => history'[q] = history[q]
            /\ history'[p] = <<[version |-> 1, value |-> {id}]>> \o HistoryOf(p)
        BY <1>0, <1>3, <2>1, <3>1, SaveHistory
      <3> QED BY <1>6, <3>2
    <2>2. CASE UNCHANGED history
      BY <1>6, <2>2
    <2> QED BY <1>1, <2>1, <2>2, SaveCases
  <1> HIDE DEF e
  <1> DEFINE g == <<e>> \o <<>>
  <1>8. DOMAIN g = {1} /\ g[1] = e
    <2>1. <<>> \in Seq(Entry) /\ Len(<<>>) = 0 /\ 1..(0 + 1) = {1}
      OBVIOUS
    <2>2. DOMAIN g = 1..(Len(<<>>) + 1) /\ g[1] = e
      BY <1>3, <2>1, Prepend
    <2> QED BY <2>1, <2>2
  <1> HIDE DEF g
  <1>9. NewestFirst(g) /\ UpTo(g, 1)
    BY <1>3, <1>8 DEF NewestFirst, UpTo
  <1>10. \A i \in DOMAIN g : g[i].value = Ids(p, g[i].version, applied')
    <2>1. \A a \in applied : a.ptr # p
      BY <1>0, AppliedFacts DEF Belong
    <2>2. {b \in applied' : b.ptr = p /\ b.version <= 1} = {r}
      BY <1>1, <1>2, <2>1
    <2>3. Ids(p, 1, applied') = {id}
      BY <1>2, <2>2
    <2> HIDE DEF Ids
    <2> QED BY <1>3, <1>8, <2>3
  <1>11. \A q, w : q # p => Ids(q, w, applied') = Ids(q, w, applied)
    <2> TAKE q, w
    <2> HAVE q # p
    <2>1. {b \in applied' : b.ptr = q /\ b.version <= w} = {b \in applied : b.ptr = q /\ b.version <= w}
      BY <1>1, <1>2
    <2> QED BY <2>1
  <1>12. /\ DOMAIN objects' = DOMAIN objects \cup {p} /\ objects'[p] = o
         /\ \A q \in DOMAIN objects : q # p => objects'[q] = objects[q]
    BY <1>1 DEF Put
  <1> HIDE DEF Ids
  <1>13. ASSUME NEW q \in DOMAIN history', q \notin Apart
         PROVE  /\ NewestFirst(history'[q])
                /\ \A i \in DOMAIN history'[q] : history'[q][i].value = Ids(q, history'[q][i].version, applied')
                /\ q \in DOMAIN objects' => UpTo(history'[q], objects'[q].version)
    <2>1. CASE q = p
      <3>1. history'[q] = g /\ objects'[q].version = 1
        BY <1>2, <1>7, <1>12, <2>1 DEF g
      <3> QED BY <1>9, <1>10, <2>1, <3>1
    <2>2. CASE q # p
      <3>1. q \in DOMAIN history /\ history'[q] = history[q]
        BY <1>7, <2>2
      <3>2. q \in DOMAIN objects' => q \in DOMAIN objects /\ objects'[q] = objects[q]
        BY <1>12, <2>2
      <3> QED BY <1>5, <1>11, <1>13, <2>2, <3>1, <3>2
    <2> QED BY <2>1, <2>2
  <1>14. \A q \in DOMAIN history' : q \in 1..(next_ptr' - 1)
    BY <1>0, <1>1, <1>4, <1>7
  <1> QED BY <1>1, <1>13, <1>14 DEF HistoryInv, Recorded, Apart, Ids

\* An operation on an object, alone or in a commit.
LEMMA ApplyHistory ==
    ASSUME UpdateInv, HistoryInv, NEW id \in Nat, NEW p, NEW v,
           Alloc(id) \/ Write(p, v, id) \/ Delete(p, v)
    PROVE  HistoryInv'
  <1>0. IsTable(objects) /\ clock \in Nat
    BY DEF UpdateInv, TypeOK
  <1>1. CASE Alloc(id)
    BY <1>1, AllocHistoryStep
  <1>2. CASE Write(p, v, id)
    <2> DEFINE r == [ptr |-> p, base |-> v, version |-> objects[p].version + 1, id |-> id]
    <2>1. /\ p \in DOMAIN objects /\ SaveOld(p) /\ UNCHANGED <<next_ptr, dangling, rewound>>
          /\ objects' = [objects EXCEPT ![p].value = @ \cup {id}, ![p].version = @ + 1]
          /\ applied' = applied \cup {r}
      BY <1>2 DEF Write, Matches, Present, Acknowledge
    <2>2. r.ptr = p /\ r.version = objects[p].version + 1
      OBVIOUS
    <2> HIDE DEF r
    <2>3. DOMAIN objects' = DOMAIN objects /\ \A q \in DOMAIN objects : q # p => objects'[q] = objects[q]
      BY <2>1
    <2>4. objects'[p].version = objects[p].version + 1
      <3>1. objects'[p] = [objects[p] EXCEPT !.value = @ \cup {id}, !.version = @ + 1]
        BY <2>1
      <3> QED BY ZenonT(30), <1>0, <2>1, <3>1, TableFacts, Written
    <2>5. /\ \A a \in applied : a \in applied'
          /\ \A a \in applied' : a \in applied \/ (a.ptr = p /\ a.version = objects[p].version + 1)
      BY <2>1, <2>2
    <2> QED BY <2>1, <2>3, <2>4, <2>5, SaveOldStep
  <1>3. CASE Delete(p, v)
    <2>1. /\ p \in DOMAIN objects /\ SaveOld(p) /\ UNCHANGED <<next_ptr, dangling, rewound, applied>>
          /\ objects' = [objects EXCEPT ![p].deleted = TRUE, ![p].version = @ + 1, ![p].deleted_at = clock]
      BY <1>3 DEF Delete, Matches, Present, ledger
    <2>3. DOMAIN objects' = DOMAIN objects /\ \A q \in DOMAIN objects : q # p => objects'[q] = objects[q]
      BY <2>1
    <2>4. objects'[p].version = objects[p].version + 1
      <3> DEFINE o == objects[p]
      <3>1. objects'[p] = [o EXCEPT !.deleted = TRUE, !.version = @ + 1, !.deleted_at = clock]
        BY <2>1
      <3>2. o \in Object
        BY <1>0, <2>1, TableFacts
      <3>3. [o EXCEPT !.deleted = TRUE, !.version = @ + 1, !.deleted_at = clock].version = o.version + 1
        BY <1>0, <3>2, Deleted
      <3> QED BY <3>1, <3>3
    <2>5. /\ \A a \in applied : a \in applied'
          /\ \A a \in applied' : a \in applied \/ (a.ptr = p /\ a.version = objects[p].version + 1)
      BY <2>1
    <2> QED BY <2>1, <2>3, <2>4, <2>5, SaveOldStep
  <1> QED BY <1>1, <1>2, <1>3

\* A history that is cut keeps its newest entries, in their order.
LEMMA CutHistory ==
    ASSUME NEW h \in Seq(Entry), NEW k \in Nat, Len(h) > k, NewestFirst(h), NEW g, g = SubSeq(h, 1, k)
    PROVE  /\ NewestFirst(g) /\ DOMAIN g \subseteq DOMAIN h /\ \A i \in DOMAIN g : g[i] = h[i]
           /\ \A v : UpTo(h, v) => UpTo(g, v)
  <1>1. Len(h) \in Nat /\ DOMAIN h = 1..Len(h)
    BY Entries
  <1>2. DOMAIN g = 1..k /\ \A i \in 1..k : g[i] = h[i]
    BY <1>1
  <1>3. DOMAIN g \subseteq DOMAIN h /\ \A i \in DOMAIN g : g[i] = h[i]
    BY <1>1, <1>2
  <1> QED BY <1>3 DEF NewestFirst, UpTo

\* Versions are purged down to k entries each; k = 0 leaves a list nothing is claimed of.
LEMMA PurgeHistory ==
    ASSUME UpdateInv, HistoryInv, ak_heap_purge_versions PROVE HistoryInv'
  <1>1. PICK k \in KeepCounts :
          /\ history' = [p \in DOMAIN history |->
                IF p \in {q \in DOMAIN history : Len(history[q]) > k} THEN SubSeq(history[p], 1, k) ELSE history[p]]
          /\ dangling' = IF k = 0 THEN dangling \cup {q \in DOMAIN history : Len(history[q]) > k} ELSE dangling
    BY DEF ak_heap_purge_versions
  <1>2. k \in Nat /\ dangling \subseteq dangling'
    BY <1>1, HeapAssumption
  <1>3. UNCHANGED <<objects, next_ptr, applied, rewound>>
    BY DEF ak_heap_purge_versions, table, ledger
  <1>4. \A q \in DOMAIN history : history[q] \in Seq(Entry)
    BY DEF UpdateInv, TypeOK
  <1>5. ASSUME NEW p \in DOMAIN history, p \notin rewound \cup dangling
        PROVE  /\ NewestFirst(history'[p]) /\ Recorded(history'[p], p, applied)
               /\ p \in DOMAIN objects => UpTo(history'[p], objects[p].version)
    <2> DEFINE h == history[p]
               g == history'[p]
    <2>0. /\ NewestFirst(h) /\ Recorded(h, p, applied)
          /\ p \in DOMAIN objects => UpTo(h, objects[p].version)
      BY <1>5 DEF HistoryInv
    <2>1. CASE Len(h) > k
      <3>1. g = SubSeq(h, 1, k) /\ h \in Seq(Entry)
        BY <1>1, <1>4, <2>1
      <3> HIDE DEF h, g
      <3>2. /\ NewestFirst(g) /\ DOMAIN g \subseteq DOMAIN h /\ \A i \in DOMAIN g : g[i] = h[i]
            /\ \A v : UpTo(h, v) => UpTo(g, v)
        <4>1. k \in Nat /\ NewestFirst(h) /\ Len(h) > k
          BY <1>2, <2>0, <2>1
        <4> QED BY <3>1, <4>1, CutHistory
      <3>3. Recorded(g, p, applied)
        BY <2>0, <3>2 DEF Recorded
      <3> QED BY <2>0, <3>2, <3>3 DEF g
    <2>2. CASE ~(Len(h) > k)
      <3>1. g = h
        BY <1>1, <2>2
      <3> QED BY <2>0, <3>1
    <2> QED BY <2>1, <2>2
  <1>6. DOMAIN history' = DOMAIN history
    BY <1>1
  <1>7. \A p \in DOMAIN history' : p \in 1..(next_ptr' - 1)
    BY <1>3, <1>6 DEF HistoryInv
  <1> QED BY <1>2, <1>3, <1>5, <1>6, <1>7 DEF HistoryInv

\* An object that a restore leaves alone keeps its history.
LEMMA RestoreHistory ==
    ASSUME UpdateInv, HistoryInv, ak_heap_restore PROVE HistoryInv'
  <1>1. PICK S \in SUBSET DOMAIN snap.objects :
          /\ objects' = [p \in DOMAIN objects \cup S |-> IF p \in S THEN snap.objects[p] ELSE objects[p]]
          /\ rewound' = rewound \cup (S \cap DOMAIN history)
          /\ applied' = {a \in applied : a.ptr \notin S} \cup {a \in snap.applied : a.ptr \in S}
    BY DEF ak_heap_restore
  <1>2. UNCHANGED <<history, dangling>>
    BY DEF ak_heap_restore
  <1>3. next_ptr \in Nat /\ next_ptr' \in Nat /\ next_ptr <= next_ptr'
    BY RestoreBelongs DEF UpdateInv, TypeOK
  <1>4. \A p \in DOMAIN history' : p \in 1..(next_ptr' - 1)
    BY <1>2, <1>3 DEF HistoryInv
  <1>5. ASSUME NEW p \in DOMAIN history', p \notin rewound' \cup dangling'
        PROVE  /\ NewestFirst(history[p]) /\ Recorded(history[p], p, applied')
               /\ p \in DOMAIN objects' => UpTo(history[p], objects'[p].version)
    <2>1. p \in DOMAIN history /\ p \notin rewound \cup dangling /\ p \notin S
      BY <1>1, <1>2, <1>5
    <2>2. p \in DOMAIN objects' => p \in DOMAIN objects /\ objects'[p] = objects[p]
      BY <1>1, <2>1
    <2>3. \A w : {b \in applied' : b.ptr = p /\ b.version <= w} = {b \in applied : b.ptr = p /\ b.version <= w}
      BY <1>1, <2>1
    <2>4. /\ NewestFirst(history[p]) /\ Recorded(history[p], p, applied)
          /\ p \in DOMAIN objects => UpTo(history[p], objects[p].version)
      BY <2>1 DEF HistoryInv
    <2>5. Recorded(history[p], p, applied')
      BY <2>3, <2>4 DEF Recorded
    <2> QED BY <2>2, <2>4, <2>5
  <1> QED BY <1>2, <1>4, <1>5 DEF HistoryInv

\* A step that leaves the history alone, and the versions of the objects that stay.
LEMMA HistoryElsewhere ==
    ASSUME HistoryInv, UNCHANGED <<history, dangling, rewound, applied, next_ptr>>,
           DOMAIN objects' \subseteq DOMAIN objects, \A p \in DOMAIN objects' : objects'[p] = objects[p]
    PROVE  HistoryInv'
  BY DEF HistoryInv

\* No ptr has a history.
LEMMA NoHistory == ASSUME DOMAIN history' = {} PROVE HistoryInv'
  BY DEF HistoryInv

\* Every step keeps HistoryInv.
LEMMA HistoryStep == ASSUME UpdateInv, HistoryInv, [Next]_vars PROVE HistoryInv'
  <1>0. patches + 1 \in Nat /\ 0 \in Nat
    BY DEF UpdateInv, TypeOK
  <1>1. CASE ak_heap_alloc
    BY <1>0, <1>1, ApplyHistory DEF ak_heap_alloc
  <1>2. CASE ak_heap_write
    BY <1>0, <1>2, ApplyHistory DEF ak_heap_write
  <1>3. CASE ak_heap_delete
    BY <1>0, <1>3, ApplyHistory DEF ak_heap_delete
  <1>4. CASE ak_heap_purge_versions
    BY <1>4, PurgeHistory
  <1>5. CASE ak_heap_purge_tombstones
    <2>1. UNCHANGED <<history, dangling, rewound, applied, next_ptr>>
      BY <1>5 DEF ak_heap_purge_tombstones, saved, ledger
    <2>2. PICK gone : objects' = [p \in DOMAIN objects \ gone |-> objects[p]]
      BY <1>5 DEF ak_heap_purge_tombstones
    <2> QED BY <2>1, <2>2, HistoryElsewhere
  <1>6. ASSUME NEW t \in Threads, CommitApply(t) PROVE HistoryInv'
    <2> DEFINE op == txn[t].ops[txn[t].at]
    <2>1. op.id \in Nat
      <3>1. txn[t].at <= Len(txn[t].ops)
        BY <1>6 DEF CommitApply
      <3>2. txn[t].at \in 1..Len(txn[t].ops)
        BY <3>1, TxnFacts
      <3>3. op \in Op
        BY <3>2, TxnFacts, ElementOfSeq
      <3> QED BY <3>3 DEF Op
    <2>2. \/ Alloc(op.id) \/ Write(op.ptr, op.version, op.id) \/ Delete(op.ptr, op.version)
          \/ UNCHANGED <<objects, next_ptr, applied, history, dangling, rewound>>
      BY <1>6 DEF CommitApply, table, saved, ledger
    <2> HIDE DEF op
    <2>3. CASE Alloc(op.id) \/ Write(op.ptr, op.version, op.id) \/ Delete(op.ptr, op.version)
      BY <2>1, <2>3, ApplyHistory
    <2>4. CASE UNCHANGED <<objects, next_ptr, applied, history, dangling, rewound>>
      BY <2>4, HistoryElsewhere
    <2> QED BY <2>2, <2>3, <2>4
  <1>7. CASE Reboot
    <2>1. history' = <<>>
      BY <1>7 DEF Reboot
    <2> QED BY <2>1, NoHistory
  <1>8. CASE ak_heap_restore
    BY <1>8, RestoreHistory
  <1>9. ASSUME UNCHANGED <<objects, next_ptr, applied, history, dangling, rewound>> PROVE HistoryInv'
    BY <1>9, HistoryElsewhere
  <1>10. CASE PurgeStart \/ ak_heap_snapshot \/ Tick \/ UNCHANGED vars
    <2>1. UNCHANGED <<objects, next_ptr, applied, history, dangling, rewound>>
      BY <1>10 DEF PurgeStart, ak_heap_snapshot, Tick, vars, table, saved, ledger
    <2> QED BY <1>9, <2>1
  <1>11. ASSUME NEW t \in Threads, Batch(t), ~CommitApply(t) PROVE HistoryInv'
    <2>1. UNCHANGED <<objects, next_ptr, applied, history, dangling, rewound>>
      BY <1>11 DEF Batch, ak_heap_txn_begin, ak_heap_txn_alloc, ak_heap_txn_write, ak_heap_txn_delete,
                   Buffer, CommitValidate, CommitReturn, table, saved, ledger
    <2> QED BY <1>9, <2>1
  <1> QED BY <1>1, <1>2, <1>3, <1>4, <1>5, <1>6, <1>7, <1>8, <1>10, <1>11 DEF Next, Single

\* HistoryInv says what ak_heap_read_version relies on.
LEMMA HistoryImplies == HistoryInv => HistoryFaithful
  BY DEF HistoryInv, HistoryFaithful, Recorded, ValueAt

\* ak_heap_read_version returns what an object was at that version or nothing, for every
\* history that save_version and ak_heap_purge_versions can make, memory failing anywhere,
\* as long as no restore has replaced the object and no keep_count of 0 has cut the list.
THEOREM HistoryAlwaysFaithful == Spec => []HistoryFaithful
  <1>1. Init => HistoryInv
    <2> SUFFICES ASSUME Init PROVE HistoryInv
      OBVIOUS
    <2>1. DOMAIN history = {}
      BY DEF Init, Empty
    <2> QED BY <2>1 DEF HistoryInv
  <1>2. UpdateInv /\ [Next]_vars => UpdateInv'
    BY UpdateStep
  <1>3. UpdateInv /\ HistoryInv /\ [Next]_vars => HistoryInv'
    BY HistoryStep
  <1> QED BY <1>1, <1>2, <1>3, UpdateInit, HistoryImplies, PTL DEF Spec

-----------------------------------------------------------------------------
(* The counts *)

\* Two sets that have nothing in common.
LEMMA DisjointCount ==
    ASSUME NEW S, IsFiniteSet(S), NEW T, IsFiniteSet(T), S \cap T = {}
    PROVE  /\ IsFiniteSet(S \cup T) /\ Cardinality(S \cup T) = Cardinality(S) + Cardinality(T)
           /\ Cardinality(S) \in Nat /\ Cardinality(T) \in Nat
  <1>1. /\ IsFiniteSet(S \cup T)
        /\ Cardinality(S \cup T) = Cardinality(S) + Cardinality(T) - Cardinality(S \cap T)
    BY FS_Union
  <1>2. Cardinality(S \cap T) = 0
    BY FS_EmptySet
  <1>3. Cardinality(S) \in Nat /\ Cardinality(T) \in Nat
    BY FS_CardinalityType
  <1> QED BY <1>1, <1>2, <1>3

\* A set without a part of it.
LEMMA RestCount ==
    ASSUME NEW S, IsFiniteSet(S), NEW T, T \subseteq S
    PROVE  /\ IsFiniteSet(S \ T) /\ IsFiniteSet(T) /\ Cardinality(S \ T) = Cardinality(S) - Cardinality(T)
           /\ Cardinality(S) \in Nat /\ Cardinality(T) \in Nat
  <1>1. IsFiniteSet(S \ T) /\ IsFiniteSet(T) /\ Cardinality(S) \in Nat
    BY FS_Subset, FS_CardinalityType
  <1>2. (S \ T) \cap T = {} /\ (S \ T) \cup T = S
    OBVIOUS
  <1>3. /\ Cardinality((S \ T) \cup T) = Cardinality(S \ T) + Cardinality(T)
        /\ Cardinality(S \ T) \in Nat /\ Cardinality(T) \in Nat
    BY <1>1, <1>2, DisjointCount
  <1>4. Cardinality(S) = Cardinality(S \ T) + Cardinality(T)
    BY <1>2, <1>3, Zenon
  <1> QED BY <1>1, <1>3, <1>4

\* A table is finite: its ptrs are below the generator.
LEMMA TableFinite ==
    ASSUME NEW T, IsTable(T), NEW n \in Nat, \A p \in DOMAIN T : p < n
    PROVE  IsFiniteSet(DOMAIN T) /\ IsFiniteSet(Dead(T)) /\ Dead(T) \subseteq DOMAIN T
  <1>1. DOMAIN T \in SUBSET Nat /\ \A p \in DOMAIN T : p <= n
    BY DEF IsTable
  <1>2. IsFiniteSet(DOMAIN T)
    BY <1>1, FS_BoundedSetOfNaturals
  <1>3. Dead(T) \subseteq DOMAIN T
    BY DEF Dead
  <1> QED BY <1>2, <1>3, FS_Subset

\* One entry more in one history is one cell more.
LEMMA SaveCells ==
    ASSUME DOMAIN history \subseteq Nat, \A q \in DOMAIN history : history[q] \in Seq(Entry),
           NEW p \in Nat, NEW v \in Nat \ {0}, NEW value \in SUBSET Nat, Saves(p, v, value),
           IsFiniteSet(Cells(history))
    PROVE  IsFiniteSet(Cells(history')) /\ Cardinality(Cells(history')) = Cardinality(Cells(history)) + 1
  <1> DEFINE h == HistoryOf(p)
             e == [version |-> v, value |-> value]
             c == <<p, Len(h) + 1>>
  <1>1. /\ DOMAIN history' = DOMAIN history \cup {p}
        /\ \A q \in DOMAIN history : q # p => history'[q] = history[q]
        /\ history'[p] = <<e>> \o h /\ h \in Seq(Entry)
    BY SaveHistory
  <1>2. e \in Entry
    BY DEF Entry
  <1>3. Len(h) \in Nat /\ DOMAIN history'[p] = 1..(Len(h) + 1)
    BY <1>1, <1>2, Prepend, LenProperties
  <1>4. p \in DOMAIN history => DOMAIN history[p] = 1..Len(h)
    BY LenProperties DEF HistoryOf
  <1>5. p \notin DOMAIN history => Len(h) = 0
    BY DEF HistoryOf
  <1> HIDE DEF h, e
  <1>6. Cells(history') = Cells(history) \cup {c}
    <2>1. \A q \in DOMAIN history' : q # p => q \in DOMAIN history /\ DOMAIN history'[q] = DOMAIN history[q]
      BY <1>1
    <2>2. \A i : i \in 1..(Len(h) + 1) <=> i \in 1..Len(h) \/ i = Len(h) + 1
      BY <1>3
    <2>3. ASSUME NEW x \in Cells(history') PROVE x \in Cells(history) \cup {c}
      <3>1. PICK q, i : q \in DOMAIN history' /\ i \in DOMAIN history'[q] /\ x = <<q, i>>
        BY <2>3 DEF Cells
      <3>2. CASE q # p
        BY <2>1, <3>1, <3>2 DEF Cells
      <3>3. CASE q = p /\ i = Len(h) + 1
        BY <3>1, <3>3
      <3>4. CASE q = p /\ i # Len(h) + 1
        <4>1. i \in 1..Len(h)
          BY <1>3, <2>2, <3>1, <3>4
        <4>2. p \in DOMAIN history
          BY <1>3, <1>5, <4>1
        <4> QED BY <1>4, <3>1, <3>4, <4>1, <4>2 DEF Cells
      <3> QED BY <3>2, <3>3, <3>4
    <2>4. ASSUME NEW x \in Cells(history) PROVE x \in Cells(history')
      <3>1. PICK q, i : q \in DOMAIN history /\ i \in DOMAIN history[q] /\ x = <<q, i>>
        BY <2>4 DEF Cells
      <3>2. q \in DOMAIN history' /\ i \in DOMAIN history'[q]
        BY <1>1, <1>3, <1>4, <2>1, <2>2, <3>1
      <3> QED BY <3>1, <3>2 DEF Cells
    <2>5. c \in Cells(history')
      BY <1>1, <1>3, <2>2 DEF Cells
    <2> QED BY <2>3, <2>4, <2>5
  <1>7. c \notin Cells(history)
    <2> SUFFICES ASSUME c \in Cells(history) PROVE FALSE
      OBVIOUS
    <2>1. PICK q, i : q \in DOMAIN history /\ i \in DOMAIN history[q] /\ c = <<q, i>>
      BY DEF Cells
    <2>2. p \in DOMAIN history /\ Len(h) + 1 \in DOMAIN history[p]
      BY <2>1
    <2> QED BY <1>3, <1>4, <2>2
  <1> HIDE DEF c
  <1>9. IsFiniteSet(Cells(history) \cup {c}) /\ Cardinality(Cells(history) \cup {c}) = Cardinality(Cells(history)) + 1
    BY <1>7, FS_AddElement
  <1> QED BY <1>6, <1>9

\* save_version counts the entry it makes.
LEMMA SaveCounts ==
    ASSUME DOMAIN history \subseteq Nat, \A q \in DOMAIN history : history[q] \in Seq(Entry),
           NEW p \in Nat, NEW v \in Nat \ {0}, NEW value \in SUBSET Nat, save_version(p, v, value),
           IsFiniteSet(Cells(history)), dangling' = dangling,
           dangling = {} => version_count = Cardinality(Cells(history))
    PROVE  /\ IsFiniteSet(Cells(history')) /\ (dangling' = {} => version_count' = Cardinality(Cells(history')))
           /\ DOMAIN history' \subseteq DOMAIN history \cup {p}
  <1>1. CASE Saves(p, v, value) /\ version_count' = version_count + 1
    <2>1. IsFiniteSet(Cells(history')) /\ Cardinality(Cells(history')) = Cardinality(Cells(history)) + 1
      BY <1>1, SaveCells
    <2>2. DOMAIN history' = DOMAIN history \cup {p}
      BY <1>1 DEF Saves, Put
    <2> QED BY <1>1, <2>1, <2>2
  <1>2. CASE UNCHANGED <<history, version_count>>
    BY <1>2
  <1> QED BY <1>1, <1>2, SaveCases

\* An operation on an object, alone or in a commit.
LEMMA ApplyCounts ==
    ASSUME UpdateInv, CountInv, NEW id \in Nat, NEW p, NEW v,
           Alloc(id) \/ Write(p, v, id) \/ Delete(p, v)
    PROVE  CountInv'
  <1>0. /\ IsTable(objects) /\ next_ptr \in Nat \ {0} /\ DOMAIN history \subseteq Nat
        /\ \A q \in DOMAIN history : history[q] \in Seq(Entry)
        /\ clock \in Nat
    BY DEF UpdateInv, TypeOK
  <1>1. /\ object_count = Cardinality(DOMAIN objects) /\ deleted_count = Cardinality(Dead(objects))
        /\ (dangling = {} => version_count = Cardinality(Cells(history))) /\ IsFiniteSet(Cells(history))
        /\ \A q \in DOMAIN objects \cup DOMAIN history : q < next_ptr
    BY DEF CountInv, CountsAccurate
  <1>2. IsFiniteSet(DOMAIN objects) /\ IsFiniteSet(Dead(objects))
    BY <1>0, <1>1, TableFinite
  <1>3. CASE Alloc(id)
    <2> DEFINE n == next_ptr
               o == [version |-> 1, value |-> {id}, deleted |-> FALSE, deleted_at |-> 0]
    <2>1. /\ next_ptr' = n + 1 /\ objects' = Put(objects, n, o) /\ object_count' = object_count + 1
          /\ save_version(n, 1, {id}) /\ deleted_count' = deleted_count /\ dangling' = dangling
      BY <1>3 DEF Alloc, Acknowledge
    <2>2. o.deleted = FALSE
      OBVIOUS
    <2> HIDE DEF o
    <2>3. /\ DOMAIN objects' = DOMAIN objects \cup {n} /\ objects'[n] = o
          /\ \A q \in DOMAIN objects : q # n => objects'[q] = objects[q]
      BY <2>1 DEF Put
    <2>4. n \notin DOMAIN objects
      BY <1>0, <1>1
    <2>5. object_count' = Cardinality(DOMAIN objects')
      BY <1>1, <1>2, <2>1, <2>3, <2>4, FS_AddElement
    <2>6. Dead(objects') = Dead(objects)
      BY <2>2, <2>3, <2>4 DEF Dead
    <2>7. n \in Nat /\ 1 \in Nat \ {0} /\ {id} \in SUBSET Nat
      BY <1>0
    <2>8. /\ IsFiniteSet(Cells(history')) /\ (dangling' = {} => version_count' = Cardinality(Cells(history')))
          /\ DOMAIN history' \subseteq DOMAIN history \cup {n}
      BY <1>0, <1>1, <2>1, <2>7, SaveCounts
    <2>10. \A q \in DOMAIN objects' \cup DOMAIN history' : q < next_ptr'
      <3>1. \A q \in DOMAIN objects \cup DOMAIN history : q \in Nat /\ q < n
        BY <1>0, <1>1, TableFacts
      <3> QED BY <2>1, <2>3, <2>7, <2>8, <3>1
    <2> QED BY <1>1, <2>1, <2>5, <2>6, <2>8, <2>10 DEF CountInv, CountsAccurate
  <1>4. ASSUME p \in DOMAIN objects, SaveOld(p), UNCHANGED <<next_ptr, object_count, dangling>>, DOMAIN objects' = DOMAIN objects,
               deleted_count' = Cardinality(Dead(objects'))
        PROVE  CountInv'
    <2>1. p \in Nat /\ objects[p].version \in Nat \ {0} /\ objects[p].value \in SUBSET Nat
      BY <1>0, <1>4, TableFacts
    <2>2. save_version(p, objects[p].version, objects[p].value)
      BY <1>4 DEF SaveOld
    <2>3. /\ IsFiniteSet(Cells(history')) /\ (dangling' = {} => version_count' = Cardinality(Cells(history')))
          /\ DOMAIN history' \subseteq DOMAIN history \cup {p}
      BY <1>0, <1>1, <1>4, <2>1, <2>2, SaveCounts
    <2> QED BY <1>1, <1>4, <2>3 DEF CountInv, CountsAccurate
  <1>5. CASE Write(p, v, id)
    <2>1. /\ p \in DOMAIN objects /\ SaveOld(p) /\ UNCHANGED <<next_ptr, object_count, deleted_count, dangling>>
          /\ objects' = [objects EXCEPT ![p].value = @ \cup {id}, ![p].version = @ + 1]
      BY <1>5 DEF Write, Matches, Present, Acknowledge
    <2>2. DOMAIN objects' = DOMAIN objects /\ \A q \in DOMAIN objects : q # p => objects'[q] = objects[q]
      BY <2>1
    <2>3. objects'[p].deleted = objects[p].deleted
      <3> DEFINE o == objects[p]
      <3>1. objects'[p] = [o EXCEPT !.value = @ \cup {id}, !.version = @ + 1]
        BY <2>1
      <3>2. o \in Object
        BY <1>0, <2>1, TableFacts
      <3>3. [o EXCEPT !.value = @ \cup {id}, !.version = @ + 1].deleted = o.deleted
        BY <3>2, Written
      <3> QED BY <3>1, <3>3
    <2>4. Dead(objects') = Dead(objects)
      BY <2>2, <2>3 DEF Dead
    <2> QED BY <1>1, <1>4, <2>1, <2>2, <2>4
  <1>6. CASE Delete(p, v)
    <2>1. /\ p \in DOMAIN objects /\ ~objects[p].deleted /\ SaveOld(p) /\ UNCHANGED <<next_ptr, object_count, dangling>>
          /\ deleted_count' = deleted_count + 1
          /\ objects' = [objects EXCEPT ![p].deleted = TRUE, ![p].version = @ + 1, ![p].deleted_at = clock]
      BY <1>6 DEF Delete, Matches, Present
    <2>2. DOMAIN objects' = DOMAIN objects /\ \A q \in DOMAIN objects : q # p => objects'[q] = objects[q]
      BY <2>1
    <2>3. objects'[p].deleted
      <3> DEFINE o == objects[p]
      <3>1. objects'[p] = [o EXCEPT !.deleted = TRUE, !.version = @ + 1, !.deleted_at = clock]
        BY <2>1
      <3>2. o \in Object
        BY <1>0, <2>1, TableFacts
      <3>3. [o EXCEPT !.deleted = TRUE, !.version = @ + 1, !.deleted_at = clock].deleted = TRUE
        BY <1>0, <3>2, Deleted
      <3> QED BY <3>1, <3>3
    <2>4. Dead(objects') = Dead(objects) \cup {p} /\ p \notin Dead(objects)
      BY <2>1, <2>2, <2>3 DEF Dead
    <2>5. deleted_count' = Cardinality(Dead(objects'))
      BY <1>1, <1>2, <2>1, <2>4, FS_AddElement
    <2> QED BY <1>4, <2>1, <2>2, <2>5
  <1> QED BY <1>3, <1>5, <1>6

\* ak_heap_purge_versions counts what it frees.
LEMMA PurgeCounts ==
    ASSUME UpdateInv, CountInv, ak_heap_purge_versions PROVE CountInv'
  <1>0. DOMAIN history \subseteq Nat /\ \A q \in DOMAIN history : history[q] \in Seq(Entry)
    BY DEF UpdateInv, TypeOK
  <1> DEFINE cut(k) == {p \in DOMAIN history : Len(history[p]) > k}
             freed(k) == UNION {{p} \X ((k + 1)..Len(history[p])) : p \in cut(k)}
  <1>1. PICK k \in KeepCounts :
          /\ history' = [p \in DOMAIN history |->
                IF p \in cut(k) THEN SubSeq(history[p], 1, k) ELSE history[p]]
          /\ cut(k) \cap dangling = {} => version_count' = version_count - Cardinality(freed(k))
          /\ dangling \subseteq dangling'
    BY DEF ak_heap_purge_versions
  <1>2. k \in Nat
    BY HeapAssumption
  <1>3. \A p \in DOMAIN history : Len(history[p]) \in Nat /\ DOMAIN history[p] = 1..Len(history[p])
    BY <1>0, LenProperties
  <1>4. DOMAIN history' = DOMAIN history
    BY <1>1
  <1>5. ASSUME NEW p \in DOMAIN history
        PROVE  \A i : i \in DOMAIN history'[p] <=> i \in DOMAIN history[p] /\ ~(p \in cut(k) /\ i \in (k + 1)..Len(history[p]))
    <2>1. CASE p \in cut(k)
      <3>1. history'[p] = SubSeq(history[p], 1, k) /\ Len(history[p]) > k
        BY <1>1, <2>1
      <3>2. DOMAIN history'[p] = 1..k
        BY <1>0, <1>2, <1>3, <3>1
      <3>3. \A i : i \in 1..k <=> i \in 1..Len(history[p]) /\ ~(i \in (k + 1)..Len(history[p]))
        BY <1>2, <1>3, <3>1
      <3> QED BY <1>3, <2>1, <3>2, <3>3
    <2>2. CASE p \notin cut(k)
      BY <1>1, <2>2
    <2> QED BY <2>1, <2>2
  <1>6. \A x : x \in freed(k) <=> \E p \in cut(k) : \E i \in (k + 1)..Len(history[p]) : x = <<p, i>>
    OBVIOUS
  <1>7. \A x : x \in Cells(history) <=> \E p \in DOMAIN history : \E i \in DOMAIN history[p] : x = <<p, i>>
    BY DEF Cells
  <1>8. \A x : x \in Cells(history') <=> \E p \in DOMAIN history' : \E i \in DOMAIN history'[p] : x = <<p, i>>
    BY DEF Cells
  <1>9. cut(k) \subseteq DOMAIN history
    OBVIOUS
  <1>10. freed(k) \subseteq Cells(history)
    <2>1. \A p \in cut(k) : \A i \in (k + 1)..Len(history[p]) : i \in DOMAIN history[p]
      BY <1>2, <1>3, <1>9
    <2> HIDE DEF cut, freed
    <2> QED BY <1>6, <1>7, <1>9, <2>1
  <1> HIDE DEF cut, freed
  <1>11. Cells(history') = Cells(history) \ freed(k)
    <2>1. ASSUME NEW x \in Cells(history') PROVE x \in Cells(history) /\ x \notin freed(k)
      <3>1. PICK p, i : p \in DOMAIN history /\ i \in DOMAIN history'[p] /\ x = <<p, i>>
        BY <1>4, <1>8, <2>1
      <3>2. i \in DOMAIN history[p] /\ ~(p \in cut(k) /\ i \in (k + 1)..Len(history[p]))
        BY <1>5, <3>1
      <3> QED BY <1>6, <1>7, <3>1, <3>2
    <2>2. ASSUME NEW x \in Cells(history), x \notin freed(k) PROVE x \in Cells(history')
      <3>1. PICK p, i : p \in DOMAIN history /\ i \in DOMAIN history[p] /\ x = <<p, i>>
        BY <1>7, <2>2
      <3>2. ~(p \in cut(k) /\ i \in (k + 1)..Len(history[p]))
        BY <1>6, <2>2, <3>1
      <3>3. i \in DOMAIN history'[p]
        BY <1>5, <3>1, <3>2
      <3> QED BY <1>4, <1>8, <3>1, <3>3
    <2> QED BY <2>1, <2>2
  <1>12. (dangling = {} => version_count = Cardinality(Cells(history))) /\ IsFiniteSet(Cells(history))
    BY DEF CountInv, CountsAccurate
  <1>13. IsFiniteSet(Cells(history')) /\ (dangling' = {} => version_count' = Cardinality(Cells(history')))
    <2>1. /\ IsFiniteSet(Cells(history) \ freed(k))
          /\ Cardinality(Cells(history) \ freed(k)) = Cardinality(Cells(history)) - Cardinality(freed(k))
      BY <1>10, <1>12, RestCount
    <2> QED BY <1>1, <1>11, <1>12, <2>1
  <1>14. UNCHANGED <<objects, next_ptr, object_count, deleted_count>>
    BY DEF ak_heap_purge_versions, table
  <1> QED BY <1>4, <1>13, <1>14 DEF CountInv, CountsAccurate

\* ak_heap_purge_tombstones takes only tombstones.
LEMMA TombstoneCounts ==
    ASSUME UpdateInv, CountInv, ak_heap_purge_tombstones PROVE CountInv'
  <1> DEFINE gone == {p \in DOMAIN objects : Expired(p)}
  <1>0. IsTable(objects) /\ next_ptr \in Nat
    BY DEF UpdateInv, TypeOK
  <1>1. /\ objects' = [p \in DOMAIN objects \ gone |-> objects[p]]
        /\ object_count' = object_count - Cardinality(gone) /\ deleted_count' = deleted_count - Cardinality(gone)
        /\ UNCHANGED <<next_ptr, history, version_count, dangling>>
    BY DEF ak_heap_purge_tombstones, saved
  <1>2. gone \subseteq Dead(objects) /\ gone \subseteq DOMAIN objects
    BY DEF Dead, Expired
  <1> HIDE DEF gone
  <1>3. DOMAIN objects' = DOMAIN objects \ gone /\ Dead(objects') = Dead(objects) \ gone
    BY <1>1 DEF Dead
  <1>4. /\ object_count = Cardinality(DOMAIN objects) /\ deleted_count = Cardinality(Dead(objects))
        /\ \A q \in DOMAIN objects \cup DOMAIN history : q < next_ptr
    BY DEF CountInv, CountsAccurate
  <1>5. IsFiniteSet(DOMAIN objects) /\ IsFiniteSet(Dead(objects))
    BY <1>0, <1>4, TableFinite
  <1>6. object_count' = Cardinality(DOMAIN objects')
    BY <1>1, <1>2, <1>3, <1>4, <1>5, RestCount
  <1>7. deleted_count' = Cardinality(Dead(objects'))
    BY <1>1, <1>2, <1>3, <1>4, <1>5, RestCount
  <1> QED BY <1>1, <1>3, <1>4, <1>6, <1>7 DEF CountInv, CountsAccurate

\* ak_heap_restore counts an object it replaces once, and its tombstone for the one
\* that was there.
LEMMA RestoreCounts ==
    ASSUME UpdateInv, CountInv, ak_heap_restore PROVE CountInv'
  <1> DEFINE T == snap.objects
             D == DOMAIN objects
             Was(S) == {p \in S \cap D : objects[p].deleted}
             Is(S) == {p \in S : T[p].deleted}
  <1>0. /\ IsTable(objects) /\ next_ptr \in Nat /\ IsTable(T) /\ snap.next_ptr \in Nat
        /\ \A p \in DOMAIN T : p < snap.next_ptr
    BY DEF UpdateInv, TypeOK, Belong
  <1>1. PICK S \in SUBSET DOMAIN T :
          /\ objects' = [p \in D \cup S |-> IF p \in S THEN T[p] ELSE objects[p]]
          /\ object_count' = object_count + Cardinality(S \ D)
          /\ deleted_count' = deleted_count - Cardinality(Was(S)) + Cardinality(Is(S))
    BY DEF ak_heap_restore
  <1>2. UNCHANGED <<history, version_count, dangling>> /\ next_ptr <= next_ptr' /\ next_ptr' \in Nat
    BY RestoreBelongs DEF ak_heap_restore
  <1>3. /\ object_count = Cardinality(D) /\ deleted_count = Cardinality(Dead(objects))
        /\ \A q \in D \cup DOMAIN history : q < next_ptr
        /\ (dangling = {} => version_count = Cardinality(Cells(history))) /\ IsFiniteSet(Cells(history))
    BY DEF CountInv, CountsAccurate
  <1>4. IsFiniteSet(D) /\ IsFiniteSet(Dead(objects)) /\ IsFiniteSet(S)
    <2>1. IsFiniteSet(D) /\ IsFiniteSet(Dead(objects))
      BY <1>0, <1>3, TableFinite
    <2>2. IsFiniteSet(DOMAIN T)
      BY <1>0, TableFinite
    <2> QED BY <2>1, <2>2, FS_Subset
  <1>5. object_count' = Cardinality(DOMAIN objects')
    <2>1. DOMAIN objects' = D \cup (S \ D) /\ D \cap (S \ D) = {} /\ S \ D \in SUBSET S
      BY <1>1
    <2>2. IsFiniteSet(S \ D)
      BY <1>4, <2>1, FS_Subset
    <2>3. Cardinality(D \cup (S \ D)) = Cardinality(D) + Cardinality(S \ D)
      BY <1>4, <2>1, <2>2, DisjointCount
    <2> QED BY <1>1, <1>3, <2>1, <2>3
  <1>6. deleted_count' = Cardinality(Dead(objects'))
    <2> DEFINE W == Was(S)
               I == Is(S)
               R == Dead(objects) \ W
    <2>1. Dead(objects') = R \cup I /\ R \cap I = {} /\ W \subseteq Dead(objects) /\ I \in SUBSET S
      BY <1>1 DEF Dead
    <2>2. deleted_count' = deleted_count - Cardinality(W) + Cardinality(I)
      BY <1>1
    <2> HIDE DEF W, I
    <2>3. /\ IsFiniteSet(R) /\ Cardinality(R) = Cardinality(Dead(objects)) - Cardinality(W)
          /\ Cardinality(Dead(objects)) \in Nat /\ Cardinality(W) \in Nat
      BY <1>4, <2>1, RestCount
    <2>4. IsFiniteSet(I)
      BY <1>4, <2>1, FS_Subset
    <2> HIDE DEF R
    <2>5. Cardinality(R \cup I) = Cardinality(R) + Cardinality(I) /\ Cardinality(I) \in Nat
      BY <2>1, <2>3, <2>4, DisjointCount
    <2> QED BY <1>3, <2>1, <2>2, <2>3, <2>5
  <1>7. \A p \in DOMAIN objects' \cup DOMAIN history' : p < next_ptr'
    <2>1. \A p \in DOMAIN objects' : p < next_ptr'
      BY RestoreBelongs DEF Belong
    <2>2. ASSUME NEW p \in DOMAIN history PROVE p < next_ptr'
      <3>1. p \in Nat /\ p < next_ptr
        BY <1>3 DEF UpdateInv, TypeOK
      <3> QED BY <1>0, <1>2, <3>1
    <2> QED BY <1>2, <2>1, <2>2
  <1> QED BY <1>2, <1>3, <1>5, <1>6, <1>7 DEF CountInv, CountsAccurate

\* Nothing is there, and nothing is counted.
LEMMA NoCounts ==
    DOMAIN <<>> = {} /\ Cardinality(DOMAIN <<>>) = 0 /\ Cardinality(Dead(<<>>)) = 0
      /\ Cells(<<>>) = {} /\ IsFiniteSet(Cells(<<>>)) /\ Cardinality(Cells(<<>>)) = 0
  <1>1. DOMAIN <<>> = {}
    OBVIOUS
  <1>2. Dead(<<>>) = {} /\ Cells(<<>>) = {}
    BY <1>1 DEF Dead, Cells
  <1> QED BY <1>1, <1>2, FS_EmptySet

\* Every step keeps the counts.
LEMMA CountStep == ASSUME UpdateInv, CountInv, [Next]_vars PROVE CountInv'
  <1>0. patches + 1 \in Nat /\ 0 \in Nat
    BY DEF UpdateInv, TypeOK
  <1>1. CASE ak_heap_alloc
    BY <1>0, <1>1, ApplyCounts DEF ak_heap_alloc
  <1>2. CASE ak_heap_write
    BY <1>0, <1>2, ApplyCounts DEF ak_heap_write
  <1>3. CASE ak_heap_delete
    BY <1>0, <1>3, ApplyCounts DEF ak_heap_delete
  <1>4. CASE ak_heap_purge_versions
    BY <1>4, PurgeCounts
  <1>5. CASE ak_heap_purge_tombstones
    BY <1>5, TombstoneCounts
  <1>9. ASSUME UNCHANGED <<table, saved>> PROVE CountInv'
    BY <1>9 DEF CountInv, CountsAccurate, table, saved
  <1>6. ASSUME NEW t \in Threads, CommitApply(t) PROVE CountInv'
    <2> DEFINE op == txn[t].ops[txn[t].at]
    <2>1. op.id \in Nat
      <3>1. txn[t].at <= Len(txn[t].ops)
        BY <1>6 DEF CommitApply
      <3>2. txn[t].at \in 1..Len(txn[t].ops)
        BY <3>1, TxnFacts
      <3>3. op \in Op
        BY <3>2, TxnFacts, ElementOfSeq
      <3> QED BY <3>3 DEF Op
    <2>2. \/ Alloc(op.id) \/ Write(op.ptr, op.version, op.id) \/ Delete(op.ptr, op.version)
          \/ UNCHANGED <<table, saved>>
      BY <1>6 DEF CommitApply
    <2> HIDE DEF op
    <2>3. CASE Alloc(op.id) \/ Write(op.ptr, op.version, op.id) \/ Delete(op.ptr, op.version)
      BY <2>1, <2>3, ApplyCounts
    <2> QED BY <1>9, <2>2, <2>3
  <1>7. CASE Reboot
    <2>1. /\ objects' = <<>> /\ history' = <<>> /\ object_count' = 0 /\ deleted_count' = 0 /\ version_count' = 0
      BY <1>7 DEF Reboot
    <2> QED BY <2>1, NoCounts DEF CountInv, CountsAccurate
  <1>8. CASE ak_heap_restore
    BY <1>8, RestoreCounts
  <1>10. CASE PurgeStart \/ ak_heap_snapshot \/ Tick \/ UNCHANGED vars
    <2>1. UNCHANGED <<table, saved>>
      BY <1>10 DEF PurgeStart, ak_heap_snapshot, Tick, vars
    <2> QED BY <1>9, <2>1
  <1>11. ASSUME NEW t \in Threads, Batch(t), ~CommitApply(t) PROVE CountInv'
    <2>1. UNCHANGED <<table, saved>>
      BY <1>11 DEF Batch, ak_heap_txn_begin, ak_heap_txn_alloc, ak_heap_txn_write, ak_heap_txn_delete,
                   Buffer, CommitValidate, CommitReturn
    <2> QED BY <1>9, <2>1
  <1> QED BY <1>1, <1>2, <1>3, <1>4, <1>5, <1>6, <1>7, <1>8, <1>10, <1>11 DEF Next, Single

\* The counters of ak_heap_get_stats are what a count of the table and of the histories
\* gives, and a ptr in use is never handed out again, whatever is purged or restored (of the
\* versions until a purge with keep_count 0).
THEOREM CountsAlwaysAccurate == Spec => []CountsAccurate
  <1>1. Init => CountInv
    <2> SUFFICES ASSUME Init PROVE CountInv
      OBVIOUS
    <2>1. objects = <<>> /\ history = <<>> /\ object_count = 0 /\ deleted_count = 0 /\ version_count = 0
      BY DEF Init, Empty
    <2> QED BY <2>1, NoCounts DEF CountInv, CountsAccurate
  <1>2. UpdateInv /\ [Next]_vars => UpdateInv'
    BY UpdateStep
  <1>3. UpdateInv /\ CountInv /\ [Next]_vars => CountInv'
    BY CountStep
  <1>4. CountInv => CountsAccurate
    BY DEF CountInv
  <1> QED BY <1>1, <1>2, <1>3, <1>4, UpdateInit, PTL DEF Spec
=============================================================================
