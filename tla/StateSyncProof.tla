--------------------------- MODULE StateSyncProof ---------------------------
(***************************************************************************)
(* What ak_state.c promises of the checkpoints it writes, for any number of   *)
(* objects, writes, syncs and restarts, with any sharing of bits, writes      *)
(* during a sync, answers left unread, and whatever the host fails to write,  *)
(* list or read.  The invariant is StateInv of StateSync: the bits are those  *)
(* of the listed ptrs, ptrs are given out above everything that was brought   *)
(* back, an object is on its way only while it is dirty, and a sync in which  *)
(* nothing failed has all it saw stored, still to do or escaped.              *)
(***************************************************************************)
EXTENDS StateSync, FiniteSetTheorems, SequenceTheorems, TLAPS

-----------------------------------------------------------------------------
(* The operators of the model *)


\* Every nonempty set of naturals has a least element.
LEMMA LeastNat ==
    ASSUME NEW T, T \subseteq Nat, T # {} PROVE \E n \in T : \A m \in T : n <= m
  <1> DEFINE R == {ss \in Nat \X Nat : ss[1] < ss[2]}
  <1>1. IsWellFoundedOn(R, Nat)
    BY NatLessThanWellFounded, Zenon DEF OpToRel
  <1> HIDE DEF R
  <1>2. PICK n \in T : \A m \in T : ~(<<m, n>> \in R)
    BY <1>1, WFMin
  <1>3. \A m \in T : ~(m < n)
    BY <1>2 DEF R
  <1> QED BY <1>3

\* Put adds one object to a store.
LEMMA PutStore ==
    ASSUME NEW f, IsStore(f), NEW p \in 1..MaxPtr, NEW x \in Value
    PROVE  /\ IsStore(Put(f, p, x)) /\ DOMAIN Put(f, p, x) = DOMAIN f \cup {p}
           /\ Put(f, p, x)[p] = x
           /\ \A q \in DOMAIN f : q # p => Put(f, p, x)[q] = f[q]
  BY DEF IsStore, Put

\* Drop takes one object out of a store.
LEMMA DropStore ==
    ASSUME NEW f, IsStore(f), NEW p
    PROVE  /\ IsStore(Drop(f, p)) /\ DOMAIN Drop(f, p) = DOMAIN f \ {p}
           /\ \A q \in DOMAIN f : q # p => Drop(f, p)[q] = f[q]
  BY DEF IsStore, Drop
\* An object's ptr is a ptr and its value a value.
LEMMA StoreFacts ==
    ASSUME NEW f, IsStore(f), NEW q \in DOMAIN f
    PROVE  q \in 1..MaxPtr /\ f[q] \in Value /\ f[q].obj \in Nat /\ f[q].version \in Nat
  BY DEF IsStore, Value

\* A store may be empty.
LEMMA EmptyStore == IsStore(<<>>) /\ DOMAIN <<>> = {}
  <1>1. DOMAIN <<>> = {}
    OBVIOUS
  <1>2. <<>> \in [{} -> Value]
    OBVIOUS
  <1> QED BY <1>1, <1>2 DEF IsStore

\* The value of a changed object.
LEMMA Bumped ==
    ASSUME NEW v \in Value, NEW d \in BOOLEAN
    PROVE  [v EXCEPT !.version = @ + 1, !.dead = d] \in Value
  <1>1. v.version + 1 \in Nat
    BY DEF Value
  <1>2. \A n \in Nat : [v EXCEPT !.version = n, !.dead = d] \in Value
    BY DEF Value
  <1> QED BY <1>1, <1>2

\* A change leaves the object what it is ...
LEMMA BumpedObj ==
    ASSUME NEW v \in Value, NEW d \in BOOLEAN
    PROVE  [v EXCEPT !.version = @ + 1, !.dead = d].obj = v.obj
  BY DEF Value

\* ... and counts its version.
LEMMA BumpedVersion ==
    ASSUME NEW v \in Value, NEW d \in BOOLEAN
    PROVE  [v EXCEPT !.version = @ + 1, !.dead = d].version = v.version + 1
  BY DEF Value

\* The value of a new object.
LEMMA NewValue ==
    ASSUME NEW o \in Nat PROVE [obj |-> o + 1, version |-> 1, dead |-> FALSE] \in Value
  BY DEF Value

\* What TypeOK says of each variable.
LEMMA Facts ==
    ASSUME TypeOK
    PROVE  /\ IsStore(heap) /\ IsStore(files) /\ IsStore(task.seen)
           /\ next_ptr \in 1..(MaxPtr + 1) /\ writes \in Nat
           /\ dirty_ptrs \in Seq(1..MaxPtr) /\ chan \in Seq(Line)
           /\ task.todo \in Seq(1..MaxPtr) /\ task.synced \in Nat /\ task.count \in Nat
  <1>1. IsStore(heap) /\ IsStore(files) /\ IsStore(task.seen)
    BY DEF TypeOK
  <1>2. /\ next_ptr \in 1..(MaxPtr + 1) /\ writes \in Nat
        /\ dirty_ptrs \in Seq(1..MaxPtr) /\ chan \in Seq(Line)
    BY DEF TypeOK
  <1>3. task.todo \in Seq(1..MaxPtr) /\ task.synced \in Nat /\ task.count \in Nat
    BY DEF TypeOK
  <1> QED BY <1>1, <1>2, <1>3


\* What is left of a list without its head, and with an element more.
LEMMA ListSets ==
    ASSUME NEW s \in Seq(1..MaxPtr)
    PROVE  /\ s # <<>> => /\ Head(s) \in ToSet(s) /\ Tail(s) \in Seq(1..MaxPtr)
                          /\ Len(Tail(s)) = Len(s) - 1
                          /\ ToSet(s) = {Head(s)} \cup ToSet(Tail(s))
           /\ \A p \in 1..MaxPtr : ToSet(Append(s, p)) = ToSet(s) \cup {p}
           /\ ToSet(s) \subseteq 1..MaxPtr
           /\ s = <<>> <=> ToSet(s) = {}
  <1>1. ToSet(s) \subseteq 1..MaxPtr
    <2>1. DOMAIN s = 1..Len(s) /\ \A i \in 1..Len(s) : s[i] \in 1..MaxPtr
      BY ElementOfSeq, LenProperties
    <2> QED BY <2>1 DEF ToSet
  <1>2. \A p \in 1..MaxPtr : ToSet(Append(s, p)) = ToSet(s) \cup {p}
    <2> TAKE p \in 1..MaxPtr
    <2> DEFINE a == Append(s, p)
    <2>1. /\ Len(s) \in Nat /\ DOMAIN s = 1..Len(s) /\ DOMAIN a = 1..(Len(s) + 1)
          /\ a[Len(s) + 1] = p /\ \A i \in 1..Len(s) : a[i] = s[i]
      OBVIOUS
    <2> HIDE DEF a
    <2> QED BY <2>1 DEF ToSet
  <1>3. ASSUME s # <<>>
        PROVE  /\ Head(s) \in ToSet(s) /\ Tail(s) \in Seq(1..MaxPtr) /\ Len(Tail(s)) = Len(s) - 1
               /\ ToSet(s) = {Head(s)} \cup ToSet(Tail(s))
    <2> DEFINE t == Tail(s)
    <2>1. /\ t \in Seq(1..MaxPtr) /\ Len(s) \in Nat /\ Len(s) >= 1 /\ Len(t) = Len(s) - 1
          /\ DOMAIN s = 1..Len(s) /\ DOMAIN t = 1..(Len(s) - 1)
          /\ \A i \in 1..(Len(s) - 1) : t[i] = s[i + 1]
          /\ Head(s) = s[1]
      BY <1>3
    <2> HIDE DEF t
    <2>2. Head(s) \in ToSet(s)
      BY <2>1 DEF ToSet
    <2>3. \A x \in ToSet(t) : x \in ToSet(s)
      <3> TAKE x \in ToSet(t)
      <3>1. PICK i \in 1..(Len(s) - 1) : x = t[i]
        BY <2>1 DEF ToSet
      <3>2. i + 1 \in 1..Len(s) /\ x = s[i + 1]
        BY <2>1, <3>1
      <3> QED BY <2>1, <3>2 DEF ToSet
    <2>4. \A x \in ToSet(s) : x = Head(s) \/ x \in ToSet(t)
      <3> TAKE x \in ToSet(s)
      <3>1. PICK i \in 1..Len(s) : x = s[i]
        BY <2>1 DEF ToSet
      <3>2. CASE i = 1
        BY <2>1, <3>1, <3>2
      <3>3. CASE i # 1
        <4>1. i - 1 \in 1..(Len(s) - 1) /\ (i - 1) + 1 = i
          BY <2>1, <3>3
        <4>2. t[i - 1] = x
          BY <2>1, <3>1, <4>1
        <4> QED BY <2>1, <4>1, <4>2 DEF ToSet
      <3> QED BY <3>2, <3>3
    <2> QED BY <2>1, <2>2, <2>3, <2>4 DEF t
  <1>4. s = <<>> <=> ToSet(s) = {}
    BY DEF ToSet
  <1> QED BY <1>1, <1>2, <1>3, <1>4

\* The rest of a list of ptrs with bits of their own is one, without the head.
LEMMA TailApart ==
    ASSUME NEW s \in Seq(1..MaxPtr), s # <<>>, IndexApart(s)
    PROVE  IndexApart(Tail(s)) /\ Head(s) \notin ToSet(Tail(s))
  <1> DEFINE t == Tail(s)
  <1>1. /\ Len(s) \in Nat /\ Len(s) >= 1 /\ Len(t) = Len(s) - 1
        /\ DOMAIN t = 1..(Len(s) - 1) /\ \A i \in 1..(Len(s) - 1) : t[i] = s[i + 1]
        /\ Head(s) = s[1]
    OBVIOUS
  <1> HIDE DEF t
  <1>2. \A i \in 1..(Len(s) - 1) : i + 1 \in 1..Len(s) /\ i + 1 # 1
    BY <1>1
  <1>3. IndexApart(t)
    <2> SUFFICES ASSUME NEW i \in 1..Len(t), NEW j \in 1..Len(t), Index[t[i]] = Index[t[j]] PROVE i = j
      BY DEF IndexApart
    <2>1. i + 1 = j + 1
      BY <1>1, <1>2 DEF IndexApart
    <2> QED BY <1>1, <2>1
  <1>4. ASSUME s[1] \in ToSet(t) PROVE FALSE
    <2>1. PICK i \in 1..(Len(s) - 1) : t[i] = s[1]
      BY <1>1, <1>4 DEF ToSet
    <2>2. s[i + 1] = s[1] /\ 1 \in 1..Len(s) /\ i + 1 \in 1..Len(s) /\ i + 1 # 1
      BY <1>1, <1>2, <2>1
    <2> QED BY <2>2 DEF IndexApart
  <1> QED BY <1>1, <1>3, <1>4 DEF t

\* A ptr whose bit is not set is added to the list.
LEMMA AppendApart ==
    ASSUME NEW s \in Seq(1..MaxPtr), IndexApart(s), NEW p \in 1..MaxPtr,
           \A q \in ToSet(s) : Index[q] # Index[p]
    PROVE  IndexApart(Append(s, p))
  <1> DEFINE a == Append(s, p)
  <1>1. /\ Len(s) \in Nat /\ DOMAIN s = 1..Len(s) /\ Len(a) = Len(s) + 1
        /\ a[Len(s) + 1] = p /\ \A i \in 1..Len(s) : a[i] = s[i]
    OBVIOUS
  <1> HIDE DEF a
  <1>2. \A i \in 1..Len(s) : a[i] \in ToSet(s)
    BY <1>1 DEF ToSet
  <1>3. \A i \in 1..(Len(s) + 1) : i \in 1..Len(s) \/ i = Len(s) + 1
    BY <1>1
  <1> SUFFICES ASSUME NEW i \in 1..Len(a), NEW j \in 1..Len(a), Index[a[i]] = Index[a[j]] PROVE i = j
    BY DEF IndexApart, a
  <1> QED BY <1>1, <1>2, <1>3 DEF IndexApart

\* ak_state_mark_clean takes p and nothing else out of a list of ptrs with bits of
\* their own.
LEMMA RemoveKeeps ==
    ASSUME NEW s \in Seq(1..MaxPtr), IndexApart(s), NEW p \in ToSet(s)
    PROVE  /\ Without(s, p) \in Seq(1..MaxPtr) /\ IndexApart(Without(s, p))
           /\ ToSet(Without(s, p)) = ToSet(s) \ {p}
  <1> DEFINE I == {i \in DOMAIN s : s[i] = p}
             n == CHOOSE i \in DOMAIN s : s[i] = p /\ \A j \in DOMAIN s : s[j] = p => i <= j
  <1>1. Without(s, p) = RemoveAt(s, n)
    BY DEF Without
  <1>2. n \in 1..Len(s) /\ s[n] = p
    <2>1. I \subseteq Nat /\ I # {} /\ DOMAIN s = 1..Len(s)
      BY DEF ToSet
    <2>2. \E x \in I : \A y \in I : x <= y
      BY <2>1, LeastNat
    <2>3. \E i \in DOMAIN s : s[i] = p /\ \A j \in DOMAIN s : s[j] = p => i <= j
      BY <2>2
    <2> QED BY <2>1, <2>3
  <1> HIDE DEF n
  <1> DEFINE a == SubSeq(s, 1, n - 1)
             b == SubSeq(s, n + 1, Len(s))
             r == a \o b
  <1>4. Len(s) \in Nat /\ n \in Nat /\ n >= 1 /\ n <= Len(s) /\ \A i \in 1..Len(s) : s[i] \in 1..MaxPtr
    <2>1. Len(s) \in Nat /\ n \in Nat /\ n >= 1 /\ n <= Len(s)
      BY <1>2
    <2>2. \A i \in 1..Len(s) : s[i] \in 1..MaxPtr
      BY ElementOfSeq
    <2> QED BY <2>1, <2>2
  <1>5. a \in Seq(1..MaxPtr) /\ Len(a) = n - 1 /\ \A i \in 1..(n - 1) : a[i] = s[i]
    BY <1>4
  <1>6. b \in Seq(1..MaxPtr) /\ Len(b) = Len(s) - n /\ \A i \in 1..(Len(s) - n) : b[i] = s[n + i]
    BY <1>4
  <1>7. /\ r \in Seq(1..MaxPtr) /\ Len(r) = Len(s) - 1 /\ DOMAIN r = 1..(Len(s) - 1)
        /\ \A i \in 1..(n - 1) : r[i] = a[i]
        /\ \A i \in 1..(Len(s) - n) : r[(n - 1) + i] = b[i]
    <2> HIDE DEF a, b
    <2>1. /\ r \in Seq(1..MaxPtr) /\ Len(r) = Len(a) + Len(b)
          /\ \A i \in 1..(Len(a) + Len(b)) : r[i] = IF i <= Len(a) THEN a[i] ELSE b[i - Len(a)]
      BY <1>5, <1>6, ConcatProperties
    <2> HIDE DEF r
    <2>2. \A i \in 1..(n - 1) : i \in 1..(Len(a) + Len(b)) /\ i <= Len(a)
      BY <1>4, <1>5, <1>6
    <2>3. \A i \in 1..(Len(s) - n) : /\ (n - 1) + i \in 1..(Len(a) + Len(b)) /\ ~((n - 1) + i <= Len(a))
                                     /\ ((n - 1) + i) - Len(a) = i
      BY <1>4, <1>5, <1>6
    <2>4. Len(r) = Len(s) - 1
      BY <1>4, <1>5, <1>6, <2>1
    <2> QED BY <2>1, <2>2, <2>3, <2>4
  <1> HIDE DEF a, b, r
  <1>8. ASSUME NEW q \in ToSet(s), q # p PROVE q \in ToSet(r)
    <2>1. PICK i \in 1..Len(s) : s[i] = q
      BY DEF ToSet
    <2>2. CASE i < n
      <3>1. i \in 1..(n - 1)
        BY <1>4, <2>2
      <3>2. r[i] = q
        BY <1>5, <1>7, <2>1, <3>1
      <3>3. i \in DOMAIN r
        BY <1>4, <1>7, <3>1
      <3> QED BY <3>2, <3>3 DEF ToSet
    <2>3. CASE i > n
      <3>1. i - n \in 1..(Len(s) - n) /\ n + (i - n) = i /\ (n - 1) + (i - n) = i - 1
        BY <1>4, <2>3
      <3>2. r[i - 1] = q
        BY <1>6, <1>7, <2>1, <3>1
      <3>3. i - 1 \in DOMAIN r
        BY <1>4, <1>7, <2>3
      <3> QED BY <3>2, <3>3 DEF ToSet
    <2>4. i # n
      BY <1>2, <1>8, <2>1
    <2> QED BY <1>4, <2>2, <2>3, <2>4
  <1>9. ASSUME NEW i \in 1..(Len(s) - 1)
        PROVE  \E k \in 1..Len(s) : k # n /\ k = (IF i < n THEN i ELSE i + 1) /\ r[i] = s[k]
    <2>1. CASE i < n
      <3>1. i \in 1..(n - 1) /\ i \in 1..Len(s) /\ i # n
        BY <1>4, <2>1
      <3> QED BY <1>5, <1>7, <2>1, <3>1
    <2>2. CASE ~(i < n)
      <3>1. /\ i - (n - 1) \in 1..(Len(s) - n) /\ (n - 1) + (i - (n - 1)) = i /\ n + (i - (n - 1)) = i + 1
            /\ i + 1 \in 1..Len(s) /\ i + 1 # n
        BY <1>4, <2>2
      <3>2. r[i] = s[i + 1]
        BY <1>6, <1>7, <3>1
      <3> QED BY <2>2, <3>1, <3>2
    <2> QED BY <2>1, <2>2
  <1>10. IndexApart(r)
    <2> SUFFICES ASSUME NEW i \in 1..Len(r), NEW j \in 1..Len(r), Index[r[i]] = Index[r[j]] PROVE i = j
      BY DEF IndexApart
    <2>0. i \in 1..(Len(s) - 1) /\ j \in 1..(Len(s) - 1)
      BY <1>7
    <2>1. PICK k \in 1..Len(s) : k = (IF i < n THEN i ELSE i + 1) /\ r[i] = s[k]
      BY <1>9, <2>0
    <2>2. PICK l \in 1..Len(s) : l = (IF j < n THEN j ELSE j + 1) /\ r[j] = s[l]
      BY <1>9, <2>0
    <2>3. k = l
      BY <2>1, <2>2 DEF IndexApart
    <2> QED BY <1>4, <2>0, <2>1, <2>2, <2>3
  <1>11. \A q \in ToSet(r) : q \in ToSet(s) /\ q # p
    <2> TAKE q \in ToSet(r)
    <2>1. PICK i \in 1..(Len(s) - 1) : r[i] = q
      BY <1>7 DEF ToSet
    <2>2. PICK k \in 1..Len(s) : k # n /\ q = s[k]
      BY <1>9, <2>1
    <2>3. q \in ToSet(s)
      BY <2>2 DEF ToSet
    <2>4. q # p
      BY <1>2, <2>2 DEF IndexApart
    <2> QED BY <2>3, <2>4
  <1>12. ToSet(r) = ToSet(s) \ {p}
    BY <1>8, <1>11
  <1> QED BY <1>1, <1>7, <1>10, <1>12 DEF RemoveAt, a, b, r

\* The list of the stored objects has them all.
LEMMA SetToSeqAll ==
    ASSUME NEW S \in SUBSET (1..MaxPtr)
    PROVE  SetToSeq(S) \in Seq(1..MaxPtr) /\ ToSet(SetToSeq(S)) = S
  <1>0. IsFiniteSet(S)
    <2>1. MaxPtr \in Int /\ 1 \in Int
      BY StateSyncAssumption
    <2>2. IsFiniteSet(1..MaxPtr)
      BY <2>1, FS_Interval
    <2> QED BY <2>2, FS_Subset
  <1>1. Cardinality(S) \in Nat /\ ExistsBijection(1..Cardinality(S), S)
    BY <1>0, FS_CardinalityType
  <1> DEFINE n == Cardinality(S)
             f == SetToSeq(S)
  <1>2. \E g \in [1..n -> S] : IsInjective(g)
    BY <1>1 DEF ExistsBijection, Bijection, Injection
  <1>3. f \in [1..n -> S] /\ IsInjective(f)
    BY <1>2 DEF SetToSeq
  <1> HIDE DEF f
  <1>4. f \in Injection(1..n, S)
    BY <1>3 DEF Injection
  <1>5. Cardinality(1..n) = n
    <2>1. n \in Int /\ 1 \in Int /\ n >= 0
      BY <1>1
    <2>2. Cardinality(1..n) = IF 1 > n THEN 0 ELSE n - 1 + 1
      BY <2>1, FS_Interval
    <2> QED BY <2>1, <2>2
  <1>6. f \in Surjection(1..n, S)
    BY <1>0, <1>1, <1>4, <1>5, FS_Injection
  <1>7. ToSet(f) = S
    <2>1. \A x \in S : \E i \in 1..n : f[i] = x
      BY <1>6 DEF Surjection
    <2>2. DOMAIN f = 1..n /\ \A i \in 1..n : f[i] \in S
      BY <1>3
    <2> HIDE DEF n
    <2> QED BY <2>1, <2>2 DEF ToSet
  <1>8. f \in Seq(1..MaxPtr)
    <2>1. f \in Seq(S)
      BY <1>1, <1>3
    <2> QED BY <2>1, SeqMonotonic
  <1> QED BY <1>7, <1>8 DEF f
-----------------------------------------------------------------------------
(* The tracking of dirty objects *)

\* What TrackInv says of the list and the bits.
Listed == dirty_bitmap = {Index[p] : p \in ToSet(dirty_ptrs)} /\ IndexApart(dirty_ptrs)

\* ak_state_mark_dirty: the object is in the list, or its change has escaped.
LEMMA Touched ==
    ASSUME TypeOK, Listed, NEW p \in 1..MaxPtr, Touch(p)
    PROVE  /\ dirty_ptrs' \in Seq(1..MaxPtr) /\ Listed'
           /\ ToSet(dirty_ptrs) \subseteq ToSet(dirty_ptrs')
           /\ p \in ToSet(dirty_ptrs') \/ p \in escaped'
           /\ escaped \subseteq escaped'
           /\ task.phase = "put" /\ p = Head(task.todo) => p \in escaped'
  <1>0. dirty_ptrs \in Seq(1..MaxPtr)
    BY DEF TypeOK
  <1>1. /\ escaped \subseteq escaped' /\ (Escapes(p) => p \in escaped')
        /\ (task.phase = "put" /\ p = Head(task.todo) => Escapes(p))
    BY DEF Touch, Escapes
  <1>2. CASE Index[p] \in dirty_bitmap
    <2>1. UNCHANGED <<dirty_ptrs, dirty_bitmap>>
      BY <1>2 DEF Touch, ak_state_mark_dirty, tracking
    <2>2. PICK q \in ToSet(dirty_ptrs) : Index[q] = Index[p]
      BY <1>2 DEF Listed
    <2>3. p \in ToSet(dirty_ptrs) \/ Escapes(p)
      BY <2>2 DEF Escapes
    <2> QED BY <1>0, <1>1, <2>1, <2>3 DEF Listed
  <1>3. CASE Index[p] \notin dirty_bitmap
    <2>1. dirty_bitmap' = dirty_bitmap \cup {Index[p]} /\ dirty_ptrs' = Append(dirty_ptrs, p)
      BY <1>3 DEF Touch, ak_state_mark_dirty
    <2>2. dirty_ptrs' \in Seq(1..MaxPtr) /\ ToSet(dirty_ptrs') = ToSet(dirty_ptrs) \cup {p}
      BY <1>0, <2>1, ListSets
    <2>3. \A q \in ToSet(dirty_ptrs) : Index[q] # Index[p]
      BY <1>3 DEF Listed
    <2>4. IndexApart(dirty_ptrs')
      <3>1. IndexApart(Append(dirty_ptrs, p))
        BY <1>0, <2>3, AppendApart DEF Listed
      <3> QED BY <2>1, <3>1
    <2>5. dirty_bitmap' = {Index[q] : q \in ToSet(dirty_ptrs')}
      BY <2>1, <2>2 DEF Listed
    <2>6. Listed'
      BY <2>4, <2>5 DEF Listed, IndexApart
    <2> QED BY <1>1, <2>2, <2>6
  <1> QED BY <1>2, <1>3

\* ak_state_mark_clean: the list loses the object and nothing else.
LEMMA MarkClean ==
    ASSUME TypeOK, Listed, NEW p \in ToSet(dirty_ptrs), ak_state_mark_clean(p)
    PROVE  /\ dirty_ptrs' \in Seq(1..MaxPtr) /\ Listed'
           /\ ToSet(dirty_ptrs') = ToSet(dirty_ptrs) \ {p}
  <1>0. dirty_ptrs \in Seq(1..MaxPtr) /\ IndexApart(dirty_ptrs)
    BY DEF TypeOK, Listed
  <1>1. dirty_bitmap' = dirty_bitmap \ {Index[p]} /\ dirty_ptrs' = Without(dirty_ptrs, p)
    BY DEF ak_state_mark_clean
  <1>2. /\ dirty_ptrs' \in Seq(1..MaxPtr) /\ IndexApart(dirty_ptrs')
        /\ ToSet(dirty_ptrs') = ToSet(dirty_ptrs) \ {p}
    <2>1. /\ Without(dirty_ptrs, p) \in Seq(1..MaxPtr) /\ IndexApart(Without(dirty_ptrs, p))
          /\ ToSet(Without(dirty_ptrs, p)) = ToSet(dirty_ptrs) \ {p}
      BY <1>0, RemoveKeeps
    <2> QED BY <1>1, <2>1
  <1>3. \A q \in ToSet(dirty_ptrs) : Index[q] = Index[p] => q = p
    <2> TAKE q \in ToSet(dirty_ptrs)
    <2>1. PICK i \in 1..Len(dirty_ptrs) : dirty_ptrs[i] = q
      BY <1>0 DEF ToSet
    <2>2. PICK j \in 1..Len(dirty_ptrs) : dirty_ptrs[j] = p
      BY <1>0 DEF ToSet
    <2> QED BY <1>0, <2>1, <2>2 DEF IndexApart
  <1>4. dirty_bitmap' = {Index[q] : q \in ToSet(dirty_ptrs')}
    BY <1>1, <1>2, <1>3 DEF Listed
  <1> QED BY <1>2, <1>4 DEF Listed, IndexApart

-----------------------------------------------------------------------------
(* The task and its list *)

\* The task as a record of its fields.
TaskType(sn) == [phase : {"idle", "next", "put", "anchor", "get"}, kind : {"", "commit", "shutdown"},
                 todo : Seq(1..MaxPtr), synced : Nat, count : Nat, seen : {sn}]

\* No task is under way.
LEMMA IdleFacts ==
    /\ Idle \in TaskType(Idle.seen) /\ Idle.phase = "idle" /\ Idle.seen = <<>> /\ IsStore(Idle.seen)
  <1>1. Idle \in TaskType(Idle.seen)
    BY DEF Idle, TaskType
  <1>2. Idle.phase = "idle" /\ Idle.seen = <<>>
    BY DEF Idle
  <1> QED BY <1>1, <1>2, EmptyStore

\* A task sends a request.
LEMMA PhaseChanges ==
    ASSUME NEW sn, NEW t \in TaskType(sn), NEW ph \in {"put", "anchor"}
    PROVE  /\ [t EXCEPT !.phase = ph] \in TaskType(sn)
           /\ [t EXCEPT !.phase = ph].todo = t.todo /\ [t EXCEPT !.phase = ph].phase = ph
           /\ [t EXCEPT !.phase = ph].synced = t.synced /\ [t EXCEPT !.phase = ph].count = t.count
           /\ [t EXCEPT !.phase = ph].seen = t.seen
  BY DEF TaskType

\* The type invariant of the next state, from what the step leaves of each part.
LEMMA TypeStep ==
    ASSUME TypeOK,
           IsStore(heap'), IsStore(files'), next_ptr' \in 1..(MaxPtr + 1),
           dirty_ptrs' \in Seq(1..MaxPtr), chan' \in Seq(Line), UNCHANGED <<writes, promised>>,
           task' \in TaskType(task'.seen), IsStore(task'.seen)
    PROVE  TypeOK'
  BY DEF TypeOK, TaskType

\* What the invariant says of a sync under way.
LEMMA TaskFacts ==
    ASSUME StateInv
    PROVE  /\ task \in TaskType(task.seen) /\ IsStore(task.seen)
           /\ task.todo \in Seq(1..MaxPtr) /\ task.synced \in Nat /\ task.count \in Nat
           /\ Len(task.todo) \in Nat
  <1>1. task \in TaskType(task.seen) /\ IsStore(task.seen)
    BY DEF StateInv, TypeOK, TaskType
  <1>2. task.todo \in Seq(1..MaxPtr) /\ task.synced \in Nat /\ task.count \in Nat
    BY Facts DEF StateInv
  <1> QED BY <1>1, <1>2, LenProperties

\* The list of a task moves on.
LEMMA TodoMoves ==
    ASSUME StateInv, task.todo # <<>>, task' = [task EXCEPT !.todo = Tail(@)]
    PROVE  /\ task' \in TaskType(task.seen) /\ task'.todo = Tail(task.todo) /\ task'.phase = task.phase
           /\ task'.synced = task.synced /\ task'.count = task.count /\ task'.seen = task.seen
  <1> DEFINE l == Tail(task.todo)
  <1>1. task' = [task EXCEPT !.todo = l] /\ l \in Seq(1..MaxPtr) /\ task \in TaskType(task.seen)
    BY TaskFacts, ListSets
  <1> HIDE DEF l
  <1>2. /\ task' \in TaskType(task.seen) /\ task'.todo = l /\ task'.phase = task.phase
        /\ task'.synced = task.synced /\ task'.count = task.count /\ task'.seen = task.seen
    BY <1>1 DEF TaskType
  <1> QED BY <1>2 DEF l

\* A sync has read an answer.
LEMMA AckMoves ==
    ASSUME StateInv, task.todo # <<>>, NEW n \in Nat,
           task' = [task EXCEPT !.phase = "next", !.todo = Tail(@), !.synced = n]
    PROVE  /\ task' \in TaskType(task.seen) /\ task'.todo = Tail(task.todo) /\ task'.phase = "next"
           /\ task'.synced = n /\ task'.count = task.count /\ task'.seen = task.seen
  <1> DEFINE l == Tail(task.todo)
  <1>1. /\ task' = [task EXCEPT !.phase = "next", !.todo = l, !.synced = n]
        /\ l \in Seq(1..MaxPtr) /\ task \in TaskType(task.seen)
    BY TaskFacts, ListSets
  <1> HIDE DEF l
  <1>2. /\ task' \in TaskType(task.seen) /\ task'.todo = l /\ task'.phase = "next"
        /\ task'.synced = n /\ task'.count = task.count /\ task'.seen = task.seen
    BY <1>1 DEF TaskType
  <1> QED BY <1>2 DEF l

\* A line of the channel: what is left when one is read, and when one is sent.
LEMMA Lines ==
    ASSUME NEW c \in Seq(Line)
    PROVE  /\ c # <<>> => Tail(c) \in Seq(Line) /\ Len(c) >= 1
           /\ \A ok \in BOOLEAN : \A a : a = Append(c, [ok |-> ok, value |-> NoValue]) =>
                a \in Seq(Line) /\ a # <<>> /\ (Len(a) = 1 => Head(a).ok = ok)
           /\ Len(c) \in Nat
  <1>1. c # <<>> => Tail(c) \in Seq(Line) /\ Len(c) >= 1
    OBVIOUS
  <1>2. ASSUME NEW ok \in BOOLEAN, NEW m, m = [ok |-> ok, value |-> NoValue], NEW a, a = Append(c, m)
        PROVE  a \in Seq(Line) /\ a # <<>> /\ (Len(a) = 1 => Head(a).ok = ok)
    <2>1. m \in Line /\ m.ok = ok
      BY <1>2 DEF Line
    <2>2. a \in Seq(Line) /\ Len(a) = Len(c) + 1 /\ a[Len(c) + 1] = m /\ Len(c) \in Nat /\ a # <<>>
      BY <1>2, <2>1
    <2>3. Len(a) = 1 => Head(a) = m
      <3>1. Head(a) = a[1]
        OBVIOUS
      <3>2. Len(a) = 1 => Len(c) + 1 = 1
        BY <2>2
      <3> QED BY <2>2, <3>1, <3>2
    <2> QED BY <2>1, <2>2, <2>3
  <1> QED BY <1>1, <1>2

-----------------------------------------------------------------------------
(* StateInv, one lemma per action *)

\* The invariant holds initially.
LEMMA StateInit == Init => StateInv
  <1> SUFFICES ASSUME Init PROVE StateInv
    OBVIOUS
  <1> USE StateSyncAssumption
  <1>1. heap = <<>> /\ files = <<>> /\ promised = {} /\ task = Idle
    BY DEF Init
  <1>2. dirty_ptrs = <<>> /\ dirty_bitmap = {} /\ chan = <<>> /\ next_ptr = 1 /\ writes = 0
    BY DEF Init
  <1>3. DOMAIN heap = {} /\ DOMAIN files = {}
    BY <1>1
  <1>4. task.phase = "idle" /\ task.seen = <<>>
    BY <1>1 DEF Idle
  <1>5. TypeOK
    <2>1. IsStore(heap) /\ IsStore(files) /\ IsStore(task.seen)
      BY <1>1, <1>4, EmptyStore
    <2>2. Idle \in [phase : {"idle", "next", "put", "anchor", "get"}, kind : {"", "commit", "shutdown"},
                    todo : Seq(1..MaxPtr), synced : Nat, count : Nat, seen : {Idle.seen}]
      BY DEF Idle
    <2>3. dirty_ptrs \in Seq(1..MaxPtr) /\ next_ptr \in 1..(MaxPtr + 1) /\ writes \in Nat /\ chan \in Seq(Line)
      BY <1>2
    <2> QED BY <1>1, <2>1, <2>2, <2>3 DEF TypeOK
  <1>6. TrackInv
    <2>1. ToSet(dirty_ptrs) = {} /\ IndexApart(dirty_ptrs)
      BY <1>2 DEF ToSet, IndexApart
    <2> QED BY <1>2, <1>3, <2>1 DEF TrackInv, DirtyCovers
  <1>7. PtrInv /\ SentInv /\ SyncInv
    BY <1>2, <1>3, <1>4 DEF PtrInv, SentInv, SyncInv
  <1>8. HeapAheadOfStore /\ CompletedIsDurable
    BY <1>1, <1>3 DEF HeapAheadOfStore, CompletedIsDurable
  <1> QED BY <1>5, <1>6, <1>7, <1>8 DEF StateInv

\* What a change of p leaves of the invariant: p is listed or escaped, it is neither
\* older nor another object than the stored one and the one the sync saw, and the
\* rest of the heap is as it was.
LEMMA WriteStep ==
    ASSUME StateInv, NEW p \in 1..MaxPtr, Touch(p), task.phase # "get",
           IsStore(heap'), DOMAIN heap' = DOMAIN heap \cup {p},
           \A q \in DOMAIN heap : q # p => heap'[q] = heap[q],
           p < next_ptr', next_ptr' \in 1..(MaxPtr + 1), next_ptr <= next_ptr', writes' = writes + 1,
           p \in DOMAIN files \ missed =>
               heap'[p].obj = files[p].obj /\ heap'[p].version >= files[p].version,
           p \in DOMAIN task.seen /\ task.phase \in {"next", "put", "anchor"} =>
               heap'[p].obj = task.seen[p].obj /\ heap'[p].version >= task.seen[p].version,
           UNCHANGED <<task, chan, files, promised, missed, ruined>>
    PROVE  StateInv'
  <1> USE StateSyncAssumption
  <1>0. /\ TypeOK /\ Listed /\ IsStore(heap) /\ IsStore(files) /\ IsStore(task.seen)
        /\ next_ptr \in 1..(MaxPtr + 1) /\ writes \in Nat
    BY Facts DEF StateInv, TrackInv, Listed
  <1>1. /\ dirty_ptrs' \in Seq(1..MaxPtr) /\ Listed'
        /\ ToSet(dirty_ptrs) \subseteq ToSet(dirty_ptrs')
        /\ p \in ToSet(dirty_ptrs') \/ p \in escaped'
        /\ escaped \subseteq escaped'
        /\ task.phase = "put" /\ p = Head(task.todo) => p \in escaped'
    BY <1>0, Touched
  <1>2. TypeOK'
    <2>1. writes' \in Nat
      BY <1>0
    <2> QED BY <1>0, <1>1, <2>1 DEF TypeOK
  <1>3. DirtyCovers'
    BY <1>1 DEF StateInv, TrackInv, DirtyCovers, Stored
  <1>4. TrackInv'
    BY <1>1, <1>3 DEF TrackInv, Listed
  <1>5. PtrInv'
    <2>1. \A q \in DOMAIN heap \cup DOMAIN files : q \in 1..MaxPtr
      BY <1>0, StoreFacts
    <2>2. \A q \in 1..MaxPtr : q < next_ptr => q < next_ptr'
      BY <1>0
    <2> QED BY <2>1, <2>2 DEF StateInv, PtrInv
  <1>6. SentInv'
    BY <1>1 DEF StateInv, SentInv, Stored, Holds
  <1>7. SyncInv'
    <2>1. \A q \in DOMAIN task.seen : q \in 1..MaxPtr
      BY <1>0, StoreFacts
    <2>2. \A q \in 1..MaxPtr : q < next_ptr => q < next_ptr'
      BY <1>0
    <2> QED BY <1>1, <2>1, <2>2 DEF StateInv, SyncInv, Holds, IndexApart
  <1>8. HeapAheadOfStore'
    <2> SUFFICES ASSUME NEW q \in DOMAIN heap' \cap DOMAIN files, q \notin missed
                 PROVE  heap'[q].obj = files[q].obj /\ ~(heap'[q].version < files[q].version)
      BY DEF HeapAheadOfStore, Overtaken
    <2>1. CASE q = p
      <3>1. heap'[p].version \in Nat /\ files[p].version \in Nat
        BY <1>0, <2>1, StoreFacts
      <3> QED BY <2>1, <3>1
    <2>2. CASE q # p
      BY <2>2 DEF StateInv, HeapAheadOfStore, Overtaken
    <2> QED BY <2>1, <2>2
  <1>9. CompletedIsDurable'
    BY DEF StateInv, CompletedIsDurable, Kept
  <1> QED BY <1>2, <1>4, <1>5, <1>6, <1>7, <1>8, <1>9 DEF StateInv

\* A new object takes a ptr that nothing in the heap has, nor anything that is
\* stored and was brought back.
LEMMA AllocStep == ASSUME StateInv, Alloc PROVE StateInv'
  <1> USE StateSyncAssumption
  <1> DEFINE p == next_ptr
             x == [obj |-> writes + 1, version |-> 1, dead |-> FALSE]
  <1>0. /\ IsStore(heap) /\ IsStore(files) /\ IsStore(task.seen)
        /\ next_ptr \in 1..(MaxPtr + 1) /\ writes \in Nat
    BY Facts DEF StateInv
  <1>1. task.phase # "get" /\ next_ptr <= MaxPtr /\ Touch(p)
    BY DEF Alloc, MayChange
  <1>2. heap' = Put(heap, p, x) /\ next_ptr' = p + 1 /\ writes' = writes + 1
    BY DEF Alloc, MayChange
  <1>3. UNCHANGED <<task, chan, files, promised, missed, ruined>>
    BY DEF Alloc, host
  <1>4. x \in Value
    BY <1>0, NewValue
  <1>5. p \in 1..MaxPtr /\ next_ptr' \in 1..(MaxPtr + 1) /\ p < next_ptr' /\ next_ptr <= next_ptr'
    BY <1>0, <1>1, <1>2
  <1> HIDE DEF x
  <1>6. /\ IsStore(heap') /\ DOMAIN heap' = DOMAIN heap \cup {p}
        /\ \A q \in DOMAIN heap : q # p => heap'[q] = heap[q]
    <2>1. /\ IsStore(Put(heap, p, x)) /\ DOMAIN Put(heap, p, x) = DOMAIN heap \cup {p}
          /\ \A q \in DOMAIN heap : q # p => Put(heap, p, x)[q] = heap[q]
      BY <1>0, <1>4, <1>5, PutStore
    <2> QED BY <1>2, <2>1
  <1>7. p \notin DOMAIN files \ missed
    <2>1. \A q \in DOMAIN files \ missed : q < next_ptr
      BY <1>1 DEF StateInv, PtrInv
    <2> QED BY <1>5, <2>1
  <1>8. ~(p \in DOMAIN task.seen /\ task.phase \in {"next", "put", "anchor"})
    <2>1. task.phase \in {"next", "put", "anchor"} => \A q \in DOMAIN task.seen : q < next_ptr
      BY DEF StateInv, SyncInv
    <2> QED BY <1>5, <2>1
  <1> QED BY <1>1, <1>2, <1>3, <1>5, <1>6, <1>7, <1>8, WriteStep

\* A change makes the object's version greater.
LEMMA ChangeStep == ASSUME StateInv, Change PROVE StateInv'
  <1> USE StateSyncAssumption
  <1>0. /\ IsStore(heap) /\ IsStore(files) /\ IsStore(task.seen)
        /\ next_ptr \in 1..(MaxPtr + 1) /\ writes \in Nat
    BY Facts DEF StateInv
  <1>1. PICK p \in DOMAIN heap, dead \in BOOLEAN :
            /\ heap' = [heap EXCEPT ![p].version = @ + 1, ![p].dead = dead]
            /\ Touch(p)
    BY DEF Change
  <1>2. task.phase # "get" /\ writes' = writes + 1
    BY DEF Change, MayChange
  <1>3. UNCHANGED <<task, chan, files, promised, next_ptr, missed, ruined>>
    BY DEF Change, host
  <1>4. p \in 1..MaxPtr /\ heap[p] \in Value /\ heap[p].version \in Nat
    BY <1>0, StoreFacts
  <1>5. DOMAIN heap' = DOMAIN heap /\ \A q \in DOMAIN heap : q # p => heap'[q] = heap[q]
    BY <1>1
  <1>6. heap'[p] \in Value /\ heap'[p].obj = heap[p].obj /\ heap'[p].version = heap[p].version + 1
    <2>1. heap'[p] = [heap[p] EXCEPT !.version = @ + 1, !.dead = dead]
      BY <1>1
    <2> QED BY <1>4, <2>1, Bumped, BumpedObj, BumpedVersion
  <1>7. IsStore(heap') /\ DOMAIN heap' = DOMAIN heap \cup {p}
    <2>1. \A q \in DOMAIN heap' : heap'[q] \in Value
      BY <1>0, <1>5, <1>6, StoreFacts
    <2>2. heap' = [q \in DOMAIN heap' |-> heap'[q]]
      BY <1>1
    <2> QED BY <1>0, <1>5, <2>1, <2>2 DEF IsStore
  <1>8. p < next_ptr' /\ next_ptr' \in 1..(MaxPtr + 1) /\ next_ptr <= next_ptr'
    BY <1>0, <1>3 DEF StateInv, PtrInv
  <1>9. p \in DOMAIN files \ missed =>
            heap'[p].obj = files[p].obj /\ heap'[p].version >= files[p].version
    <2> SUFFICES ASSUME p \in DOMAIN files \ missed
                 PROVE  heap'[p].obj = files[p].obj /\ heap'[p].version >= files[p].version
      OBVIOUS
    <2>1. files[p].version \in Nat
      BY <1>0, StoreFacts
    <2>2. heap[p].obj = files[p].obj /\ ~(heap[p].version < files[p].version)
      BY DEF StateInv, HeapAheadOfStore, Overtaken
    <2> QED BY <1>4, <1>6, <2>1, <2>2
  <1>10. p \in DOMAIN task.seen /\ task.phase \in {"next", "put", "anchor"} =>
            heap'[p].obj = task.seen[p].obj /\ heap'[p].version >= task.seen[p].version
    <2> SUFFICES ASSUME p \in DOMAIN task.seen, task.phase \in {"next", "put", "anchor"}
                 PROVE  heap'[p].obj = task.seen[p].obj /\ heap'[p].version >= task.seen[p].version
      OBVIOUS
    <2>1. task.seen[p].version \in Nat
      BY <1>0, StoreFacts
    <2>2. heap[p].obj = task.seen[p].obj /\ heap[p].version >= task.seen[p].version
      BY DEF StateInv, SyncInv
    <2> QED BY <1>4, <1>6, <2>1, <2>2
  <1> QED BY <1>1, <1>2, <1>3, <1>4, <1>5, <1>7, <1>8, <1>9, <1>10, WriteStep

\* A purge takes objects out of the heap and leaves the others as they are.
LEMMA PurgeStep == ASSUME StateInv, Purge PROVE StateInv'
  <1>1. /\ heap' = [p \in {q \in DOMAIN heap : ~heap[q].dead} |-> heap[p]]
        /\ task.phase # "get"
        /\ UNCHANGED <<next_ptr, dirty_ptrs, dirty_bitmap, task, chan, files, writes, promised,
                       escaped, missed, ruined>>
    BY DEF Purge, host, tracking, history
  <1>2. DOMAIN heap' \subseteq DOMAIN heap /\ \A q \in DOMAIN heap' : heap'[q] = heap[q]
    BY <1>1
  <1>3. IsStore(heap')
    BY <1>1 DEF StateInv, TypeOK, IsStore
  <1>4. TypeOK'
    BY <1>1, <1>3 DEF StateInv, TypeOK
  <1>5. TrackInv'
    BY <1>1, <1>2 DEF StateInv, TrackInv, DirtyCovers, Stored, IndexApart
  <1>6. PtrInv' /\ HeapAheadOfStore'
    BY <1>1, <1>2 DEF StateInv, PtrInv, HeapAheadOfStore, Overtaken
  <1>7. SentInv'
    BY <1>1, <1>2 DEF StateInv, SentInv, Stored, Holds
  <1>8. SyncInv'
    BY <1>1, <1>2 DEF StateInv, SyncInv, Holds, IndexApart
  <1>9. CompletedIsDurable'
    BY <1>1 DEF StateInv, CompletedIsDurable, Kept
  <1> QED BY <1>4, <1>5, <1>6, <1>7, <1>8, <1>9 DEF StateInv

\* The sync starts from the dirty list, and what is not in it is stored or escaped.
LEMMA SyncStep ==
    ASSUME StateInv, NEW kind \in {"commit", "shutdown"}, ak_state_sync(kind) PROVE StateInv'
  <1>0. /\ TypeOK /\ IsStore(heap) /\ IsStore(files) /\ next_ptr \in 1..(MaxPtr + 1)
        /\ dirty_ptrs \in Seq(1..MaxPtr) /\ chan \in Seq(Line)
    BY Facts DEF StateInv
  <1>1. /\ task.phase = "idle"
        /\ UNCHANGED <<heap, next_ptr, dirty_ptrs, dirty_bitmap, chan, files, writes, promised,
                       escaped, missed, ruined>>
    BY DEF ak_state_sync, tracking, host, history
  <1>2. task' = [phase |-> "next", kind |-> kind, todo |-> dirty_ptrs, synced |-> 0,
                 count |-> Len(dirty_ptrs), seen |-> heap]
    BY DEF ak_state_sync
  <1>3. Len(dirty_ptrs) \in Nat
    BY <1>0, LenProperties
  <1>4. /\ task'.phase = "next" /\ task'.todo = dirty_ptrs /\ task'.synced = 0
        /\ task'.count = Len(dirty_ptrs) /\ task'.seen = heap
    BY <1>2
  <1>5. task' \in TaskType(task'.seen)
    <2>1. task' \in TaskType(heap)
      BY <1>0, <1>2, <1>3 DEF TaskType
    <2> QED BY <1>4, <2>1
  <1>6. TypeOK'
    BY <1>0, <1>1, <1>4, <1>5, TypeStep
  <1>7. TrackInv' /\ PtrInv' /\ SentInv'
    BY <1>1, <1>4 DEF StateInv, TrackInv, DirtyCovers, Stored, PtrInv, SentInv, IndexApart
  <1>8. HeapAheadOfStore' /\ CompletedIsDurable'
    BY <1>1 DEF StateInv, HeapAheadOfStore, Overtaken, CompletedIsDurable, Kept
  <1>9. SyncInv'
    <2>1. \A p \in DOMAIN heap \ escaped : p \in ToSet(dirty_ptrs) \/ Holds(p, heap[p])'
      <3> TAKE p \in DOMAIN heap \ escaped
      <3>1. heap[p].version \in Nat
        BY <1>0, StoreFacts
      <3>2. p \in ToSet(dirty_ptrs) \/ (p \in DOMAIN files /\ files[p] = heap[p])
        BY DEF StateInv, TrackInv, DirtyCovers, Stored
      <3> QED BY <1>1, <3>1, <3>2 DEF Holds
    <2>2. \A p \in DOMAIN heap : heap[p].version >= heap[p].version /\ p < next_ptr
      BY <1>0, StoreFacts DEF StateInv, PtrInv
    <2>3. IndexApart(dirty_ptrs)
      BY DEF StateInv, TrackInv
    <2> QED BY <1>1, <1>3, <1>4, <2>1, <2>2, <2>3 DEF SyncInv, IndexApart
  <1> QED BY <1>6, <1>7, <1>8, <1>9 DEF StateInv

\* An object that is gone is passed over, and the sync can no longer complete.
LEMMA SkipStep ==
    ASSUME StateInv, task.phase = "next", task.todo # <<>>,
           task' = [task EXCEPT !.todo = Tail(@)],
           UNCHANGED <<heap, next_ptr, dirty_ptrs, dirty_bitmap, chan, files, writes, promised,
                       escaped, missed, ruined>>
    PROVE  StateInv'
  <1>0. /\ TypeOK /\ IsStore(heap) /\ IsStore(files) /\ next_ptr \in 1..(MaxPtr + 1)
        /\ dirty_ptrs \in Seq(1..MaxPtr) /\ chan \in Seq(Line)
    BY Facts DEF StateInv
  <1>1. /\ Len(Tail(task.todo)) = Len(task.todo) - 1 /\ ToSet(Tail(task.todo)) \subseteq ToSet(task.todo)
        /\ task.todo \in Seq(1..MaxPtr)
    BY TaskFacts, ListSets
  <1>2. /\ task' \in TaskType(task.seen) /\ task'.todo = Tail(task.todo) /\ task'.phase = "next"
        /\ task'.synced = task.synced /\ task'.count = task.count /\ task'.seen = task.seen
    BY TodoMoves
  <1>3. TypeOK'
    BY <1>0, <1>2, TaskFacts, TypeStep
  <1>4. TrackInv' /\ PtrInv' /\ SentInv'
    BY <1>2 DEF StateInv, TrackInv, DirtyCovers, Stored, PtrInv, SentInv, IndexApart
  <1>5. HeapAheadOfStore' /\ CompletedIsDurable'
    BY DEF StateInv, HeapAheadOfStore, Overtaken, CompletedIsDurable, Kept
  <1>6. SyncInv'
    <2>1. task.synced + Len(task.todo) <= task.count /\ IndexApart(task.todo)
      BY DEF StateInv, SyncInv
    <2>2. task'.synced + Len(task'.todo) <= task'.count /\ task'.synced + Len(task'.todo) # task'.count
      BY <1>1, <1>2, <2>1, TaskFacts
    <2>3. IndexApart(task'.todo)
      BY <1>1, <1>2, <2>1, TailApart
    <2>4. /\ \A q \in DOMAIN task.seen : q < next_ptr
          /\ \A q \in DOMAIN heap \cap DOMAIN task.seen :
              heap[q].obj = task.seen[q].obj /\ heap[q].version >= task.seen[q].version
          /\ ToSet(task.todo) \subseteq ToSet(dirty_ptrs)
      BY DEF StateInv, SyncInv
    <2> QED BY <1>1, <1>2, <2>2, <2>3, <2>4 DEF SyncInv, IndexApart
  <1> QED BY <1>3, <1>4, <1>5, <1>6 DEF StateInv

\* What a write of p leaves in the store: the other records, and of p the heap's
\* value if it succeeded, and otherwise the old record, the heap's value or none.
LEMMA WrittenFacts ==
    ASSUME StateInv, NEW p \in DOMAIN heap, NEW w \in Written(files, p, heap[p]), NEW f, f = w.store
    PROVE  /\ IsStore(f) /\ w.ok \in BOOLEAN
           /\ DOMAIN f \subseteq DOMAIN files \cup {p}
           /\ \A q \in DOMAIN files : q # p => q \in DOMAIN f /\ f[q] = files[q]
           /\ w.ok => p \in DOMAIN f /\ f[p] = heap[p]
           /\ f = files \/ p \notin DOMAIN f \/ f[p] = heap[p]
  <1>0. IsStore(heap) /\ IsStore(files) /\ p \in 1..MaxPtr /\ heap[p] \in Value
    BY Facts, StoreFacts DEF StateInv
  <1> DEFINE u == Put(files, p, heap[p])
             d == Drop(files, p)
  <1>1. /\ IsStore(u) /\ DOMAIN u = DOMAIN files \cup {p} /\ u[p] = heap[p]
        /\ \A q \in DOMAIN files : q # p => u[q] = files[q]
    BY <1>0, PutStore
  <1>2. /\ IsStore(d) /\ DOMAIN d = DOMAIN files \ {p}
        /\ \A q \in DOMAIN files : q # p => d[q] = files[q]
    BY <1>0, DropStore
  <1> HIDE DEF u, d
  <1>3. w \in {[ok |-> TRUE, store |-> u]} \cup [ok : {FALSE}, store : {files, u, d}]
    BY DEF Written, u, d
  <1>4. \/ w.ok = TRUE /\ f = u
        \/ w.ok = FALSE /\ f \in {files, u, d}
    <2>1. CASE w = [ok |-> TRUE, store |-> u]
      <3>1. w.store = u
        BY <2>1
      <3>2. w.ok = TRUE
        BY <2>1, Zenon
      <3> QED BY <3>1, <3>2
    <2>2. CASE w \in [ok : {FALSE}, store : {files, u, d}]
      <3>1. w.store \in {files, u, d}
        BY <2>2
      <3>2. w.ok \in {FALSE}
        BY <2>2, Zenon
      <3> QED BY <3>1, <3>2
    <2> QED BY <1>3, <2>1, <2>2
  <1>5. CASE w.ok = TRUE /\ f = u
    BY <1>1, <1>5
  <1>6. CASE w.ok = FALSE /\ f = u
    BY <1>1, <1>6
  <1>7. CASE w.ok = FALSE /\ f = d
    BY <1>2, <1>7
  <1>8. CASE w.ok = FALSE /\ f = files
    BY <1>0, <1>8
  <1> QED BY <1>4, <1>5, <1>6, <1>7, <1>8

\* The object is sent as it is: a positive answer means that it is stored.  If its
\* record is lost, it is dirty, and what was promised of it is ruined.
LEMMA SendStep ==
    ASSUME StateInv, task.phase = "next", task.todo # <<>>, NEW p, p = Head(task.todo), p \in DOMAIN heap,
           task' = [task EXCEPT !.phase = "put"], NEW w \in Written(files, p, heap[p]),
           files' = w.store, chan' = Append(chan, [ok |-> w.ok, value |-> NoValue]),
           IF files' = files THEN UNCHANGED history
           ELSE /\ escaped' = IF p \in DOMAIN files' THEN escaped \ {p} ELSE escaped
                /\ missed' = missed \ {p}
                /\ ruined' = ruined \cup
                     {e \in promised : e.ptr = p /\ (p \in missed \/ p \notin DOMAIN files')},
           UNCHANGED <<heap, next_ptr, dirty_ptrs, dirty_bitmap, writes, promised>>
    PROVE  StateInv'
  <1>0. /\ TypeOK /\ IsStore(heap) /\ IsStore(files) /\ next_ptr \in 1..(MaxPtr + 1)
        /\ dirty_ptrs \in Seq(1..MaxPtr) /\ chan \in Seq(Line)
    BY Facts DEF StateInv
  <1>1. /\ task' \in TaskType(task.seen) /\ task'.todo = task.todo /\ task'.phase = "put"
        /\ task'.synced = task.synced /\ task'.count = task.count /\ task'.seen = task.seen
    BY TaskFacts, PhaseChanges
  <1>2. /\ IsStore(files') /\ w.ok \in BOOLEAN
        /\ DOMAIN files' \subseteq DOMAIN files \cup {p}
        /\ \A q \in DOMAIN files : q # p => q \in DOMAIN files' /\ files'[q] = files[q]
        /\ w.ok => p \in DOMAIN files' /\ files'[p] = heap[p]
        /\ files' = files \/ p \notin DOMAIN files' \/ files'[p] = heap[p]
    BY WrittenFacts
  <1>3. /\ \A q : q # p => (q \in escaped' <=> q \in escaped) /\ (q \in missed' <=> q \in missed)
        /\ files' = files => missed' = missed /\ ruined' = ruined
        /\ ruined \subseteq ruined'
        /\ files' # files => \A e \in promised : e.ptr = p /\ e \notin ruined' =>
                                p \notin missed /\ p \in DOMAIN files'
    <2>1. CASE files' = files
      BY <2>1 DEF history
    <2>2. CASE files' # files
      <3>1. escaped' = (IF p \in DOMAIN files' THEN escaped \ {p} ELSE escaped) /\ missed' = missed \ {p}
        BY <2>2
      <3>2. ruined' = ruined \cup {e \in promised : e.ptr = p /\ (p \in missed \/ p \notin DOMAIN files')}
        BY <2>2
      <3> QED BY <2>2, <3>1, <3>2
    <2> QED BY <2>1, <2>2
  <1>4. chan' \in Seq(Line) /\ chan' # <<>> /\ (Len(chan') = 1 => Head(chan').ok = w.ok)
    BY <1>0, <1>2, Lines
  <1>5. p \in ToSet(task.todo) /\ p \in ToSet(dirty_ptrs)
    <2>1. p \in ToSet(task.todo)
      BY TaskFacts, ListSets
    <2> QED BY <2>1 DEF StateInv, SyncInv
  <1>6. TypeOK'
    BY <1>0, <1>1, <1>2, <1>4, TaskFacts, TypeStep
  <1>7. TrackInv'
    <2>1. DirtyCovers'
      BY <1>2, <1>3, <1>5 DEF StateInv, TrackInv, DirtyCovers, Stored
    <2> QED BY <2>1 DEF StateInv, TrackInv, IndexApart
  <1>8. PtrInv'
    <2>1. \A q \in DOMAIN heap : q < next_ptr
      BY DEF StateInv, PtrInv
    <2>2. \A q \in DOMAIN files \ missed : q < next_ptr
      BY DEF StateInv, PtrInv
    <2>3. \A q \in DOMAIN files' \ missed' : q < next_ptr
      BY <1>2, <1>3, <2>1, <2>2
    <2> QED BY <1>1, <2>1, <2>3 DEF PtrInv
  <1>9. /\ \A q \in DOMAIN task.seen : q < next_ptr
        /\ \A q \in DOMAIN heap \cap DOMAIN task.seen :
            heap[q].obj = task.seen[q].obj /\ heap[q].version >= task.seen[q].version
        /\ IndexApart(task.todo) /\ ToSet(task.todo) \subseteq ToSet(dirty_ptrs)
        /\ task.synced + Len(task.todo) <= task.count
        /\ task.synced + Len(task.todo) = task.count =>
            \A q \in DOMAIN task.seen \ escaped : q \in ToSet(task.todo) \/ Holds(q, task.seen[q])
    BY DEF StateInv, SyncInv
  <1>10. SentInv'
    <2>1. w.ok => (p \in DOMAIN task.seen => Holds(p, task.seen[p])')
      BY <1>1, <1>2, <1>9 DEF Holds
    <2>2. Len(chan') = 1 /\ Head(chan').ok => w.ok
      BY <1>4
    <2> QED BY <1>1, <1>2, <2>1, <2>2 DEF SentInv, Stored, Holds
  <1>11. SyncInv'
    <2>1. task.synced + Len(task.todo) = task.count =>
            \A q \in DOMAIN task.seen \ escaped' : q \in ToSet(task.todo) \/
                (q \in DOMAIN files' /\ files'[q].obj = task.seen[q].obj /\ files'[q].version >= task.seen[q].version)
      BY <1>2, <1>3, <1>5, <1>9 DEF Holds
    <2> QED BY <1>1, <1>4, <1>9, <2>1 DEF SyncInv, Holds, IndexApart
  <1>12. HeapAheadOfStore'
    <2> SUFFICES ASSUME NEW q \in DOMAIN heap \cap DOMAIN files', q \notin missed'
                 PROVE  heap[q].obj = files'[q].obj /\ ~(heap[q].version < files'[q].version)
      BY DEF HeapAheadOfStore, Overtaken
    <2>1. CASE files'[q] = heap[q]
      <3>1. heap[q].version \in Nat
        BY <1>0, StoreFacts
      <3> QED BY <2>1, <3>1
    <2>2. CASE files'[q] # heap[q]
      <3>1. q \in DOMAIN files /\ q \notin missed /\ files'[q] = files[q]
        BY <1>2, <1>3, <2>2
      <3> QED BY <3>1 DEF StateInv, HeapAheadOfStore, Overtaken
    <2> QED BY <2>1, <2>2
  <1>13. CompletedIsDurable'
    <2> SUFFICES ASSUME NEW e \in promised, e \notin ruined', e.completed, e.tracked
                 PROVE  /\ e.ptr \in DOMAIN files' /\ files'[e.ptr].obj = e.obj
                        /\ files'[e.ptr].version >= e.version
      BY DEF CompletedIsDurable, Kept
    <2>1. /\ e.ptr \in DOMAIN files /\ files[e.ptr].obj = e.obj /\ files[e.ptr].version >= e.version
          /\ e.version \in Nat
      BY <1>3 DEF StateInv, CompletedIsDurable, Kept, TypeOK
    <2>2. CASE e.ptr # p \/ files' = files
      BY <1>2, <2>1, <2>2
    <2>3. CASE e.ptr = p /\ files' # files
      <3>1. p \notin missed /\ p \in DOMAIN files' /\ files'[p] = heap[p]
        BY <1>2, <1>3, <2>3
      <3>2. heap[p].obj = files[p].obj /\ ~(heap[p].version < files[p].version)
        BY <2>1, <2>3, <3>1 DEF StateInv, HeapAheadOfStore, Overtaken
      <3>3. heap[p].version \in Nat /\ files[p].version \in Nat
        BY <1>0, <2>1, <2>3, StoreFacts
      <3> QED BY <2>1, <2>3, <3>1, <3>2, <3>3
    <2> QED BY <2>2, <2>3
  <1> QED BY <1>6, <1>7, <1>8, <1>10, <1>11, <1>12, <1>13 DEF StateInv

\* One turn of the loop of ak_state_sync_immediate, up to its request.
LEMMA SyncPutStep == ASSUME StateInv, SyncPut PROVE StateInv'
  <1> DEFINE p == Head(task.todo)
  <1>1. task.phase = "next" /\ task.todo # <<>>
    BY DEF SyncPut
  <1>2. UNCHANGED <<heap, next_ptr, dirty_ptrs, dirty_bitmap, writes, promised>>
    BY DEF SyncPut, tracking
  <1>3. CASE p \notin DOMAIN heap
    <2>1. task' = [task EXCEPT !.todo = Tail(@)] /\ UNCHANGED <<chan, files, escaped, missed, ruined>>
      BY <1>3 DEF SyncPut, history
    <2> QED BY <1>1, <1>2, <2>1, SkipStep
  <1>4. CASE p \in DOMAIN heap
    <2>1. task' = [task EXCEPT !.phase = "put"]
      BY <1>4 DEF SyncPut
    <2>2. PICK w \in Written(files, p, heap[p]) :
            /\ files' = w.store
            /\ chan' = Append(chan, [ok |-> w.ok, value |-> NoValue])
            /\ IF files' = files THEN UNCHANGED history
               ELSE /\ escaped' = IF p \in DOMAIN files' THEN escaped \ {p} ELSE escaped
                    /\ missed' = missed \ {p}
                    /\ ruined' = ruined \cup
                         {e \in promised : e.ptr = p /\ (p \in missed \/ p \notin DOMAIN files')}
      BY <1>4 DEF SyncPut
    <2> HIDE DEF p
    <2>3. p = Head(task.todo)
      BY DEF p
    <2> QED BY <1>1, <1>2, <1>4, <2>1, <2>2, <2>3, SendStep
  <1> QED BY <1>3, <1>4

\* Only an acknowledged object is marked clean, and that one is stored unless the
\* answer was another request's.
LEMMA SyncAckStep == ASSUME StateInv, SyncAck PROVE StateInv'
  <1>0. /\ TypeOK /\ Listed /\ IsStore(heap) /\ IsStore(files) /\ next_ptr \in 1..(MaxPtr + 1)
        /\ dirty_ptrs \in Seq(1..MaxPtr) /\ chan \in Seq(Line)
    BY Facts DEF StateInv, TrackInv, Listed
  <1>1. task.phase = "put" /\ UNCHANGED <<heap, next_ptr, files, writes, promised, missed, ruined>>
    BY DEF SyncAck, host
  <1>2. PICK p : p = Head(task.todo)
    OBVIOUS
  <1>3. PICK missing \in BOOLEAN :
        /\ chan' = IF missing THEN chan ELSE Tail(chan)
        /\ IF Acknowledged(missing)
           THEN /\ ak_state_mark_clean(p)
                /\ escaped' = escaped \cup {q \in {p} : Len(chan) > 1}
           ELSE UNCHANGED <<tracking, escaped>>
        /\ task' = [task EXCEPT !.phase = "next", !.todo = Tail(@),
                                !.synced = IF Acknowledged(missing) THEN @ + 1 ELSE @]
    BY <1>2 DEF SyncAck, Missing
  <1>4. /\ task.todo # <<>> /\ chan # <<>>
        /\ \A q \in DOMAIN task.seen : q < next_ptr
        /\ \A q \in DOMAIN heap \cap DOMAIN task.seen :
            heap[q].obj = task.seen[q].obj /\ heap[q].version >= task.seen[q].version
        /\ IndexApart(task.todo) /\ ToSet(task.todo) \subseteq ToSet(dirty_ptrs)
        /\ task.synced + Len(task.todo) <= task.count
        /\ task.synced + Len(task.todo) = task.count =>
            \A q \in DOMAIN task.seen \ escaped : q \in ToSet(task.todo) \/ Holds(q, task.seen[q])
    BY <1>1 DEF StateInv, SyncInv, SentInv
  <1>5. /\ p \in ToSet(task.todo) /\ Len(Tail(task.todo)) = Len(task.todo) - 1
        /\ ToSet(task.todo) = {p} \cup ToSet(Tail(task.todo))
        /\ task.todo \in Seq(1..MaxPtr)
    BY <1>2, <1>4, TaskFacts, ListSets
  <1>6. IndexApart(Tail(task.todo)) /\ p \notin ToSet(Tail(task.todo))
    BY <1>2, <1>4, <1>5, TailApart
  <1>7. chan' \in Seq(Line) /\ Len(chan) \in Nat /\ Len(chan) >= 1
    BY <1>0, <1>3, <1>4, Lines
  <1>8. CASE Acknowledged(missing)
    <2>1. /\ task' \in TaskType(task.seen) /\ task'.todo = Tail(task.todo) /\ task'.phase = "next"
          /\ task'.synced = task.synced + 1 /\ task'.count = task.count /\ task'.seen = task.seen
      <3> DEFINE n == task.synced + 1
      <3>1. n \in Nat /\ task' = [task EXCEPT !.phase = "next", !.todo = Tail(@), !.synced = n]
        BY <1>3, <1>8, TaskFacts
      <3> HIDE DEF n
      <3>2. /\ task' \in TaskType(task.seen) /\ task'.todo = Tail(task.todo) /\ task'.phase = "next"
            /\ task'.synced = n /\ task'.count = task.count /\ task'.seen = task.seen
        BY <1>4, <3>1, AckMoves
      <3> QED BY <3>2 DEF n
    <2>2. ak_state_mark_clean(p) /\ escaped' = escaped \cup {q \in {p} : Len(chan) > 1}
      BY <1>3, <1>8
    <2>3. /\ dirty_ptrs' \in Seq(1..MaxPtr) /\ Listed'
          /\ ToSet(dirty_ptrs') = ToSet(dirty_ptrs) \ {p}
      BY <1>0, <1>4, <1>5, <2>2, MarkClean
    <2>4. p \notin escaped' => Len(chan) = 1 /\ Head(chan).ok
      <3>1. Len(chan) > 1 \/ Len(chan) = 1
        <4>1. \A n \in Nat : n >= 1 => n > 1 \/ n = 1
          OBVIOUS
        <4> QED BY <1>7, <4>1, Zenon
      <3>2. Len(chan) > 1 => p \in escaped'
        BY <2>2
      <3>3. Head(chan).ok
        BY <1>8, Zenon DEF Acknowledged
      <3> QED BY <3>1, <3>2, <3>3
    <2>5. p \notin escaped' => /\ p \in DOMAIN heap => Stored(p)
                               /\ p \in DOMAIN task.seen => Holds(p, task.seen[p])
      BY <1>1, <1>2, <2>2, <2>4 DEF StateInv, SentInv
    <2>6. TypeOK'
      BY <1>0, <1>1, <1>7, <2>1, <2>3, TaskFacts, TypeStep
    <2>7. TrackInv'
      <3>1. DirtyCovers'
        BY <1>1, <2>2, <2>3, <2>5 DEF StateInv, TrackInv, DirtyCovers, Stored
      <3> QED BY <2>3, <3>1 DEF TrackInv, Listed
    <2>8. PtrInv' /\ SentInv' /\ HeapAheadOfStore' /\ CompletedIsDurable'
      BY <1>1, <2>1 DEF StateInv, PtrInv, SentInv, HeapAheadOfStore, Overtaken, CompletedIsDurable, Kept
    <2>9. SyncInv'
      <3>1. task'.synced + Len(task'.todo) = task.synced + Len(task.todo)
        BY <1>5, <2>1, TaskFacts
      <3>2. \A q \in DOMAIN task.seen \ escaped' :
                q \in ToSet(task.todo) => q \in ToSet(Tail(task.todo)) \/ Holds(q, task.seen[q])
        BY <1>5, <2>5
      <3>3. task.synced + Len(task.todo) = task.count =>
                \A q \in DOMAIN task.seen \ escaped' : q \in ToSet(Tail(task.todo)) \/ Holds(q, task.seen[q])
        BY <1>4, <2>2, <3>2
      <3>4. ToSet(Tail(task.todo)) \subseteq ToSet(dirty_ptrs')
        BY <1>4, <1>5, <1>6, <2>3
      <3>5. task'.synced + Len(task'.todo) = task'.count =>
                \A q \in DOMAIN task'.seen \ escaped' : q \in ToSet(task'.todo) \/ Holds(q, task.seen[q])'
        BY <1>1, <2>1, <3>1, <3>3 DEF Holds
      <3>6. task'.synced + Len(task'.todo) <= task'.count /\ IndexApart(task'.todo)
        BY <1>4, <1>6, <2>1, <3>1
      <3> QED BY <1>1, <1>4, <2>1, <3>4, <3>5, <3>6 DEF SyncInv, Holds, IndexApart
    <2> QED BY <2>6, <2>7, <2>8, <2>9 DEF StateInv
  <1>9. CASE ~Acknowledged(missing)
    <2>1. /\ task' \in TaskType(task.seen) /\ task'.todo = Tail(task.todo) /\ task'.phase = "next"
          /\ task'.synced = task.synced /\ task'.count = task.count /\ task'.seen = task.seen
      <3> DEFINE n == task.synced
      <3>1. n \in Nat /\ task' = [task EXCEPT !.phase = "next", !.todo = Tail(@), !.synced = n]
        BY <1>3, <1>9, TaskFacts
      <3> HIDE DEF n
      <3>2. /\ task' \in TaskType(task.seen) /\ task'.todo = Tail(task.todo) /\ task'.phase = "next"
            /\ task'.synced = n /\ task'.count = task.count /\ task'.seen = task.seen
        BY <1>4, <3>1, AckMoves
      <3> QED BY <3>2 DEF n
    <2>2. UNCHANGED <<dirty_ptrs, dirty_bitmap, escaped>>
      BY <1>3, <1>9 DEF tracking
    <2>3. TypeOK'
      BY <1>0, <1>1, <1>7, <2>1, <2>2, TaskFacts, TypeStep
    <2>4. TrackInv' /\ PtrInv' /\ SentInv'
      BY <1>1, <2>1, <2>2 DEF StateInv, TrackInv, DirtyCovers, Stored, PtrInv, SentInv, IndexApart
    <2>5. HeapAheadOfStore' /\ CompletedIsDurable'
      BY <1>1 DEF StateInv, HeapAheadOfStore, Overtaken, CompletedIsDurable, Kept
    <2>6. SyncInv'
      <3>1. task'.synced + Len(task'.todo) <= task'.count /\ task'.synced + Len(task'.todo) # task'.count
        BY <1>4, <1>5, <2>1, TaskFacts
      <3>2. IndexApart(task'.todo)
        BY <1>6, <2>1
      <3> QED BY <1>1, <1>4, <1>5, <2>1, <2>2, <3>1, <3>2 DEF SyncInv, IndexApart
    <2> QED BY <2>3, <2>4, <2>5, <2>6 DEF StateInv
  <1> QED BY <1>8, <1>9

\* A task ends and leaves the heap, the store and the tracking as they are.
LEMMA TaskEnds ==
    ASSUME StateInv, task' = Idle,
           UNCHANGED <<heap, next_ptr, dirty_ptrs, dirty_bitmap, files, escaped>>,
           missed' = missed \/ task.phase = "get",
           \A q \in DOMAIN files \ missed' : q < next_ptr
    PROVE  TrackInv' /\ PtrInv' /\ SentInv' /\ SyncInv' /\ HeapAheadOfStore'
  <1>1. task'.phase = "idle"
    BY IdleFacts
  <1>2. TrackInv'
    BY DEF StateInv, TrackInv, DirtyCovers, Stored, IndexApart
  <1>3. PtrInv' /\ SentInv' /\ SyncInv'
    BY <1>1 DEF StateInv, PtrInv, SentInv, SyncInv
  <1>4. HeapAheadOfStore'
    <2>1. CASE missed' = missed
      BY <2>1 DEF StateInv, HeapAheadOfStore, Overtaken
    <2>2. CASE task.phase = "get"
      <3>1. \A q \in DOMAIN heap : q \in DOMAIN files /\ heap[q] = files[q]
        BY <2>2 DEF StateInv, PtrInv
      <3>2. \A q \in DOMAIN files : files[q].version \in Nat
        BY Facts, StoreFacts DEF StateInv
      <3>3. \A q \in DOMAIN heap \cap DOMAIN files : ~Overtaken(q)
        BY <3>1, <3>2 DEF Overtaken
      <3> QED BY <3>3 DEF HeapAheadOfStore, Overtaken
    <2> QED BY <2>1, <2>2
  <1> QED BY <1>2, <1>3, <1>4

\* A failed sync changes nothing else.
LEMMA SyncFailedStep == ASSUME StateInv, SyncFailed PROVE StateInv'
  <1>0. /\ TypeOK /\ IsStore(heap) /\ IsStore(files) /\ next_ptr \in 1..(MaxPtr + 1)
        /\ dirty_ptrs \in Seq(1..MaxPtr) /\ chan \in Seq(Line)
    BY Facts DEF StateInv
  <1>1. task.phase = "next" /\ task' = Idle
    BY DEF SyncFailed
  <1>2. UNCHANGED <<heap, next_ptr, dirty_ptrs, dirty_bitmap, chan, files, writes, promised,
                    escaped, missed, ruined>>
    BY DEF SyncFailed, tracking, host, history
  <1>3. \A q \in DOMAIN files \ missed : q < next_ptr
    BY <1>1 DEF StateInv, PtrInv
  <1>4. TypeOK'
    BY <1>0, <1>1, <1>2, IdleFacts, TypeStep
  <1>5. TrackInv' /\ PtrInv' /\ SentInv' /\ SyncInv' /\ HeapAheadOfStore'
    BY <1>1, <1>2, <1>3, TaskEnds
  <1>6. CompletedIsDurable'
    BY <1>2 DEF StateInv, CompletedIsDurable, Kept
  <1> QED BY <1>4, <1>5, <1>6 DEF StateInv

\* An anchor changes neither the heap nor the stored objects.
LEMMA AnchorStep == ASSUME StateInv, ak_state_emit_anchor PROVE StateInv'
  <1>0. /\ TypeOK /\ IsStore(heap) /\ IsStore(files) /\ next_ptr \in 1..(MaxPtr + 1)
        /\ dirty_ptrs \in Seq(1..MaxPtr) /\ chan \in Seq(Line)
    BY Facts DEF StateInv
  <1>1. task.phase = "next" /\ task.todo = <<>> /\ task' = [task EXCEPT !.phase = "anchor"]
    BY DEF ak_state_emit_anchor
  <1>2. UNCHANGED <<heap, next_ptr, dirty_ptrs, dirty_bitmap, files, writes, promised,
                    escaped, missed, ruined>>
    BY DEF ak_state_emit_anchor, tracking, history
  <1>3. PICK w \in Written(anchors, anchor_sequence', boot) :
            chan' = Append(chan, [ok |-> w.ok, value |-> NoValue])
    BY DEF ak_state_emit_anchor
  <1>4. chan' \in Seq(Line) /\ chan' # <<>>
    <2>1. w.ok \in BOOLEAN
      <3>1. PICK x, S : w \in {[ok |-> TRUE, store |-> x]} \cup [ok : {FALSE}, store : S]
        BY <1>3 DEF Written
      <3>2. CASE w = [ok |-> TRUE, store |-> x]
        BY <3>2, Zenon
      <3>3. CASE w \in [ok : {FALSE}, store : S]
        BY <3>3
      <3> QED BY <3>1, <3>2, <3>3
    <2> QED BY <1>0, <1>3, <2>1, Lines
  <1>5. /\ task' \in TaskType(task.seen) /\ task'.todo = task.todo /\ task'.phase = "anchor"
        /\ task'.synced = task.synced /\ task'.count = task.count /\ task'.seen = task.seen
    BY <1>1, TaskFacts, PhaseChanges
  <1>6. TypeOK'
    BY <1>0, <1>2, <1>4, <1>5, TaskFacts, TypeStep
  <1>7. TrackInv' /\ PtrInv' /\ SentInv'
    BY <1>1, <1>2, <1>5 DEF StateInv, TrackInv, DirtyCovers, Stored, PtrInv, SentInv, IndexApart
  <1>8. HeapAheadOfStore' /\ CompletedIsDurable'
    BY <1>2 DEF StateInv, HeapAheadOfStore, Overtaken, CompletedIsDurable, Kept
  <1>9. SyncInv'
    BY <1>1, <1>2, <1>4, <1>5 DEF StateInv, SyncInv, Holds, IndexApart
  <1> QED BY <1>6, <1>7, <1>8, <1>9 DEF StateInv

\* When every object of the list was acknowledged, all that the sync saw is stored
\* or escaped.
LEMMA RespondStep == ASSUME StateInv, Respond PROVE StateInv'
  <1> USE StateSyncAssumption
  <1> DEFINE new == {[ptr |-> p, obj |-> task.seen[p].obj, version |-> task.seen[p].version,
                      completed |-> Completed, tracked |-> p \notin escaped] : p \in DOMAIN task.seen}
  <1>0. /\ TypeOK /\ IsStore(heap) /\ IsStore(files) /\ next_ptr \in 1..(MaxPtr + 1)
        /\ dirty_ptrs \in Seq(1..MaxPtr) /\ chan \in Seq(Line)
    BY Facts DEF StateInv
  <1>1. /\ task.phase = "anchor" /\ task' = Idle
        /\ chan' = chan \/ chan' = Tail(chan)
    BY DEF Respond, Missing
  <1>2. UNCHANGED <<heap, next_ptr, dirty_ptrs, dirty_bitmap, files, writes, escaped, missed, ruined>>
    BY DEF Respond, tracking, host, history
  <1>3. promised' = promised \/ promised' = promised \cup new
    BY DEF Respond
  <1>4. chan' \in Seq(Line)
    <2>1. chan # <<>>
      BY <1>1 DEF StateInv, SyncInv
    <2> QED BY <1>0, <1>1, <2>1, Lines
  <1>5. \A q \in DOMAIN files \ missed : q < next_ptr
    BY <1>1 DEF StateInv, PtrInv
  <1>6. \A e \in new : e.version \in Nat /\ (e.completed /\ e.tracked => Kept(e))
    <2> SUFFICES ASSUME NEW q \in DOMAIN task.seen,
                        NEW e, e = [ptr |-> q, obj |-> task.seen[q].obj, version |-> task.seen[q].version,
                                    completed |-> Completed, tracked |-> q \notin escaped]
                 PROVE  e.version \in Nat /\ (e.completed /\ e.tracked => Kept(e))
      OBVIOUS
    <2>1. e.ptr = q /\ e.obj = task.seen[q].obj /\ e.version = task.seen[q].version
      OBVIOUS
    <2>2. e.completed = Completed /\ e.tracked = (q \notin escaped)
      BY Zenon
    <2>3. e.version \in Nat
      BY <2>1, TaskFacts, StoreFacts
    <2>4. ASSUME Completed, q \notin escaped PROVE Kept(e)
      <3>1. task.synced = task.count
        BY <2>4 DEF Completed, Status
      <3>2. task.todo = <<>> /\ ToSet(task.todo) = {}
        BY <1>1, TaskFacts, ListSets DEF StateInv, SyncInv
      <3>3. task.synced + Len(task.todo) = task.count
        BY <3>1, <3>2, TaskFacts
      <3>4. Holds(q, task.seen[q])
        BY <1>1, <2>4, <3>2, <3>3 DEF StateInv, SyncInv
      <3> QED BY <2>1, <3>4 DEF Holds, Kept
    <2>5. e.completed /\ e.tracked => Kept(e)
      BY <2>2, <2>4, Zenon
    <2> QED BY <2>3, <2>5
  <1> HIDE DEF new
  <1>7. /\ \A e \in promised' : e.version \in Nat
        /\ \A e \in promised' \ ruined : e.completed /\ e.tracked => Kept(e)
    <2>1. /\ \A e \in promised : e.version \in Nat
          /\ \A e \in promised \ ruined : e.completed /\ e.tracked => Kept(e)
      BY DEF StateInv, TypeOK, CompletedIsDurable
    <2> QED BY <1>3, <1>6, <2>1, Zenon
  <1>8. CompletedIsDurable'
    <2>1. \A e : Kept(e)' <=> Kept(e)
      BY <1>2 DEF Kept
    <2> QED BY <1>2, <1>7, <2>1, Zenon DEF CompletedIsDurable
  <1>9. TypeOK'
    BY <1>0, <1>1, <1>2, <1>4, <1>7, IdleFacts DEF TypeOK, TaskType
  <1>10. TrackInv' /\ PtrInv' /\ SentInv' /\ SyncInv' /\ HeapAheadOfStore'
    BY <1>1, <1>2, <1>5, TaskEnds
  <1> QED BY <1>8, <1>9, <1>10 DEF StateInv

\* After a restart what the host lists is to be fetched.
LEMMA RestartStep == ASSUME StateInv, Restart PROVE StateInv'
  <1> USE StateSyncAssumption
  <1>0. TypeOK /\ IsStore(files)
    BY Facts DEF StateInv
  <1>1. heap' = <<>> /\ next_ptr' = 1 /\ dirty_ptrs' = <<>> /\ dirty_bitmap' = {} /\ chan' = <<>>
    BY DEF Restart
  <1>2. UNCHANGED <<files, writes, promised, ruined>>
    BY DEF Restart, host
  <1>3. PICK listed \in SUBSET DOMAIN files : task' = [Idle EXCEPT !.phase = "get", !.todo = SetToSeq(listed)]
    BY DEF Restart
  <1>4. SetToSeq(listed) \in Seq(1..MaxPtr) /\ ToSet(SetToSeq(listed)) = listed
    <2>1. listed \in SUBSET (1..MaxPtr)
      BY <1>0 DEF IsStore
    <2> QED BY <2>1, SetToSeqAll
  <1> DEFINE l == SetToSeq(listed)
  <1> HIDE DEF l
  <1>5. /\ task' \in TaskType(task'.seen) /\ task'.phase = "get" /\ task'.todo = l /\ task'.seen = <<>>
    <2>1. task' = [Idle EXCEPT !.phase = "get", !.todo = l] /\ l \in Seq(1..MaxPtr)
      BY <1>3, <1>4 DEF l
    <2>2. /\ task' \in TaskType(<<>>) /\ task'.phase = "get" /\ task'.todo = l /\ task'.seen = <<>>
      BY <2>1 DEF Idle, TaskType
    <2> QED BY <2>2
  <1>6. ToSet(task'.todo) \subseteq DOMAIN files
    BY <1>3, <1>4, <1>5 DEF l
  <1>7. IsStore(heap') /\ DOMAIN heap' = {} /\ IsStore(task'.seen)
    BY <1>1, <1>5, EmptyStore
  <1>8. next_ptr' \in 1..(MaxPtr + 1) /\ dirty_ptrs' \in Seq(1..MaxPtr) /\ chan' \in Seq(Line)
    BY <1>1
  <1>9. TypeOK'
    BY <1>0, <1>2, <1>5, <1>7, <1>8, TypeStep
  <1>10. TrackInv'
    <2>1. ToSet(dirty_ptrs') = {} /\ IndexApart(dirty_ptrs')
      BY <1>1 DEF ToSet, IndexApart
    <2> QED BY <1>1, <1>7, <2>1 DEF TrackInv, DirtyCovers, IndexApart
  <1>11. PtrInv' /\ HeapAheadOfStore'
    BY <1>1, <1>2, <1>5, <1>6, <1>7 DEF PtrInv, HeapAheadOfStore
  <1>12. SentInv' /\ SyncInv'
    BY <1>5 DEF SentInv, SyncInv
  <1>13. CompletedIsDurable'
    BY <1>2 DEF StateInv, CompletedIsDurable, Kept
  <1> QED BY <1>9, <1>10, <1>11, <1>12, <1>13 DEF StateInv

\* A line of the channel that answers a request for a stored object.
Answers(m) == m.value \in [ptr : DOMAIN files, val : Value] /\ m.value.val = files[m.value.ptr]

\* The answers on their way during hydration, with one more and with one fewer.
LEMMA AnswerLines ==
    ASSUME TypeOK, \A i \in 1..Len(chan) : Answers(chan[i]), NEW p \in DOMAIN files, NEW ok \in BOOLEAN,
           NEW lines, lines = Append(chan, [ok |-> ok, value |-> [ptr |-> p, val |-> files[p]]])
    PROVE  /\ lines \in Seq(Line) /\ lines # <<>> /\ Tail(lines) \in Seq(Line)
           /\ Answers(Head(lines))
           /\ \A i \in 1..Len(lines) : Answers(lines[i])
           /\ \A i \in 1..Len(Tail(lines)) : Answers(Tail(lines)[i])
  <1> USE StateSyncAssumption
  <1> DEFINE v == [ptr |-> p, val |-> files[p]]
             m == [ok |-> ok, value |-> v]
  <1>0. chan \in Seq(Line) /\ p \in 1..MaxPtr /\ files[p] \in Value
    BY Facts, StoreFacts
  <1>1. v \in [ptr : DOMAIN files, val : Value] /\ v \in [ptr : 1..MaxPtr, val : Value]
        /\ v.val = files[v.ptr]
    BY <1>0
  <1> HIDE DEF v
  <1>2. m \in Line /\ m.value = v
    BY <1>1 DEF Line
  <1>3. lines = Append(chan, m)
    BY DEF v
  <1> HIDE DEF m
  <1>4. Answers(m)
    BY <1>1, <1>2 DEF Answers
  <1>5. /\ lines \in Seq(Line) /\ lines # <<>> /\ Len(lines) = Len(chan) + 1 /\ Len(chan) \in Nat
        /\ lines[Len(chan) + 1] = m /\ \A i \in 1..Len(chan) : lines[i] = chan[i]
    BY <1>0, <1>2, <1>3
  <1>6. \A i \in 1..(Len(chan) + 1) : i \in 1..Len(chan) \/ i = Len(chan) + 1
    BY <1>5
  <1>7. \A i \in 1..Len(lines) : Answers(lines[i])
    BY <1>4, <1>5, <1>6
  <1>8. /\ Tail(lines) \in Seq(Line) /\ Head(lines) = lines[1] /\ Len(Tail(lines)) = Len(chan)
        /\ \A i \in 1..Len(chan) : Tail(lines)[i] = lines[i + 1]
    BY <1>5
  <1>9. 1 \in 1..Len(lines) /\ \A i \in 1..Len(chan) : i + 1 \in 1..Len(lines)
    BY <1>5
  <1>10. \A i \in 1..Len(Tail(lines)) : Answers(Tail(lines)[i])
    BY <1>7, <1>8, <1>9
  <1> QED BY <1>5, <1>7, <1>8, <1>9, <1>10

\* What is fetched is stored, and next_ptr is kept ahead of it.
LEMMA HydrateStep == ASSUME StateInv, HydrateObject PROVE StateInv'
  <1> USE StateSyncAssumption
  <1>0. /\ TypeOK /\ IsStore(heap) /\ IsStore(files) /\ next_ptr \in 1..(MaxPtr + 1)
        /\ dirty_ptrs \in Seq(1..MaxPtr)
    BY Facts DEF StateInv
  <1>1. task.phase = "get" /\ task.todo # <<>> /\ task' = [task EXCEPT !.todo = Tail(@)]
    BY DEF HydrateObject
  <1>2. UNCHANGED <<dirty_ptrs, dirty_bitmap, files, writes, promised, escaped, missed, ruined>>
    BY DEF HydrateObject, tracking, host, history
  <1>3. PICK p : p = Head(task.todo)
    OBVIOUS
  <1>4. PICK missing \in BOOLEAN, ok \in BOOLEAN :
        LET lines == Append(chan, [ok |-> ok, value |-> [ptr |-> p, val |-> files[p]]])
            answer == Head(lines)
        IN
        /\ chan' = IF missing THEN lines ELSE Tail(lines)
        /\ IF missing \/ ~answer.ok THEN UNCHANGED <<heap, next_ptr>>
           ELSE /\ heap' = Put(heap, answer.value.ptr, answer.value.val)
                /\ next_ptr' = Ahead(answer.value.ptr)
    BY <1>3 DEF HydrateObject, Missing
  <1>5. PICK lines : lines = Append(chan, [ok |-> ok, value |-> [ptr |-> p, val |-> files[p]]])
    OBVIOUS
  <1>6. PICK a : a = Head(lines)
    OBVIOUS
  <1>7. /\ chan' = IF missing THEN lines ELSE Tail(lines)
        /\ \/ UNCHANGED <<heap, next_ptr>>
           \/ heap' = Put(heap, a.value.ptr, a.value.val) /\ next_ptr' = Ahead(a.value.ptr)
    BY <1>4, <1>5, <1>6
  <1>8. /\ p \in DOMAIN files /\ ToSet(Tail(task.todo)) \subseteq DOMAIN files
    <2>1. p \in ToSet(task.todo) /\ ToSet(Tail(task.todo)) \subseteq ToSet(task.todo)
      BY <1>1, <1>3, TaskFacts, ListSets
    <2> QED BY <1>1, <2>1 DEF StateInv, PtrInv
  <1>9. \A i \in 1..Len(chan) : Answers(chan[i])
    BY <1>1 DEF StateInv, PtrInv, Answers
  <1>10. /\ lines \in Seq(Line) /\ Tail(lines) \in Seq(Line) /\ Answers(a)
         /\ \A i \in 1..Len(lines) : Answers(lines[i])
         /\ \A i \in 1..Len(Tail(lines)) : Answers(Tail(lines)[i])
    BY <1>0, <1>5, <1>6, <1>8, <1>9, AnswerLines
  <1>11. chan' \in Seq(Line) /\ \A i \in 1..Len(chan') : Answers(chan'[i])
    BY <1>7, <1>10
  <1>12. /\ \A q \in DOMAIN heap : q < next_ptr
         /\ \A q \in DOMAIN heap : q \in DOMAIN files /\ heap[q] = files[q]
    BY <1>1 DEF StateInv, PtrInv
  <1>13. /\ IsStore(heap') /\ next_ptr' \in 1..(MaxPtr + 1)
         /\ \A q \in DOMAIN heap' : q < next_ptr' /\ q \in DOMAIN files /\ heap'[q] = files[q]
    <2>1. CASE UNCHANGED <<heap, next_ptr>>
      BY <1>0, <1>12, <2>1
    <2>2. CASE heap' = Put(heap, a.value.ptr, a.value.val) /\ next_ptr' = Ahead(a.value.ptr)
      <3>1. PICK r : r = a.value.ptr
        OBVIOUS
      <3>2. r \in DOMAIN files /\ a.value.val = files[r]
        BY <1>10, <3>1 DEF Answers
      <3>3. r \in 1..MaxPtr /\ files[r] \in Value
        BY <1>0, <3>2, StoreFacts
      <3>4. /\ IsStore(Put(heap, r, files[r])) /\ DOMAIN Put(heap, r, files[r]) = DOMAIN heap \cup {r}
            /\ Put(heap, r, files[r])[r] = files[r]
            /\ \A q \in DOMAIN heap : q # r => Put(heap, r, files[r])[q] = heap[q]
        BY <1>0, <3>3, PutStore
      <3>5. /\ IsStore(heap') /\ DOMAIN heap' = DOMAIN heap \cup {r} /\ heap'[r] = files[r]
            /\ \A q \in DOMAIN heap : q # r => heap'[q] = heap[q]
        BY <2>2, <3>1, <3>2, <3>4
      <3>6. next_ptr' \in 1..(MaxPtr + 1) /\ r < next_ptr' /\ next_ptr <= next_ptr'
        BY <1>0, <2>2, <3>1, <3>3 DEF Ahead
      <3>7. \A q \in DOMAIN heap : q \in 1..MaxPtr
        BY <1>0, StoreFacts
      <3>8. \A q \in 1..MaxPtr : q < next_ptr => q < next_ptr'
        BY <1>0, <3>6
      <3> QED BY <1>12, <3>2, <3>5, <3>6, <3>7, <3>8
    <2> QED BY <1>7, <2>1, <2>2
  <1>14. /\ task' \in TaskType(task.seen) /\ task'.todo = Tail(task.todo) /\ task'.phase = "get"
         /\ task'.seen = task.seen
    BY <1>1, TodoMoves
  <1>15. TypeOK'
    BY <1>0, <1>2, <1>11, <1>13, <1>14, TaskFacts, TypeStep
  <1>16. TrackInv'
    BY <1>2, <1>13 DEF StateInv, TrackInv, DirtyCovers, Stored, IndexApart
  <1>17. PtrInv'
    BY <1>2, <1>8, <1>11, <1>13, <1>14 DEF PtrInv, Answers
  <1>18. HeapAheadOfStore'
    <2>1. \A q \in DOMAIN files : files[q].version \in Nat
      BY <1>0, StoreFacts
    <2> QED BY <1>2, <1>13, <2>1 DEF HeapAheadOfStore, Overtaken
  <1>19. SentInv' /\ SyncInv'
    BY <1>14 DEF SentInv, SyncInv
  <1>20. CompletedIsDurable'
    BY <1>2 DEF StateInv, CompletedIsDurable, Kept
  <1> QED BY <1>15, <1>16, <1>17, <1>18, <1>19, <1>20 DEF StateInv

\* Once the list is empty, next_ptr is ahead of everything that was brought back.
LEMMA HydratedStep == ASSUME StateInv, Hydrated PROVE StateInv'
  <1>0. /\ TypeOK /\ IsStore(heap) /\ IsStore(files) /\ next_ptr \in 1..(MaxPtr + 1)
        /\ dirty_ptrs \in Seq(1..MaxPtr) /\ chan \in Seq(Line)
    BY Facts DEF StateInv
  <1>1. task.phase = "get" /\ task' = Idle /\ missed' = DOMAIN files \ DOMAIN heap
    BY DEF Hydrated
  <1>2. UNCHANGED <<heap, next_ptr, dirty_ptrs, dirty_bitmap, chan, files, writes, promised, escaped, ruined>>
    BY DEF Hydrated, tracking, host
  <1>3. \A q \in DOMAIN files \ missed' : q < next_ptr
    BY <1>1 DEF StateInv, PtrInv
  <1>4. TypeOK'
    BY <1>0, <1>1, <1>2, IdleFacts, TypeStep
  <1>5. TrackInv' /\ PtrInv' /\ SentInv' /\ SyncInv' /\ HeapAheadOfStore'
    BY <1>1, <1>2, <1>3, TaskEnds
  <1>6. CompletedIsDurable'
    BY <1>2 DEF StateInv, CompletedIsDurable, Kept
  <1> QED BY <1>4, <1>5, <1>6 DEF StateInv

\* Nor does a step that changes nothing.
LEMMA StateStutters == ASSUME StateInv, UNCHANGED vars PROVE StateInv'
  <1>1. UNCHANGED <<heap, next_ptr, dirty_ptrs, dirty_bitmap, chan, files, task, writes, promised,
                    escaped, missed, ruined>>
    BY DEF vars, tracking, host, history
  <1>2. TypeOK'
    BY <1>1 DEF StateInv, TypeOK
  <1>3. TrackInv' /\ PtrInv' /\ SentInv'
    BY <1>1 DEF StateInv, TrackInv, DirtyCovers, Stored, PtrInv, SentInv, Holds, IndexApart
  <1>4. SyncInv' /\ HeapAheadOfStore' /\ CompletedIsDurable'
    BY <1>1 DEF StateInv, SyncInv, Holds, HeapAheadOfStore, Overtaken, CompletedIsDurable, Kept, IndexApart
  <1> QED BY <1>2, <1>3, <1>4 DEF StateInv

\* Every step keeps the invariant.
LEMMA StateStep == ASSUME StateInv, [Next]_vars PROVE StateInv'
  <1>1. CASE Alloc BY <1>1, AllocStep
  <1>2. CASE Change BY <1>2, ChangeStep
  <1>3. CASE Purge BY <1>3, PurgeStep
  <1>4. ASSUME NEW kind \in {"commit", "shutdown"}, ak_state_sync(kind) PROVE StateInv'
    BY <1>4, SyncStep
  <1>5. CASE SyncPut BY <1>5, SyncPutStep
  <1>6. CASE SyncAck BY <1>6, SyncAckStep
  <1>7. CASE SyncFailed BY <1>7, SyncFailedStep
  <1>8. CASE ak_state_emit_anchor BY <1>8, AnchorStep
  <1>9. CASE Respond BY <1>9, RespondStep
  <1>10. CASE Restart BY <1>10, RestartStep
  <1>11. CASE HydrateObject BY <1>11, HydrateStep
  <1>12. CASE Hydrated BY <1>12, HydratedStep
  <1>13. CASE UNCHANGED vars BY <1>13, StateStutters
  <1> QED BY <1>1, <1>2, <1>3, <1>4, <1>5, <1>6, <1>7, <1>8, <1>9, <1>10, <1>11, <1>12, <1>13 DEF Next

-----------------------------------------------------------------------------
(* The theorems *)

\* StateInv is an invariant of the checkpoint and sync code.
THEOREM StateSound == Spec => []StateInv
  <1>1. StateInv /\ [Next]_vars => StateInv'
    BY StateStep
  <1> QED BY <1>1, StateInit, PTL DEF Spec

\* An object whose stored value is not the heap's stays in the dirty list unless a
\* change of it escaped: with writes during a sync, bits that are shared, answers
\* left unread, whatever writes fail or cut a record, and wherever the system
\* restarts, ak_state_mark_clean is called for nothing else that is not stored.
THEOREM DirtyTracked == Spec => []DirtyCovers
  <1>1. StateInv => DirtyCovers
    BY DEF StateInv, TrackInv
  <1> QED BY <1>1, StateSound, PTL

\* No allocation after ak_state_hydrate takes the ptr of a stored object that it
\* brought back, and the heap is never older than what is stored of such an object.
THEOREM HeapNeverBehind == Spec => []HeapAheadOfStore
  <1>1. StateInv => HeapAheadOfStore
    BY DEF StateInv
  <1> QED BY <1>1, StateSound, PTL

\* What a sync that answered AK_SYNC_COMPLETED saw and had not missed is stored from
\* then on, in that version or a later one, until a failed write cuts the record or
\* the object is skipped by a hydration and overwritten.
THEOREM CompletedDurable == Spec => []CompletedIsDurable
  <1>1. StateInv => CompletedIsDurable
    BY DEF StateInv
  <1> QED BY <1>1, StateSound, PTL
=============================================================================
