--------------------------- MODULE RateLimitProof ---------------------------
(***************************************************************************)
(* Proofs about RateLimit.tla for every limit, window, table size, set of     *)
(* tokens and number of threads: the table's bound, and the rate of every     *)
(* token whose windows no overtaken clock reading has closed or opened.       *)
(***************************************************************************)
EXTENDS RateLimit, FiniteSetTheorems, SequenceTheorems, TLAPS

\* Thread t's check of c opens a window, and the counter it then goes by.
Opens(t, c, tab) == c \notin DOMAIN tab \/ Expired(now_ms[t], tab[c].start)
Cur(t, c, tab) == IF Opens(t, c, tab) THEN [count |-> 0, start |-> now_ms[t]] ELSE tab[c]

\* A table a check may work on: the counters, swept or not.
LeftOf(tab, at) ==
    /\ DOMAIN tab \subseteq DOMAIN counters
    /\ \A d \in DOMAIN tab : tab[d] = counters[d]
    /\ \A d \in DOMAIN counters \ DOMAIN tab : Expired(at, counters[d].start)

\* A difference that is no negative number does not wrap.
LEMMA ModSmall ==
    ASSUME NEW x \in Nat, x < WordMod PROVE x % WordMod = x
  BY RateAssumption

\* The sweep throws away passed windows only.
LEMMA SweptLeft == ASSUME NEW at PROVE LeftOf(Swept(at), at) /\ LeftOf(counters, at)
  BY DEF LeftOf, Swept, Sweep

\* What a check does, case by case.
LEMMA CheckCases ==
    ASSUME NEW t \in Threads, Check(t) \/ CheckNoMemory(t)
    PROVE  /\ asked[t] # NoToken /\ asked' = [asked EXCEPT ![t] = NoToken]
           /\ UNCHANGED <<now, now_ms, checks>>
           /\ \E tab : /\ LeftOf(tab, now_ms[t])
                       /\ \/ FailClosed(t, tab)
                          \/ /\ asked[t] \in DOMAIN tab \/ Cardinality(DOMAIN tab) < MaxEntries
                             /\ Count(t, asked[t], tab)
  <1>1. CASE CheckNoMemory(t)
    BY <1>1, SweptLeft DEF CheckNoMemory
  <1>2. CASE Check(t)
    <2> DEFINE tab == IF asked[t] \in DOMAIN counters THEN counters ELSE Swept(now_ms[t])
    <2>1. LeftOf(tab, now_ms[t])
      BY SweptLeft
    <2>2. \/ FailClosed(t, tab)
          \/ /\ asked[t] \in DOMAIN tab \/ Cardinality(DOMAIN tab) < MaxEntries
             /\ Count(t, asked[t], tab)
      BY <1>2 DEF Check
    <2>3. asked[t] # NoToken /\ asked' = [asked EXCEPT ![t] = NoToken] /\ UNCHANGED <<now, now_ms, checks>>
      BY <1>2 DEF Check
    <2> QED BY <2>1, <2>2, <2>3
  <1> QED BY <1>1, <1>2

\* The counter is a counter, and what the lock protects is left in this state.
LEMMA CountCases ==
    ASSUME NEW t \in Threads, NEW c \in Tokens, NEW tab, TableInv, LeftOf(tab, now_ms[t]), Count(t, c, tab)
    PROVE  /\ Cur(t, c, tab).count \in 0..Limit /\ Cur(t, c, tab).start \in 0..now
           /\ DOMAIN counters' = DOMAIN tab \cup {c}
           /\ \A d \in DOMAIN tab \ {c} : counters'[d] = tab[d]
           /\ counters'[c].start = Cur(t, c, tab).start
           /\ \/ /\ Cur(t, c, tab).count < Limit
                 /\ counters'[c].count = Cur(t, c, tab).count + 1
                 /\ admitted' = [admitted EXCEPT ![c] = Append(@, now)]
              \/ /\ Cur(t, c, tab).count = Limit
                 /\ counters'[c].count = Cur(t, c, tab).count
                 /\ UNCHANGED admitted
           /\ stale' = stale \cup Misjudged(now_ms[t], tab, IF Opens(t, c, tab) THEN {c} ELSE {})
           /\ counters'[c] \in [count : Nat, start : Nat]
  <1> USE RateAssumption
  <1> DEFINE cur == Cur(t, c, tab)
             new == IF Admits(cur.count) THEN [cur EXCEPT !.count = @ + 1] ELSE cur
  <1>1. /\ counters' = [d \in DOMAIN tab \cup {c} |-> IF d = c THEN new ELSE tab[d]]
        /\ admitted' = IF Admits(cur.count) THEN [admitted EXCEPT ![c] = Append(@, now)] ELSE admitted
        /\ stale' = stale \cup Misjudged(now_ms[t], tab, IF Opens(t, c, tab) THEN {c} ELSE {})
    BY DEF Count, Cur, Opens
  <1>2. cur.count \in 0..Limit /\ cur.start \in 0..now /\ cur \in [count : Nat, start : Nat]
    <2>1. now_ms[t] \in 0..now /\ now \in Nat /\ Limit \in Nat
      BY DEF TableInv, TypeOK
    <2>2. CASE c \in DOMAIN tab
      <3>1. tab[c].count \in 0..Limit /\ tab[c].start \in 0..now /\ tab[c] \in [count : Nat, start : Nat]
        BY <2>2 DEF TableInv, TypeOK, TableOK, LeftOf
      <3> QED BY <2>1, <2>2, <3>1 DEF Cur
    <2>3. CASE c \notin DOMAIN tab
      BY <2>1, <2>3 DEF Cur, Opens
    <2> QED BY <2>2, <2>3
  <1>3. Admits(cur.count) <=> cur.count < Limit
    BY DEF Admits
  <1> QED BY <1>1, <1>2, <1>3
-----------------------------------------------------------------------------
(* TableInv *)

\* The table starts empty.
LEMMA TableInit == Init => TableInv
  <1> SUFFICES ASSUME Init PROVE TableInv
    OBVIOUS
  <1>1. DOMAIN counters = {}
    BY DEF Init
  <1>2. IsFiniteSet(DOMAIN counters) /\ Cardinality(DOMAIN counters) = 0
    BY <1>1, FS_EmptySet
  <1>3. TypeOK
    BY <1>1, RateAssumption DEF Init, TypeOK
  <1> QED BY <1>1, <1>2, <1>3, RateAssumption DEF TableInv, TableOK

\* Every step keeps the table within its bound, whatever thread takes it.
LEMMA TableStep == TableInv /\ [Next]_vars => TableInv'
  <1> SUFFICES ASSUME TableInv, [Next]_vars PROVE TableInv'
    OBVIOUS
  <1> USE RateAssumption
  <1>0. now \in 0..MaxTime /\ now \in Nat /\ MaxTime \in Nat
    BY DEF TableInv, TypeOK
  <1>1. CASE Tick
    <2>1. now' = now + 1 /\ now' \in 0..MaxTime /\ UNCHANGED <<counters, asked, now_ms, admitted, checks, stale>>
      BY <1>0, <1>1 DEF Tick
    <2>2. 0..now \subseteq 0..now'
      BY <1>0, <2>1
    <2>3. admitted' \in [Tokens -> Seq(0..now')]
      <3>1. \A s \in Seq(0..now) : s \in Seq(0..now')
        BY <2>2, SeqMonotonic
      <3> QED BY <2>1, <3>1 DEF TableInv, TypeOK
    <2>4. now_ms' \in [Threads -> 0..now']
      BY <2>1, <2>2 DEF TableInv, TypeOK
    <2>5. TableOK'
      BY <2>1, <2>2 DEF TableInv, TableOK
    <2> QED BY <2>1, <2>3, <2>4, <2>5 DEF TableInv, TypeOK
  <1>2. ASSUME NEW t \in Threads, ReadClock(t) PROVE TableInv'
    BY <1>0, <1>2 DEF ReadClock, TableInv, TypeOK, TableOK
  <1>3. ASSUME NEW t \in Threads, Check(t) \/ CheckNoMemory(t) PROVE TableInv'
    <2>1. /\ asked[t] # NoToken /\ asked' = [asked EXCEPT ![t] = NoToken]
          /\ UNCHANGED <<now, now_ms, checks>>
      BY <1>3, CheckCases
    <2>2. PICK tab : /\ LeftOf(tab, now_ms[t])
                     /\ \/ FailClosed(t, tab)
                        \/ /\ asked[t] \in DOMAIN tab \/ Cardinality(DOMAIN tab) < MaxEntries
                           /\ Count(t, asked[t], tab)
      BY <1>3, CheckCases
    <2>3. IsFiniteSet(DOMAIN counters) /\ Cardinality(DOMAIN counters) <= MaxEntries
      BY DEF TableInv, TableOK
    <2>4. DOMAIN tab \subseteq DOMAIN counters
      BY <2>2 DEF LeftOf
    <2>5. /\ IsFiniteSet(DOMAIN tab) /\ Cardinality(DOMAIN tab) \in Nat /\ Cardinality(DOMAIN tab) <= MaxEntries
      BY <2>3, <2>4, FS_Subset, FS_CardinalityType
    <2>6. \A d \in DOMAIN tab : /\ tab[d].count \in 0..Limit /\ tab[d].start \in 0..now
                                /\ tab[d] \in [count : Nat, start : Nat]
      BY <2>2 DEF LeftOf, TableInv, TypeOK, TableOK
    <2>7. CASE FailClosed(t, tab)
      <3>1. counters' = tab /\ UNCHANGED admitted /\ stale' \subseteq Tokens
        BY <2>7 DEF FailClosed, Misjudged, TableInv, TypeOK
      <3> QED BY <2>1, <2>4, <2>5, <2>6, <3>1 DEF TableInv, TypeOK, TableOK
    <2>8. CASE /\ asked[t] \in DOMAIN tab \/ Cardinality(DOMAIN tab) < MaxEntries
               /\ Count(t, asked[t], tab)
      <3> DEFINE c == asked[t]
      <3>1. c \in Tokens
        BY <2>1 DEF TableInv, TypeOK
      <3>2. /\ Cur(t, c, tab).count \in 0..Limit /\ Cur(t, c, tab).start \in 0..now
            /\ DOMAIN counters' = DOMAIN tab \cup {c}
            /\ \A d \in DOMAIN tab \ {c} : counters'[d] = tab[d]
            /\ counters'[c].start = Cur(t, c, tab).start
            /\ \/ /\ Cur(t, c, tab).count < Limit
                  /\ counters'[c].count = Cur(t, c, tab).count + 1
                  /\ admitted' = [admitted EXCEPT ![c] = Append(@, now)]
               \/ /\ Cur(t, c, tab).count = Limit
                  /\ counters'[c].count = Cur(t, c, tab).count
                  /\ UNCHANGED admitted
            /\ stale' = stale \cup Misjudged(now_ms[t], tab, IF Opens(t, c, tab) THEN {c} ELSE {})
            /\ counters'[c] \in [count : Nat, start : Nat]
        BY <2>2, <2>8, <3>1, CountCases
      <3> HIDE DEF c
      <3>3. counters'[c].count \in 0..Limit /\ counters'[c].start \in 0..now
        BY <3>2
      <3>4. IsFiniteSet(DOMAIN counters') /\ Cardinality(DOMAIN counters') <= MaxEntries
        <4>1. CASE c \in DOMAIN tab
          <5>1. DOMAIN counters' = DOMAIN tab
            BY <3>2, <4>1
          <5> QED BY <2>5, <5>1
        <4>2. CASE c \notin DOMAIN tab
          <5>1. /\ IsFiniteSet(DOMAIN tab \cup {c})
                /\ Cardinality(DOMAIN tab \cup {c}) = Cardinality(DOMAIN tab) + 1
            BY <2>5, <4>2, FS_AddElement
          <5>2. Cardinality(DOMAIN tab) < MaxEntries
            BY <2>8, <4>2 DEF c
          <5> QED BY <2>5, <3>2, <5>1, <5>2
        <4> QED BY <4>1, <4>2
      <3>5. admitted' \in [Tokens -> Seq(0..now)]
        <4>1. admitted \in [Tokens -> Seq(0..now)] /\ now \in 0..now
          BY <1>0 DEF TableInv, TypeOK
        <4>2. Append(admitted[c], now) \in Seq(0..now)
          BY <3>1, <4>1 DEF c
        <4> QED BY <3>2, <4>1, <4>2
      <3>6. /\ DOMAIN counters' \subseteq Tokens
            /\ \A d \in DOMAIN counters' : /\ counters'[d].count \in 0..Limit /\ counters'[d].start \in 0..now
                                           /\ counters'[d] \in [count : Nat, start : Nat]
        BY <2>4, <2>6, <3>1, <3>2, <3>3 DEF TableInv, TypeOK, c
      <3>7. stale' \subseteq Tokens
        BY <3>2 DEF Misjudged, TableInv, TypeOK
      <3> QED BY <2>1, <3>4, <3>5, <3>6, <3>7 DEF TableInv, TypeOK, TableOK
    <2> QED BY <2>2, <2>7, <2>8
  <1>4. CASE UNCHANGED vars
    BY <1>4 DEF vars, TableInv, TypeOK, TableOK
  <1> QED BY <1>1, <1>2, <1>3, <1>4 DEF Next

-----------------------------------------------------------------------------
(* RateInv *)

\* Time going on keeps what is known of a token's admissions.
LEMMA WindowLater ==
    ASSUME NEW A \in Seq(Nat), NEW tab, NEW c, NEW T \in Nat, NEW U \in Nat, T <= U,
           c \in DOMAIN tab => tab[c] \in [count : Nat, start : Nat],
           WindowInv(A, tab, c, T)
    PROVE  WindowInv(A, tab, c, U)
  <1>1. \A i \in 1..Len(A) : A[i] \in Nat
    OBVIOUS
  <1>2. ASSUME NEW k \in Nat, \A i \in 1..(Len(A) - k - Limit) : A[i] + Window < T
        PROVE  \A i \in 1..(Len(A) - k - Limit) : A[i] + Window < U
    BY <1>1, <1>2, RateAssumption
  <1>3. CASE c \in DOMAIN tab
    BY <1>2, <1>3 DEF WindowInv, BeforeWindow
  <1>4. CASE c \notin DOMAIN tab
    <2>1. \A i \in 1..(Len(A) - 0) : A[i] <= U
      BY <1>1, <1>4 DEF WindowInv, BeforeWindow
    <2> QED BY <1>2, <1>4, <2>1 DEF WindowInv, BeforeWindow
  <1> QED BY <1>3, <1>4

\* A window that has passed leaves nothing that the next one has to know, if the
\* reading that says so is not older than the window.
LEMMA WindowPassed ==
    ASSUME NEW A \in Seq(Nat), NEW k \in 0..Limit, NEW s \in Nat, NEW at \in Nat,
           NEW T \in 0..MaxTime, T <= at, s <= T,
           Expired(T, s), BeforeWindow(A, k, s, at)
    PROVE  \A i \in 1..(Len(A) - Limit) : A[i] + Window < at
  <1> USE RateAssumption
  <1>1. T - s > Window
    <2>1. T - s \in Nat /\ T - s < WordMod
      OBVIOUS
    <2>2. (T - s) % WordMod = T - s
      BY <2>1, ModSmall
    <2> QED BY <2>2 DEF Expired
  <1>2. \A i \in 1..Len(A) : A[i] \in Nat
    OBVIOUS
  <1>3. ASSUME NEW i \in 1..(Len(A) - Limit) PROVE A[i] + Window < at
    <2>1. i \in 1..(Len(A) - k) /\ i \in 1..Len(A)
      OBVIOUS
    <2>2. A[i] <= s /\ A[i] \in Nat
      BY <1>2, <2>1 DEF BeforeWindow
    <2> QED BY <1>1, <2>2
  <1> QED BY <1>3

\* One more admission, at a time when the window is not full.
LEMMA WindowAdmits ==
    ASSUME NEW A \in Seq(Nat), NEW k \in Nat, NEW s \in Nat, NEW m \in Nat, k < Limit,
           BeforeWindow(A, k, s, m),
           \A i \in 1..Len(A) : i + 2 * Limit <= Len(A) => A[i + 2 * Limit] - A[i] > Window
    PROVE  LET B == Append(A, m) IN
           /\ BeforeWindow(B, k + 1, s, m)
           /\ \A i \in 1..Len(B) : i + 2 * Limit <= Len(B) => B[i + 2 * Limit] - B[i] > Window
  <1> USE RateAssumption
  <1> DEFINE B == Append(A, m)
             n == Len(A)
  <1>1. n \in Nat /\ Len(B) = n + 1 /\ B[n + 1] = m /\ \A i \in 1..n : B[i] = A[i] /\ A[i] \in Nat
    OBVIOUS
  <1>2. /\ k < Limit /\ k <= n
        /\ \A i \in 1..(n - k) : A[i] <= s
        /\ \A i \in 1..(n - k - Limit) : A[i] + Window < m
        /\ \A i \in 1..n : i + 2 * Limit <= n => A[i + 2 * Limit] - A[i] > Window
    BY DEF BeforeWindow
  <1> HIDE DEF B, n
  <1>3. BeforeWindow(B, k + 1, s, m)
    <2>1. \A i \in 1..(Len(B) - (k + 1)) : i \in 1..(n - k) /\ i \in 1..n
      BY <1>1, <1>2
    <2>2. \A i \in 1..(Len(B) - (k + 1) - Limit) : i \in 1..(n - k - Limit) /\ i \in 1..n
      BY <1>1, <1>2
    <2>3. k + 1 <= Len(B)
      BY <1>1, <1>2
    <2> QED BY <1>1, <1>2, <2>1, <2>2, <2>3 DEF BeforeWindow
  <1>4. ASSUME NEW i \in 1..Len(B), i + 2 * Limit <= Len(B) PROVE B[i + 2 * Limit] - B[i] > Window
    <2>1. CASE i + 2 * Limit <= n
      <3>1. i \in 1..n /\ i + 2 * Limit \in 1..n
        BY <1>1, <1>4, <2>1
      <3> QED BY <1>1, <1>2, <2>1, <3>1
    <2>2. CASE i + 2 * Limit = n + 1
      <3>1. i \in 1..(n - k - Limit) /\ i \in 1..n
        BY <1>1, <1>2, <2>2
      <3>2. A[i] + Window < m /\ B[i] = A[i] /\ A[i] \in Nat /\ B[i + 2 * Limit] = m
        BY <1>1, <1>2, <2>2, <3>1
      <3> QED BY <3>2
    <2> QED BY <1>1, <1>4, <2>1, <2>2
  <1> QED BY <1>3, <1>4 DEF B

\* Nothing was admitted yet.
LEMMA RateInit == Init => RateInv
  <1> SUFFICES ASSUME Init PROVE RateInv
    OBVIOUS
  <1>1. TableInv
    BY TableInit
  <1>2. DOMAIN counters = {} /\ \A c \in Tokens : admitted[c] = <<>> /\ Len(admitted[c]) = 0
    BY DEF Init
  <1>3. RateBounded
    BY <1>2 DEF RateBounded, Bounded
  <1>4. \A c \in Tokens : WindowInv(admitted[c], counters, c, now)
    BY <1>2, RateAssumption DEF WindowInv, BeforeWindow
  <1> QED BY <1>1, <1>3, <1>4 DEF RateInv

\* Every step keeps RateInv, whatever thread takes it.
LEMMA RateStep == RateInv /\ [Next]_vars => RateInv'
  <1> SUFFICES ASSUME RateInv, [Next]_vars PROVE RateInv'
    OBVIOUS
  <1> USE RateAssumption
  <1>0. TableInv /\ TableInv'
    BY TableStep DEF RateInv
  <1>1. /\ now \in 0..MaxTime /\ now \in Nat /\ now' \in Nat
        /\ \A u \in Threads : now_ms[u] \in 0..MaxTime /\ now_ms[u] \in 0..now
        /\ \A c \in Tokens : admitted[c] \in Seq(Nat) /\ \A i \in 1..Len(admitted[c]) : admitted[c][i] \in 0..now
        /\ \A c \in DOMAIN counters : /\ counters[c] \in [count : Nat, start : Nat]
                                      /\ counters[c].count \in 0..Limit /\ counters[c].start \in 0..now
    <2>1. now \in 0..MaxTime /\ now_ms \in [Threads -> 0..now] /\ now' \in 0..MaxTime
      BY <1>0 DEF TableInv, TypeOK
    <2>2. \A c \in Tokens : admitted[c] \in Seq(0..now)
      BY <1>0 DEF TableInv, TypeOK
    <2>3. \A c \in Tokens : admitted[c] \in Seq(Nat)
      <3>1. 0..now \subseteq Nat
        BY <2>1
      <3> QED BY <2>2, <3>1, SeqMonotonic
    <2> QED BY <1>0, <2>1, <2>2, <2>3 DEF TableInv, TypeOK, TableOK
  <1>2. CASE UNCHANGED <<counters, admitted, stale>> /\ now <= now'
    <2>1. RateBounded'
      BY <1>2 DEF RateInv, RateBounded, Bounded
    <2>2. \A c \in Tokens \ stale : WindowInv(admitted[c], counters, c, now')
      BY <1>1, <1>2, WindowLater DEF RateInv
    <2> QED BY <1>0, <1>2, <2>1, <2>2 DEF RateInv
  <1>3. CASE Tick
    BY <1>1, <1>2, <1>3 DEF Tick
  <1>4. ASSUME NEW t \in Threads, ReadClock(t) PROVE RateInv'
    BY <1>1, <1>2, <1>4 DEF ReadClock
  <1>5. ASSUME NEW t \in Threads, Check(t) \/ CheckNoMemory(t) PROVE RateInv'
    <2> DEFINE T == now_ms[t]
    <2>1. /\ asked[t] # NoToken /\ asked' = [asked EXCEPT ![t] = NoToken]
          /\ UNCHANGED <<now, now_ms, checks>>
      BY <1>5, CheckCases
    <2>2. PICK tab : /\ LeftOf(tab, T)
                     /\ \/ FailClosed(t, tab)
                        \/ /\ asked[t] \in DOMAIN tab \/ Cardinality(DOMAIN tab) < MaxEntries
                           /\ Count(t, asked[t], tab)
      BY <1>5, CheckCases
    <2>3. T \in Nat /\ T <= now /\ T \in 0..MaxTime /\ asked[t] \in Tokens
      BY <1>0, <1>1, <2>1 DEF TableInv, TypeOK
    <2>4. \A c \in DOMAIN tab : /\ c \in DOMAIN counters /\ tab[c] = counters[c]
                                /\ tab[c] \in [count : Nat, start : Nat]
                                /\ tab[c].count \in 0..Limit /\ tab[c].start \in 0..now
      BY <1>1, <2>2 DEF LeftOf
    <2>5. ASSUME NEW c \in Tokens \ stale, c \notin Misjudged(T, tab, {})
          PROVE  WindowInv(admitted[c], tab, c, now)
      <3>0. WindowInv(admitted[c], counters, c, now)
        BY DEF RateInv
      <3>1. CASE c \in DOMAIN counters \ DOMAIN tab
        <4>1. Expired(T, counters[c].start) /\ ~Behind(T, c)
          BY <2>2, <2>5, <3>1 DEF LeftOf, Misjudged
        <4>2. /\ counters[c].start \in Nat /\ T >= counters[c].start /\ counters[c].count \in 0..Limit
          BY <1>1, <2>3, <3>1, <4>1 DEF Behind
        <4>3. BeforeWindow(admitted[c], counters[c].count, counters[c].start, now)
          BY <3>0, <3>1 DEF WindowInv
        <4>4. \A i \in 1..(Len(admitted[c]) - Limit) : admitted[c][i] + Window < now
          BY <1>1, <2>3, <4>1, <4>2, <4>3, WindowPassed
        <4>5. BeforeWindow(admitted[c], 0, now, now)
          BY <1>1, <4>4 DEF BeforeWindow
        <4> QED BY <3>1, <4>5 DEF WindowInv
      <3>2. CASE c \notin DOMAIN counters \ DOMAIN tab
        BY <2>2, <3>0, <3>2 DEF WindowInv, LeftOf
      <3> QED BY <3>1, <3>2
    <2>8. CASE FailClosed(t, tab)
      <3>1. counters' = tab /\ UNCHANGED admitted /\ stale' = stale \cup Misjudged(T, tab, {})
        BY <2>8 DEF FailClosed
      <3>2. RateBounded'
        BY <3>1 DEF RateInv, RateBounded, Bounded
      <3>3. \A c \in Tokens \ stale' : WindowInv(admitted'[c], counters', c, now')
        BY <2>1, <2>5, <3>1
      <3> QED BY <1>0, <3>2, <3>3 DEF RateInv
    <2>9. CASE Count(t, asked[t], tab)
      <3> DEFINE c == asked[t]
                 k == Cur(t, c, tab).count
                 s == Cur(t, c, tab).start
                 A == admitted[c]
      <3>1. c \in Tokens /\ A \in Seq(Nat)
        BY <1>1, <2>3
      <3>2. /\ k \in 0..Limit /\ s \in 0..now
            /\ DOMAIN counters' = DOMAIN tab \cup {c}
            /\ \A d \in DOMAIN tab \ {c} : counters'[d] = tab[d]
            /\ counters'[c].start = s
            /\ \/ /\ k < Limit
                  /\ counters'[c].count = k + 1
                  /\ admitted' = [admitted EXCEPT ![c] = Append(@, now)]
               \/ /\ k = Limit
                  /\ counters'[c].count = k
                  /\ UNCHANGED admitted
            /\ stale' = stale \cup Misjudged(T, tab, IF Opens(t, c, tab) THEN {c} ELSE {})
            /\ counters'[c] \in [count : Nat, start : Nat]
        <4>1. TableInv /\ LeftOf(tab, now_ms[t])
          BY <1>0, <2>2
        <4>2. c \in Tokens
          BY <3>1
        <4> QED BY <2>9, <4>1, <4>2, CountCases
      <3>3. ASSUME c \notin stale' PROVE BeforeWindow(A, k, s, now)
        <4>0. c \notin stale /\ Len(A) \in Nat /\ WindowInv(A, tab, c, now)
          <5>1. c \notin stale /\ c \notin Misjudged(T, tab, {})
            BY <3>2, <3>3 DEF Misjudged
          <5> QED BY <2>5, <3>1, <5>1
        <4>1. CASE Opens(t, c, tab)
          <5>1. k = 0 /\ s = T /\ ~Behind(T, c)
            BY <3>1, <3>2, <3>3, <4>1 DEF Cur, Misjudged
          <5>2. \A i \in 1..Len(A) : A[i] <= T
            <6>1. \A i \in 1..Len(A) : ~(T < A[i])
              BY <5>1 DEF Behind
            <6>2. T \in Nat /\ \A i \in 1..Len(A) : A[i] \in Nat
              BY <2>3, <3>1
            <6> HIDE DEF A, T
            <6> QED BY <6>1, <6>2
          <5>3. \A i \in 1..(Len(A) - Limit) : A[i] + Window < now
            <6>1. CASE c \notin DOMAIN tab
              <7>1. BeforeWindow(A, 0, now, now)
                BY <4>0, <6>1 DEF WindowInv
              <7>2. Len(A) - 0 - Limit = Len(A) - Limit
                BY <4>0
              <7> HIDE DEF A
              <7> QED BY <7>1, <7>2 DEF BeforeWindow
            <6>2. CASE c \in DOMAIN tab
              <7>1. Expired(T, tab[c].start) /\ tab[c].start <= T /\ tab[c].start \in Nat /\ tab[c].count \in 0..Limit
                BY <2>3, <2>4, <4>1, <5>1, <6>2 DEF Opens, Behind
              <7>2. BeforeWindow(A, tab[c].count, tab[c].start, now)
                BY <4>0, <6>2 DEF WindowInv
              <7> QED BY <1>1, <2>3, <3>1, <7>1, <7>2, WindowPassed
            <6> QED BY <6>1, <6>2
          <5>4. Len(A) - 0 = Len(A) /\ 0 <= Len(A)
            BY <4>0
          <5> HIDE DEF A, k, s, T
          <5>5. BeforeWindow(A, 0, T, now)
            BY <5>2, <5>3, <5>4 DEF BeforeWindow
          <5> QED BY <5>1, <5>5
        <4>2. CASE ~Opens(t, c, tab)
          <5>1. k = tab[c].count /\ s = tab[c].start /\ c \in DOMAIN tab
            BY <4>2 DEF Cur, Opens
          <5> QED BY <4>0, <5>1 DEF WindowInv
        <4> QED BY <4>1, <4>2
      <3>4. ASSUME NEW d \in Tokens \ stale', d # c
            PROVE  /\ admitted'[d] = admitted[d] /\ Bounded(admitted[d])
                   /\ WindowInv(admitted'[d], counters', d, now)
        <4>1. admitted'[d] = admitted[d]
          BY <1>0, <3>2, <3>4 DEF TableInv, TypeOK
        <4>2. d \in Tokens \ stale /\ d \notin Misjudged(T, tab, {})
          BY <3>2, <3>4 DEF Misjudged
        <4>3. WindowInv(admitted[d], tab, d, now) /\ Bounded(admitted[d])
          BY <2>5, <4>2 DEF RateInv, RateBounded
        <4>4. (d \in DOMAIN counters' <=> d \in DOMAIN tab) /\ (d \in DOMAIN tab => counters'[d] = tab[d])
          BY <3>2, <3>4
        <4> QED BY <4>1, <4>3, <4>4 DEF WindowInv
      <3>5. \A d \in Tokens \ stale' : d # c => Bounded(admitted'[d]) /\ WindowInv(admitted'[d], counters', d, now')
        BY <2>1, <3>4 DEF Bounded
      <3>6. ASSUME c \notin stale' PROVE Bounded(admitted'[c]) /\ WindowInv(admitted'[c], counters', c, now')
        <4>1. \A i \in 1..Len(A) : i + 2 * Limit <= Len(A) => A[i + 2 * Limit] - A[i] > Window
          BY <3>1, <3>2, <3>6 DEF RateInv, RateBounded, Bounded
        <4>2. c \in DOMAIN counters'
          BY <3>2
        <4>3. CASE /\ k < Limit /\ counters'[c].count = k + 1
                   /\ admitted' = [admitted EXCEPT ![c] = Append(@, now)]
          <5> DEFINE B == Append(A, now)
          <5>1. admitted'[c] = B
            BY <1>0, <3>1, <4>3 DEF TableInv, TypeOK
          <5>2. /\ BeforeWindow(B, k + 1, s, now)
                /\ \A i \in 1..Len(B) : i + 2 * Limit <= Len(B) => B[i + 2 * Limit] - B[i] > Window
            <6>1. k \in Nat /\ s \in Nat
              BY <1>1, <3>2
            <6>2. BeforeWindow(A, k, s, now)
              BY <3>3, <3>6
            <6> HIDE DEF k, s, A, c
            <6> QED BY <1>1, <3>1, <4>1, <4>3, <6>1, <6>2, WindowAdmits
          <5> HIDE DEF k, s, A, c, B
          <5>3. WindowInv(B, counters', c, now)
            BY <3>2, <4>2, <4>3, <5>2 DEF WindowInv
          <5> QED BY <2>1, <5>1, <5>2, <5>3 DEF Bounded
        <4>4. CASE k = Limit /\ counters'[c].count = k /\ UNCHANGED admitted
          <5>1. BeforeWindow(A, k, s, now)
            BY <3>3, <3>6
          <5> HIDE DEF k, s
          <5>2. WindowInv(A, counters', c, now)
            BY <3>2, <4>2, <4>4, <5>1 DEF WindowInv
          <5> QED BY <2>1, <4>1, <4>4, <5>2 DEF Bounded
        <4> QED BY <3>2, <4>3, <4>4
      <3>7. \A d \in Tokens \ stale' : Bounded(admitted'[d]) /\ WindowInv(admitted'[d], counters', d, now')
        BY <3>5, <3>6
      <3> QED BY <1>0, <3>7 DEF RateInv, RateBounded
    <2> QED BY <2>2, <2>8, <2>9
  <1>6. CASE UNCHANGED vars
    BY <1>1, <1>2, <1>6 DEF vars
  <1> QED BY <1>3, <1>4, <1>5, <1>6 DEF Next

-----------------------------------------------------------------------------
(* The theorems *)

\* ak_rate_limit_check and its sweep keep the table within AK_RATE_MAX_ENTRIES,
\* every count within its limit and every window's start in the past, for any
\* number of threads.
THEOREM TableBounded == Spec => []TableOK
  <1>1. TableInv => TableOK
    BY DEF TableInv
  <1> QED BY <1>1, TableInit, TableStep, PTL DEF Spec

\* ak_rate_limit_check with any number of threads: no span of Window ms sees more than
\* two limits of a token admitted, for every limit and window, whatever is swept and
\* however long checks wait for the lock, until a window of that token is closed or
\* opened by a clock reading that another thread's check has overtaken.
THEOREM RateLimitHolds == Spec => []RateBounded
  <1>1. RateInv => RateBounded
    BY DEF RateInv
  <1> QED BY <1>1, RateInit, RateStep, PTL DEF Spec
=============================================================================
