--------------------------- MODULE CapabilityProof ---------------------------
(***************************************************************************)
(* Proofs about Capability.tla, for every TTL, rotation period, sweep      *)
(* threshold, number of key slots, threads, capabilities and reboots.      *)
(***************************************************************************)
EXTENDS Capability, FiniteSetTheorems, WellFoundedInduction, TLAPS

\* At boot nothing was issued.
LEMMA RevocationInit == Init => RevocationInv
  <1> SUFFICES ASSUME Init PROVE RevocationInv
    OBVIOUS
  <1>1. IsFiniteSet(caps)
    BY FS_EmptySet DEF Init
  <1> QED BY <1>1 DEF Init, RevocationInv, OfThisBoot

\* Time going on, by d, expires capabilities and revives none.
LEMMA ClockOn ==
    ASSUME RevocationInv, NEW d \in Nat, clock' = clock + d,
           UNCHANGED <<boot, caps, revocations, log, lost>>
    PROVE  RevocationInv'
  <1>1. UNCHANGED <<OfThisBoot, revoked, Listed>>
    BY DEF OfThisBoot, revoked, Listed
  <1>2. ASSUME NEW c \in OfThisBoot
        PROVE  /\ c.issued <= clock + d
               /\ \A e \in revocations : e.tid = c.tid => c.issued <= e.at
               /\ c.tid \in revoked => c.tid \in lost \cup Listed \/ clock + d > Expiry(c)
    <2>1. c.issued \in Nat /\ c.ttl \in Nat /\ clock \in Nat
      BY CapabilityAssumption DEF RevocationInv, OfThisBoot
    <2> QED BY <2>1 DEF RevocationInv, Expiry
  <1>3. clock + d \in Nat
    BY DEF RevocationInv
  <1> QED BY <1>1, <1>2, <1>3 DEF RevocationInv, Expiry

\* A capability gets an id nobody was revoked under.
LEMMA SignKeeps ==
    ASSUME RevocationInv, NEW d \in Nat, clock' = clock + d,
           NEW ttl \in Nat, NEW methods, NEW rate, NEW parent, Sign(clock + d, ttl, methods, rate, parent),
           UNCHANGED <<boot, revocations, log, lost>>
    PROVE  RevocationInv'
  <1> USE CapabilityAssumption
  <1> DEFINE new == [tid |-> NextTid, kid |-> keys[active].kid, secret |-> keys[active].secret,
                     issued |-> clock + d, ttl |-> ClampTtl(ttl), methods |-> methods,
                     rate |-> rate, parent |-> parent, boot |-> boot,
                     counter |-> key_counter, key_expires |-> keys[active].expires]
  <1>1. /\ caps' = caps \cup {new} /\ new.tid = Cardinality(caps) + 1 /\ new.boot = boot
        /\ new.issued = clock + d /\ new.ttl = ClampTtl(ttl)
    BY DEF Sign, NextTid
  <1> HIDE DEF new
  <1>2. /\ IsFiniteSet(caps) /\ Cardinality(caps) \in Nat /\ new \notin caps
        /\ clock \in Nat /\ boot \in Nat
    <2>1. IsFiniteSet(caps) /\ clock \in Nat /\ boot \in Nat /\ \A c \in caps : c.tid \in 1..Cardinality(caps)
      BY DEF RevocationInv
    <2>2. Cardinality(caps) \in Nat
      BY <2>1, FS_CardinalityType
    <2>3. ASSUME new \in caps PROVE FALSE
      BY <1>1, <2>1, <2>2, <2>3
    <2> QED BY <2>1, <2>2, <2>3
  <1>3. IsFiniteSet(caps') /\ Cardinality(caps') = Cardinality(caps) + 1
    BY <1>1, <1>2, FS_AddElement
  <1>4. new.ttl \in 0..MaxTtl /\ new.issued = clock'
    BY <1>1 DEF ClampTtl, Least
  <1>5. \A c \in caps' : /\ c.tid \in 1..Cardinality(caps') /\ c.boot \in 0..boot
                         /\ c.issued \in Nat /\ c.ttl \in 0..MaxTtl
    <2>1. \A c \in caps : /\ c.tid \in 1..Cardinality(caps) /\ c.boot \in 0..boot
                          /\ c.issued \in Nat /\ c.ttl \in 0..MaxTtl
      BY DEF RevocationInv
    <2>2. \A c \in caps : c.tid \in 1..(Cardinality(caps) + 1)
      BY <1>2, <2>1
    <2>3. /\ new.tid \in 1..(Cardinality(caps) + 1) /\ new.boot \in 0..boot
          /\ new.issued \in Nat /\ new.ttl \in 0..MaxTtl
      BY <1>1, <1>2, <1>4
    <2> QED BY <1>1, <1>3, <2>1, <2>2, <2>3
  <1>6. \A e \in log \cup revocations : e.tid \in 1..Cardinality(caps') /\ e.at \in Nat /\ e.tid # new.tid
    BY <1>1, <1>2, <1>3 DEF RevocationInv
  <1>7. new.tid \notin revoked
    BY <1>6 DEF revoked
  <1>8. ASSUME NEW c \in OfThisBoot'
        PROVE  /\ c.issued <= clock'
               /\ \A e \in revocations : e.tid = c.tid => c.issued <= e.at
               /\ c.tid \in revoked => c.tid \in lost \cup Listed \/ clock' > Expiry(c)
    <2>1. CASE c = new
      BY <1>2, <1>4, <1>6, <1>7, <2>1
    <2>2. CASE c \in OfThisBoot
      <3>1. c.issued \in Nat /\ c.ttl \in Nat
        BY <2>2 DEF RevocationInv, OfThisBoot
      <3> QED BY SMTT(30), <1>2, <2>2, <3>1 DEF RevocationInv, Expiry
    <2> QED BY <1>1, <2>1, <2>2 DEF OfThisBoot
  <1>9. UNCHANGED <<revoked, Listed>> /\ clock' \in Nat
    BY <1>2 DEF revoked, Listed
  <1> QED BY <1>2, <1>3, <1>5, <1>6, <1>8, <1>9 DEF RevocationInv, Expiry

\* An entry is swept when every capability it could be for has expired.
LEMMA SweptExpired ==
    ASSUME RevocationInv, NEW c \in OfThisBoot, c.tid \in Listed,
           c.tid \notin {e.tid : e \in Swept(revocations, clock)}
    PROVE  clock > Expiry(c)
  <1> USE CapabilityAssumption
  <1>1. PICK e \in revocations : e.tid = c.tid
    BY DEF Listed
  <1>2. clock \in Nat /\ e.at \in Nat /\ c.issued \in Nat /\ c.ttl \in 0..MaxTtl /\ c.issued <= e.at
    BY <1>1 DEF RevocationInv, OfThisBoot
  <1>3. ~Keeps(e, clock)
    BY <1>1 DEF Swept
  <1> QED BY <1>2, <1>3 DEF Keeps, Retain, Expiry

\* Revoking lists the id or loses it; what the sweep drops had expired.
LEMMA RevokeKeeps ==
    ASSUME RevocationInv, NEW c0 \in caps, ak_revocation_add(c0.tid) PROVE RevocationInv'
  <1> DEFINE tid == c0.tid
             entry == [tid |-> tid, at |-> clock]
  <1>1. UNCHANGED <<clock, boot, caps>> /\ clock \in Nat /\ tid \in 1..Cardinality(caps)
    BY DEF ak_revocation_add, RevocationInv
  <1>2. \A e \in log' : e \in log \/ e = entry
    BY DEF ak_revocation_add
  <1>3. \A e \in revocations' : e \in revocations \/ e = entry
    BY DEF ak_revocation_add, Inserted, Swept
  <1>4. revoked' \subseteq revoked \cup {tid}
    BY <1>2 DEF revoked
  <1>5. /\ tid \in Listed' \cup lost' /\ lost \subseteq lost' \cup Listed'
        /\ \A i \in Listed \ Listed' : i \notin {e.tid : e \in Swept(revocations, clock)}
    <2>1. PICK memory \in BOOLEAN : revocations' = Inserted(revocations, tid, clock, clock, memory)
      BY DEF ak_revocation_add
    <2>2. \/ revocations' = revocations
          \/ revocations \subseteq revocations'
          \/ Swept(revocations, clock) \subseteq revocations'
      BY <2>1 DEF Inserted
    <2>3. lost' = IF tid \in Listed' THEN lost \ {tid} ELSE lost \cup {tid}
      BY DEF ak_revocation_add
    <2> QED BY <2>2, <2>3 DEF Listed
  <1>6. OfThisBoot' = OfThisBoot
    BY <1>1 DEF OfThisBoot
  <1>7. ASSUME NEW c \in OfThisBoot
        PROVE  /\ c.issued <= clock
               /\ \A e \in revocations' : e.tid = c.tid => c.issued <= e.at
               /\ c.tid \in revoked' => c.tid \in lost' \cup Listed' \/ clock > Expiry(c)
    <2>1. c.issued <= clock /\ \A e \in revocations' : e.tid = c.tid => c.issued <= e.at
      BY <1>3 DEF RevocationInv
    <2>2. CASE c.tid \in revoked /\ c.tid \notin lost' \cup Listed'
      <3>1. CASE c.tid \in Listed
        BY <1>5, <2>1, <2>2, <3>1, SweptExpired
      <3>2. CASE c.tid \notin Listed
        <4>1. c.tid \notin lost
          BY <1>5, <2>2
        <4> QED BY <2>1, <2>2, <3>2, <4>1 DEF RevocationInv
      <3> QED BY <3>1, <3>2
    <2> QED BY <1>4, <1>5, <2>1, <2>2
  <1>8. \A e \in (log \cup revocations)' : e.tid \in 1..Cardinality(caps) /\ e.at \in Nat
    BY <1>1, <1>2, <1>3 DEF RevocationInv
  <1> QED BY <1>1, <1>6, <1>7, <1>8 DEF RevocationInv, Expiry

\* After a reboot no capability is of this boot, and the log's ids are all handed out.
LEMMA RebootKeeps == ASSUME RevocationInv, Reboot PROVE RevocationInv'
  <1>1. boot' = boot + 1 /\ clock' = 1 /\ revocations' \subseteq log /\ UNCHANGED <<caps, log>>
    BY DEF Reboot
  <1>2. OfThisBoot' = {}
    BY <1>1 DEF RevocationInv, OfThisBoot
  <1> QED BY <1>1, <1>2 DEF RevocationInv

\* Every step keeps RevocationInv; keys and rotations do not matter to it.
LEMMA RevocationStep == RevocationInv /\ [Next]_vars => RevocationInv'
  <1> SUFFICES ASSUME RevocationInv, [Next]_vars PROVE RevocationInv'
    OBVIOUS
  <1> USE CapabilityAssumption
  <1>1. CASE Tick
    BY <1>1, ClockOn DEF Tick, revocation_vars
  <1>2. ASSUME UNCHANGED <<clock, boot, caps, revocations, log, lost>> PROVE RevocationInv'
    BY <1>2 DEF RevocationInv, OfThisBoot, revoked, Listed, Expiry
  <1>3. ASSUME NEW t \in Threads, RotateRead(t) \/ ak_key_rotate(t) PROVE RevocationInv'
    BY <1>2, <1>3 DEF RotateRead, ak_key_rotate, revocation_vars
  <1>4. CASE ak_capability_create
    <2>1. PICK ttl \in {1, MaxTtl + Rotation + 1}, methods \in SUBSET Methods, rate \in Rates :
            Sign(clock, ttl, methods, rate, 0)
      BY <1>4 DEF ak_capability_create
    <2>2. clock \in Nat /\ UNCHANGED <<clock, boot, revocations, log, lost>>
      BY <1>4 DEF ak_capability_create, RevocationInv, revocation_vars
    <2>3. ttl \in Nat /\ 0 \in Nat /\ clock' = clock + 0 /\ clock + 0 = clock
      BY <2>2
    <2> QED BY <2>1, <2>2, <2>3, SignKeeps
  <1>5. CASE ak_capability_delegate
    <2>1. PICK c \in caps, ttl \in 1..MaxTtl, methods \in SUBSET Methods, rate \in Rates, d \in 0..MaxDelay :
            clock' = clock + d /\ Sign(clock + d, ttl, methods, rate, c.tid)
      BY <1>5 DEF ak_capability_delegate
    <2>2. UNCHANGED <<boot, revocations, log, lost>> /\ d \in Nat /\ ttl \in Nat
      BY <1>5 DEF ak_capability_delegate, revocation_vars
    <2> QED BY <2>1, <2>2, SignKeeps
  <1>6. ASSUME NEW c \in caps, ak_revocation_add(c.tid) PROVE RevocationInv'
    BY <1>6, RevokeKeeps
  <1>7. CASE Reboot
    BY <1>7, RebootKeeps
  <1> QED BY <1>1, <1>2, <1>3, <1>4, <1>5, <1>6, <1>7 DEF Next, vars, revocation_vars

\* The sweep bounds the table "without ever un-revoking a live token": no
\* capability of this boot validates once its revocation found memory, for every
\* retention the constants give (MaxTtl + Rotation) and every order of sweeps,
\* failed insertions, delegations, rotations and reboots.
THEOREM RevocationSound == Spec => []RevokedStaysDead
  <1>1. RevocationInv => RevokedStaysDead
    <2> SUFFICES ASSUME RevocationInv, NEW c \in OfThisBoot, c.tid \in revoked \ lost
                 PROVE  ~ak_capability_validate(c)
      BY DEF RevokedStaysDead
    <2>1. c.tid \in Listed \/ clock > Expiry(c)
      BY Zenon DEF RevocationInv
    <2>2. clock \in Nat /\ c.issued \in Nat /\ c.ttl \in 0..MaxTtl /\ MaxTtl \in Nat
      BY CapabilityAssumption DEF RevocationInv, OfThisBoot
    <2> QED BY <2>1, <2>2 DEF ak_capability_validate, ak_capability_verify, Listed, Expiry
  <1> QED BY <1>1, RevocationInit, RevocationStep, PTL DEF Spec

-----------------------------------------------------------------------------
(* Keys *)

\* The parameters keys depend on.
LEMMA Params ==
    /\ MaxKeys \in Nat \ {0} /\ KidMod \in Nat \ {0} /\ MaxBoots \in Nat
    /\ Rotation \in Nat \ {0} /\ Grace \in Nat
  BY CapabilityAssumption

\* Division with remainder.
LEMMA DivMod == ASSUME NEW a \in Int, NEW k \in Int, k > 0 PROVE a = (a \div k) * k + (a % k)
  BY Z3

\* Counter values less than k apart have different remainders: their kids differ.
LEMMA KidsApart ==
    ASSUME NEW a \in Nat, NEW b \in Nat, NEW k \in Nat \ {0}, a < b, b - a < k
    PROVE  a % k # b % k
  <1> DEFINE x == a \div k
             y == b \div k
  <1>1. x \in Int /\ y \in Int /\ a % k \in Int /\ b % k \in Int
    OBVIOUS
  <1>2. a = x * k + (a % k) /\ b = y * k + (b % k)
    BY DivMod
  <1> HIDE DEF x, y
  <1>3. ASSUME a % k = b % k PROVE FALSE
    <2>1. b - a = y * k - x * k
      BY <1>1, <1>2, <1>3
    <2>2. CASE y <= x
      <3>1. y * k <= x * k
        BY <1>1, <2>2
      <3> QED BY <1>1, <2>1, <3>1
    <2>3. CASE y >= x + 1
      <3>1. y * k >= (x + 1) * k
        BY <1>1, <2>3
      <3>2. (x + 1) * k = x * k + k
        BY <1>1
      <3> QED BY <1>1, <2>1, <3>1, <3>2
    <2> QED BY <1>1, <2>2, <2>3
  <1> QED BY <1>3

\* There are MaxKeys slots.
LEMMA SlotsFinite == IsFiniteSet(Slots) /\ Cardinality(Slots) = MaxKeys
  <1>1. MaxKeys \in Nat \ {0}
    BY CapabilityAssumption
  <1>2. /\ IsFiniteSet(0..(MaxKeys - 1))
        /\ Cardinality(0..(MaxKeys - 1)) = IF 0 > MaxKeys - 1 THEN 0 ELSE MaxKeys - 1 - 0 + 1
    BY <1>1, FS_Interval
  <1> QED BY <1>1, <1>2 DEF Slots

\* Slots that hold each of the numbers from a to b are as many as those at least.
LEMMA SlotsCover ==
    ASSUME NEW a \in Int, NEW b \in Int, NEW x, \A v \in a..b : \E s \in Slots : x[s] = v
    PROVE  b - a + 1 <= MaxKeys
  <1> DEFINE g == [v \in a..b |-> CHOOSE s \in Slots : x[s] = v]
  <1>0. MaxKeys \in Nat \ {0}
    BY CapabilityAssumption
  <1>1. \A v \in a..b : g[v] \in Slots /\ x[g[v]] = v
    OBVIOUS
  <1>2. g \in [a..b -> Slots]
    BY <1>1
  <1> HIDE DEF g
  <1>3. IsFiniteSet(a..b) /\ Cardinality(a..b) = IF a > b THEN 0 ELSE b - a + 1
    BY FS_Interval
  <1>4. ASSUME Cardinality(Slots) < Cardinality(a..b) PROVE FALSE
    <2>1. \E v, w \in a..b : v # w /\ g[v] = g[w]
      BY <1>2, <1>3, <1>4, SlotsFinite, FS_PigeonHole
    <2> QED BY <1>1, <2>1
  <1>5. ASSUME b - a + 1 > MaxKeys PROVE FALSE
    <2>1. Cardinality(a..b) = b - a + 1
      BY <1>0, <1>3, <1>5
    <2> QED BY <1>0, <1>4, <1>5, <2>1, SlotsFinite
  <1> QED BY <1>0, <1>5

\* Different numbers in all slots, from a to b, are as many as the slots at least.
LEMMA SlotsApart ==
    ASSUME NEW a \in Int, NEW b \in Int, NEW x \in [Slots -> a..b],
           \A r, s \in Slots : x[r] = x[s] => r = s
    PROVE  b - a + 1 >= MaxKeys
  <1>0. MaxKeys \in Nat \ {0}
    BY CapabilityAssumption
  <1>1. IsFiniteSet(a..b) /\ Cardinality(a..b) = IF a > b THEN 0 ELSE b - a + 1
    BY FS_Interval
  <1>2. ASSUME Cardinality(a..b) < Cardinality(Slots) PROVE FALSE
    BY <1>1, <1>2, SlotsFinite, FS_PigeonHole
  <1>3. 0 \in Slots
    BY <1>0 DEF Slots
  <1>4. x[0] \in a..b
    BY <1>3
  <1>5. a <= b
    BY <1>4
  <1> QED BY <1>0, <1>1, <1>2, <1>5, SlotsFinite

\* A set of naturals that has an element has a least one.
LEMMA LeastNat ==
    ASSUME NEW T, T \subseteq Nat, T # {} PROVE \E n \in T : \A m \in T : n <= m
  <1> DEFINE R == {ss \in Nat \X Nat : ss[1] < ss[2]}
  <1>1. IsWellFoundedOn(R, Nat)
    BY NatLessThanWellFounded, Zenon DEF OpToRel
  <1> HIDE DEF R
  <1>2. PICK n \in T : \A m \in T : ~(<<m, n>> \in R)
    BY <1>1, WFMin
  <1>3. \A m \in T : ~(m < n)
    BY <1>2 DEF R
  <1> QED BY <1>3

\* First picks a slot.
LEMMA FirstSlot == ASSUME NEW S, S \subseteq Slots, S # {} PROVE First(S) \in S
  <1>1. S \subseteq Nat
    BY CapabilityAssumption DEF Slots
  <1>2. \E s \in S : \A r \in S : s <= r
    BY <1>1, LeastNat
  <1> QED BY <1>2 DEF First

\* A rotation finds a slot: a retired one, or that of a key no other is older than.
LEMMA SlotFound ==
    ASSUME NEW ks \in [Slots -> Key]
    PROVE  /\ SlotFor(ks) \in Slots
           /\ \/ ks[SlotFor(ks)].retired
              \/ /\ \A r \in Slots : ~ks[r].retired
                 /\ \A r \in Slots : ks[SlotFor(ks)].created <= ks[r].created
  <1> DEFINE free == {s \in Slots : ks[s].retired}
             oldest == {s \in Slots : \A r \in Slots : ks[s].created <= ks[r].created}
  <1>1. SlotFor(ks) = First(IF free # {} THEN free ELSE oldest)
    BY DEF SlotFor
  <1>2. oldest # {}
    <2> DEFINE T == {ks[s].created : s \in Slots}
    <2>1. T \subseteq Nat
      BY DEF Key
    <2>2. 0 \in Slots
      BY CapabilityAssumption DEF Slots
    <2>3. T # {}
      BY <2>2
    <2> HIDE DEF T
    <2>4. PICK n \in T : \A m \in T : n <= m
      BY <2>1, <2>3, LeastNat
    <2> QED BY <2>4 DEF T
  <1>3. CASE free # {}
    <2>1. SlotFor(ks) \in free
      BY <1>1, <1>3, FirstSlot
    <2> QED BY <2>1
  <1>4. CASE free = {}
    <2>1. SlotFor(ks) \in oldest
      BY <1>1, <1>2, <1>4, FirstSlot
    <2> QED BY <1>4, <2>1
  <1> QED BY <1>3, <1>4

\* The types of the live keys, for arithmetic.
LEMMA LiveTypes ==
    ASSUME KeyTypeOK
    PROVE  /\ \A s \in Live : /\ s \in Slots /\ keys[s].secret \in Nat /\ keys[s].created \in Nat
                              /\ keys[s].expires \in Nat /\ keys[s].kid \in Nat
           /\ clock \in Nat /\ secrets \in Nat \ {0} /\ key_counter \in Nat \ {0}
           /\ last_rotation \in 1..clock /\ boot \in 0..MaxBoots /\ active \in Live
  <1>1. \A s \in Live : s \in Slots /\ keys[s] \in Key
    BY DEF KeyTypeOK, Live
  <1> QED BY <1>1 DEF KeyTypeOK, Key

\* The key made longest ago that is still live is at most this many before the last.
LEMMA Spread ==
    ASSUME KeyTypeOK, NEW f \in 1..secrets, LiveInv(f), NEW s \in Live
    PROVE  secrets - keys[s].secret <= (boot + 1) * (MaxKeys - 1)
  <1>0. /\ MaxKeys \in Nat \ {0} /\ MaxBoots \in Nat /\ boot \in 0..MaxBoots /\ secrets \in Nat \ {0}
        /\ keys[s].secret \in Nat /\ Live \subseteq Slots
    BY CapabilityAssumption, LiveTypes
  <1>1. boot * (MaxKeys - 1) \in Nat /\ (boot + 1) * (MaxKeys - 1) = boot * (MaxKeys - 1) + (MaxKeys - 1)
    <2>1. \A b, m \in Nat : b * m \in Nat /\ (b + 1) * m = b * m + m
      OBVIOUS
    <2>2. boot \in Nat /\ MaxKeys - 1 \in Nat
      BY <1>0
    <2> QED BY <2>1, <2>2
  <1>2. CASE keys[s].secret >= f
    <2> DEFINE x == [r \in Slots |-> keys[r].secret]
    <2>1. \A v \in keys[s].secret..secrets : \E r \in Slots : x[r] = v
      <3>1. \A v \in keys[s].secret..secrets : v \in f..secrets /\ keys[s].secret <= v
        BY <1>0, <1>2
      <3> QED BY <1>0, <3>1 DEF LiveInv
    <2> HIDE DEF x
    <2>2. secrets - keys[s].secret + 1 <= MaxKeys
      <3>1. secrets \in Int /\ keys[s].secret \in Int
        BY <1>0
      <3> QED BY Zenon, <2>1, <3>1, SlotsCover
    <2> QED BY <1>0, <1>1, <2>2
  <1>3. CASE keys[s].secret < f
    <2> DEFINE x == [r \in Slots |-> IF r = s THEN f - 1 ELSE keys[r].secret]
    <2>1. ASSUME NEW v \in (f - 1)..secrets PROVE \E r \in Slots : x[r] = v
      <3>1. CASE v = f - 1
        <4>1. s \in Slots /\ x[s] = v
          BY <1>0, <3>1
        <4> QED BY <4>1
      <3>2. CASE v # f - 1
        <4>1. v \in f..secrets /\ keys[s].secret <= v
          BY <1>0, <1>3, <3>2
        <4>2. PICK r \in Live : keys[r].secret = v
          BY <4>1 DEF LiveInv
        <4>3. r # s /\ r \in Slots
          BY <1>0, <1>3, <4>1, <4>2
        <4>4. x[r] = v
          BY <4>2, <4>3
        <4> QED BY <4>3, <4>4
      <3> QED BY <3>1, <3>2
    <2> HIDE DEF x
    <2>2. secrets - (f - 1) + 1 <= MaxKeys
      <3>1. secrets \in Int /\ f - 1 \in Int
        BY <1>0
      <3> QED BY Zenon, <2>1, <3>1, SlotsCover
    <2>3. f - keys[s].secret <= boot * (MaxKeys - 1)
      BY <1>0, <1>3 DEF LiveInv, OldKey, OwnKey
    <2> QED BY <1>0, <1>1, <2>2, <2>3
  <1> QED BY <1>0, <1>2, <1>3

\* So the kids of live keys differ.
LEMMA KidsDiffer ==
    ASSUME KidsSuffice, KeyTypeOK, NEW f \in 1..secrets, LiveInv(f) PROVE KidsDistinct
  <1>0. /\ KidMod \in Nat \ {0} /\ key_counter \in Nat \ {0} /\ secrets \in Nat \ {0}
    BY CapabilityAssumption, LiveTypes
  <1>1. (boot + 1) * (MaxKeys - 1) < KidMod
    <2>1. boot \in Nat /\ MaxBoots \in Nat /\ MaxKeys - 1 \in Nat /\ boot + 1 <= MaxBoots + 1
      BY CapabilityAssumption, LiveTypes
    <2>2. \A a, b, m \in Nat : a <= b => a * m <= b * m
      OBVIOUS
    <2>3. (boot + 1) * (MaxKeys - 1) <= (MaxBoots + 1) * (MaxKeys - 1)
      BY <2>1, <2>2
    <2>4. (boot + 1) * (MaxKeys - 1) \in Int /\ (MaxBoots + 1) * (MaxKeys - 1) \in Int
      BY <2>1
    <2> QED BY <1>0, <2>3, <2>4 DEF KidsSuffice
  <1>2. ASSUME NEW r \in Live, NEW s \in Live, keys[r].secret < keys[s].secret
        PROVE  keys[r].kid # keys[s].kid
    <2> DEFINE a == MadeAt(keys[r].secret)
               b == MadeAt(keys[s].secret)
    <2>1. keys[r].secret \in Nat /\ keys[s].secret \in 1..secrets /\ a >= 0 /\ b >= 0
      BY LiveTypes DEF LiveInv
    <2>2. a \in Nat /\ b \in Nat /\ b - a = keys[s].secret - keys[r].secret
      BY <1>0, <2>1 DEF MadeAt
    <2>3. b - a < KidMod
      <3>1. secrets - keys[r].secret <= (boot + 1) * (MaxKeys - 1)
        BY Spread
      <3>2. (boot + 1) * (MaxKeys - 1) \in Int
        BY CapabilityAssumption, LiveTypes
      <3> QED BY <1>0, <1>1, <2>1, <2>2, <3>1, <3>2
    <2>4. a < b
      BY <1>2, <2>1, <2>2
    <2>5. keys[r].kid = a % KidMod /\ keys[s].kid = b % KidMod
      BY DEF LiveInv
    <2> HIDE DEF a, b
    <2> QED BY <1>0, <2>2, <2>3, <2>4, <2>5, KidsApart
  <1>3. ASSUME NEW r \in Live, NEW s \in Live, r # s PROVE keys[r].kid # keys[s].kid
    <2>1. keys[r].secret # keys[s].secret /\ keys[r].secret \in Nat /\ keys[s].secret \in Nat
      BY <1>3, LiveTypes DEF LiveInv
    <2>2. keys[r].secret < keys[s].secret \/ keys[s].secret < keys[r].secret
      BY <2>1
    <2> QED BY <1>2, <2>2
  <1> QED BY <1>3 DEF KidsDistinct

\* One key, made at boot.
LEMMA KeyInit == Init => KeyInv
  <1> SUFFICES ASSUME Init PROVE KeyInv
    OBVIOUS
  <1>0. 0 % KidMod \in Nat /\ 1 + Rotation + Grace \in Nat /\ MaxBoots \in Nat
    BY Params
  <1>1. 0 \in Slots
    BY Params DEF Slots
  <1> DEFINE k == [NewKey(0, 1) EXCEPT !.secret = 1]
  <1>2. /\ secrets = 1 /\ clock = 1 /\ boot = 0 /\ active = 0 /\ key_counter = 1 /\ last_rotation = 1
        /\ rotating = [t \in Threads |-> -1] /\ caps = {}
        /\ keys = [s \in Slots |-> IF s = 0 THEN k ELSE Unused]
    BY DEF Init
  <1>3. /\ keys \in [Slots -> Key] /\ keys[0].secret = 1 /\ keys[0].created = 1
        /\ keys[0].kid = 0 % KidMod /\ keys[0].expires = 1 + Rotation + Grace /\ ~keys[0].retired
        /\ \A s \in Slots : s # 0 => keys[s].retired
    <2>1. Unused \in Key /\ Unused.retired
      BY DEF Unused, Key
    <2>2. /\ NewKey(0, 1) \in Key /\ NewKey(0, 1).created = 1 /\ NewKey(0, 1).kid = 0 % KidMod
          /\ NewKey(0, 1).expires = 1 + Rotation + Grace /\ NewKey(0, 1).retired = FALSE
      BY <1>0, <1>2 DEF NewKey, Key
    <2>3. /\ k \in Key /\ k.secret = 1 /\ k.created = 1 /\ k.kid = 0 % KidMod
          /\ k.expires = 1 + Rotation + Grace /\ ~k.retired
      BY <2>2 DEF Key
    <2> HIDE DEF k
    <2> QED BY <1>1, <1>2, <2>1, <2>3
  <1>4. Live = {0}
    BY <1>1, <1>3 DEF Live
  <1>5. KeyTypeOK
    <2>1. [t \in Threads |-> -1] \in [Threads -> {-1} \cup (last_rotation..clock)]
      OBVIOUS
    <2>2. rotating \in [Threads -> {-1} \cup (last_rotation..clock)]
      BY <1>2, <2>1
    <2>3. clock \in Nat /\ boot \in 0..MaxBoots /\ last_rotation \in 1..clock
      BY <1>0, <1>2
    <2>4. active \in Live /\ keys[active].secret = secrets /\ keys[active].created = last_rotation
      BY <1>2, <1>3, <1>4
    <2>5. active \in Slots /\ key_counter \in Nat \ {0} /\ secrets \in Nat \ {0} /\ keys \in [Slots -> Key]
      BY <1>1, <1>2, <1>3
    <2> QED BY <2>2, <2>3, <2>4, <2>5 DEF KeyTypeOK
  <1>6. LiveInv(1)
    BY <1>0, <1>2, <1>3, <1>4 DEF LiveInv, OwnKey, MadeAt
  <1>7. CapInv(1) /\ 1 \in 1..secrets
    BY <1>2 DEF CapInv, OfThisBoot
  <1> QED BY <1>5, <1>6, <1>7 DEF KeyInv

\* Time going on, reads of the clock and capabilities signed with the active key
\* leave the keys in order.
LEMMA KeysStay ==
    ASSUME KeyInv, UNCHANGED <<boot, key_vars>>, clock' \in Nat, clock <= clock',
           rotating' \in [Threads -> {-1} \cup (last_rotation..clock')],
           \A c \in caps' : c \in caps \/ /\ c.kid = keys[active].kid /\ c.secret = keys[active].secret
                                          /\ c.counter = key_counter /\ c.key_expires = keys[active].expires
    PROVE  KeyInv'
  <1>1. PICK f \in 1..secrets : LiveInv(f) /\ CapInv(f)
    BY DEF KeyInv
  <1>2. KeyTypeOK
    BY DEF KeyInv
  <1>3. /\ keys' = keys /\ active' = active /\ key_counter' = key_counter /\ last_rotation' = last_rotation
        /\ secrets' = secrets /\ boot' = boot
    BY DEF key_vars
  <1>4. Live' = Live
    BY <1>3 DEF Live
  <1>5. KeyTypeOK'
    <2>1. last_rotation \in 1..clock'
      BY <1>2, LiveTypes
    <2> QED BY <1>2, <1>3, <1>4, <2>1 DEF KeyTypeOK
  <1>6. LiveInv(f)'
    BY <1>1, <1>3, <1>4 DEF LiveInv, OldKey, OwnKey, MadeAt
  <1>7. ASSUME NEW c \in OfThisBoot'
        PROVE  /\ c.counter \in 1..key_counter /\ c.key_expires \in Nat
               /\ c.secret \in f..secrets /\ MadeAt(c.secret) = c.counter - 1
               /\ c.kid = (c.counter - 1) % KidMod
               /\ clock' <= c.key_expires /\ key_counter - c.counter < MaxKeys =>
                    \E s \in Live : keys[s].secret = c.secret /\ keys[s].expires = c.key_expires
    <2>1. CASE c \in caps
      <3>1. c \in OfThisBoot
        BY <1>3, <2>1 DEF OfThisBoot
      <3>2. /\ c.counter \in 1..key_counter /\ c.key_expires \in Nat
            /\ c.secret \in f..secrets /\ MadeAt(c.secret) = c.counter - 1
            /\ c.kid = (c.counter - 1) % KidMod
            /\ clock <= c.key_expires /\ key_counter - c.counter < MaxKeys =>
                 \E s \in Live : keys[s].secret = c.secret /\ keys[s].expires = c.key_expires
        BY <1>1, <3>1 DEF CapInv
      <3>3. clock' <= c.key_expires => clock <= c.key_expires
        BY <1>2, <3>2, LiveTypes
      <3> QED BY <3>2, <3>3
    <2>2. CASE c \notin caps
      <3>1. /\ c.kid = keys[active].kid /\ c.secret = keys[active].secret
            /\ c.counter = key_counter /\ c.key_expires = keys[active].expires
        BY <2>2 DEF OfThisBoot
      <3>2. /\ active \in Live /\ keys[active].secret = secrets /\ keys[active].expires \in Nat
            /\ secrets \in Nat \ {0} /\ key_counter \in Nat \ {0}
        BY <1>2, LiveTypes DEF KeyTypeOK
      <3>3. MadeAt(secrets) = key_counter - 1
        BY <3>2 DEF MadeAt
      <3>4. keys[active].kid = (key_counter - 1) % KidMod
        BY <1>1, <3>2, <3>3 DEF LiveInv
      <3> QED BY <3>1, <3>2, <3>3, <3>4
    <2> QED BY <2>1, <2>2
  <1>8. CapInv(f)'
    BY <1>3, <1>4, <1>7 DEF CapInv, MadeAt
  <1> QED BY <1>1, <1>3, <1>5, <1>6, <1>8 DEF KeyInv

\* After a reboot with an import the other keys are older than the active one.
LEMMA ImportKeys ==
    ASSUME KeyInv, RevocationInv, Reboot, keys' = Imported, UNCHANGED <<active, key_counter, secrets>>
    PROVE  KeyInv'
  <1>0. PICK f \in 1..secrets : LiveInv(f)
    BY DEF KeyInv
  <1>1. KeyTypeOK
    BY DEF KeyInv
  <1>2. PICK g : g = secrets
    OBVIOUS
  <1>3. /\ boot \in 0..MaxBoots /\ boot' \in 0..MaxBoots /\ boot' = boot + 1 /\ clock' = 1 /\ last_rotation' = 1
        /\ rotating' = [t \in Threads |-> -1] /\ caps' = caps
        /\ active' = active /\ key_counter' = key_counter /\ secrets' = secrets
    <2>1. boot < MaxBoots /\ boot' = boot + 1
      BY DEF Reboot
    <2>2. boot \in 0..MaxBoots /\ boot' \in 0..MaxBoots
      BY <1>1, <2>1, Params, LiveTypes
    <2> QED BY <2>1, <2>2 DEF Reboot
  <1>4. OfThisBoot' = {}
    BY <1>3 DEF RevocationInv, OfThisBoot
  <1>5. CapInv(g)'
    BY <1>4 DEF CapInv
  <1>6. /\ active \in Slots /\ active \in Live /\ ~keys[active].retired /\ keys[active].secret = secrets
        /\ secrets \in Nat \ {0} /\ key_counter \in Nat \ {0} /\ keys \in [Slots -> Key]
    BY <1>1 DEF KeyTypeOK, Live
  <1>7. ASSUME NEW s \in Slots
        PROVE  /\ keys'[s] \in Key /\ (keys'[s].retired <=> keys[s].retired)
               /\ ~keys[s].retired =>
                    /\ keys'[s].secret = keys[s].secret /\ keys'[s].kid = keys[s].kid
                    /\ keys'[s].created = (IF s = active THEN 1 ELSE 0)
                    /\ keys'[s].expires = (IF s = active THEN 1 + Rotation + Grace ELSE 1 + Grace)
    <2>1. keys[s] \in Key /\ 1 + Rotation + Grace \in Nat /\ 1 + Grace \in Nat
      BY <1>6, Params
    <2>2. CASE keys[s].retired
      <3>1. keys'[s] = Unused
        BY <2>2 DEF Imported
      <3> QED BY <2>2, <3>1 DEF Unused, Key
    <2>3. CASE ~keys[s].retired
      <3> DEFINE created == IF s = active THEN 1 ELSE 0
                 expires == IF s = active THEN 1 + Rotation + Grace ELSE 1 + Grace
      <3>1. keys'[s] = [keys[s] EXCEPT !.created = created, !.expires = expires]
        BY <2>3 DEF Imported
      <3>2. created \in Nat /\ expires \in Nat
        BY <2>1
      <3> HIDE DEF created, expires
      <3>3. /\ keys'[s] \in Key /\ keys'[s].retired = keys[s].retired /\ keys'[s].secret = keys[s].secret
            /\ keys'[s].kid = keys[s].kid /\ keys'[s].created = created /\ keys'[s].expires = expires
        BY <2>1, <3>1, <3>2 DEF Key
      <3> QED BY <2>3, <3>3 DEF created, expires
    <2> QED BY <2>2, <2>3
  <1>8. keys' \in [Slots -> Key] /\ Live' = Live /\ Live \subseteq Slots
    <2>1. DOMAIN keys' = Slots /\ keys' = [s \in DOMAIN keys' |-> keys'[s]]
      BY DEF Imported
    <2>2. keys' \in [Slots -> Key]
      BY <1>7, <2>1
    <2> QED BY <1>7, <2>2 DEF Live
  <1>9. \A s \in Live : /\ keys'[s].secret = keys[s].secret /\ keys'[s].kid = keys[s].kid
                        /\ keys'[s].created = (IF s = active THEN 1 ELSE 0)
                        /\ keys'[s].expires = (IF s = active THEN 1 + Rotation + Grace ELSE 1 + Grace)
    BY <1>7 DEF Live
  <1>10. KeyTypeOK'
    BY <1>3, <1>6, <1>8, <1>9 DEF KeyTypeOK
  <1>11. ASSUME NEW s \in Live
         PROVE  /\ keys[s].secret \in 1..secrets /\ (s # active => keys[s].secret < secrets)
                /\ secrets - keys[s].secret <= boot' * (MaxKeys - 1)
                /\ MadeAt(keys[s].secret) >= 0 /\ keys[s].kid = MadeAt(keys[s].secret) % KidMod
                /\ \A r \in Live : r # s => keys[r].secret # keys[s].secret
    <2>1. secrets - keys[s].secret <= boot' * (MaxKeys - 1)
      BY <1>0, <1>1, <1>3, Spread
    <2>2. s # active => keys[s].secret # secrets
      BY <1>0, <1>6 DEF LiveInv
    <2>3. keys[s].secret \in 1..secrets
      BY <1>0 DEF LiveInv
    <2>4. s # active => keys[s].secret < secrets
      BY <1>6, <2>2, <2>3
    <2> QED BY <1>0, <2>1, <2>3, <2>4 DEF LiveInv
  <1>12. ASSUME NEW s \in Live'
         PROVE  (OldKey(keys[s], g) \/ OwnKey(keys[s], g))'
    <2>1. CASE s = active
      <3>1. keys'[s].secret = secrets /\ keys'[s].created = 1 /\ keys'[s].expires = 1 + Rotation + Grace
        BY <1>6, <1>9, <2>1
      <3> QED BY <1>2, <1>3, <1>6, <3>1 DEF OwnKey
    <2>2. CASE s # active
      <3>1. /\ keys'[s].secret = keys[s].secret /\ keys'[s].created = 0 /\ keys'[s].expires = 1 + Grace
            /\ keys[s].secret < secrets
        BY <1>8, <1>9, <1>11, <2>2
      <3> QED BY <1>2, <1>8, <1>11, <3>1 DEF OldKey
    <2> QED BY <2>1, <2>2
  <1>13. \A s \in Live : MadeAt(keys[s].secret)' = MadeAt(keys[s].secret)
    BY <1>3, <1>9 DEF MadeAt
  <1>14. ASSUME NEW s \in Live', NEW r \in Live', r # s
         PROVE  /\ keys'[r].secret # keys'[s].secret
                /\ g <= keys'[r].secret /\ keys'[r].secret < keys'[s].secret => keys'[r].created < keys'[s].created
    <2>1. keys'[s].secret \in 1..g /\ keys'[r].secret \in 1..g /\ keys'[r].secret # keys'[s].secret
      BY <1>2, <1>8, <1>9, <1>11, <1>14
    <2>2. ~(g <= keys'[r].secret /\ keys'[r].secret < keys'[s].secret)
      BY <1>2, <1>6, <2>1
    <2> QED BY <2>1, <2>2
  <1>15. ASSUME NEW v \in g..secrets' PROVE \E r \in Live' : keys'[r].secret = v
    <2>1. v = secrets
      BY <1>2, <1>3, <1>6
    <2> QED BY <1>6, <1>8, <1>9, <2>1
  <1>16. LiveInv(g)'
    <2>1. ASSUME NEW s \in Live'
          PROVE  /\ keys'[s].secret \in 1..secrets'
                 /\ (MadeAt(keys[s].secret) >= 0)' /\ keys'[s].kid = MadeAt(keys[s].secret)' % KidMod
      BY <1>3, <1>8, <1>9, <1>11, <1>13
    <2> QED BY <1>12, <1>14, <1>15, <2>1 DEF LiveInv
  <1>17. g \in 1..secrets'
    BY <1>2, <1>3, <1>6
  <1> QED BY <1>5, <1>10, <1>16, <1>17 DEF KeyInv

\* After a reboot without one there is one key.
LEMMA FreshBoot ==
    ASSUME KeyInv, RevocationInv, Reboot,
           keys' = FreshKeys, active' = 0, key_counter' = 1, secrets' = secrets + 1
    PROVE  KeyInv'
  <1>1. KeyTypeOK
    BY DEF KeyInv
  <1>2. PICK g : g = secrets + 1
    OBVIOUS
  <1>3. /\ boot' \in 0..MaxBoots /\ boot' = boot + 1 /\ clock' = 1 /\ last_rotation' = 1
        /\ rotating' = [t \in Threads |-> -1] /\ caps' = caps
    <2>1. boot < MaxBoots /\ boot' = boot + 1
      BY DEF Reboot
    <2>2. boot' \in 0..MaxBoots
      BY <1>1, <2>1, Params, LiveTypes
    <2> QED BY <2>1, <2>2 DEF Reboot
  <1>4. CapInv(g)'
    <2>1. OfThisBoot' = {}
      BY <1>3 DEF RevocationInv, OfThisBoot
    <2> QED BY <2>1 DEF CapInv
  <1>5. 0 \in Slots /\ 0 % KidMod \in Nat /\ 1 + Rotation + Grace \in Nat /\ secrets \in Nat \ {0}
    BY <1>1, Params DEF Slots, KeyTypeOK
  <1>6. /\ keys' \in [Slots -> Key] /\ keys'[0].secret = g /\ keys'[0].created = 1
        /\ keys'[0].kid = 0 % KidMod /\ keys'[0].expires = 1 + Rotation + Grace /\ ~keys'[0].retired
        /\ \A s \in Slots : s # 0 => keys'[s].retired
    <2> DEFINE k == NewKey(0, 1)
    <2>1. Unused \in Key /\ Unused.retired
      BY DEF Unused, Key
    <2>2. /\ k \in Key /\ k.secret = g /\ k.created = 1 /\ k.kid = 0 % KidMod
          /\ k.expires = 1 + Rotation + Grace /\ ~k.retired
      BY <1>2, <1>5 DEF NewKey, Key
    <2>3. keys' = [s \in Slots |-> IF s = 0 THEN k ELSE Unused]
      BY DEF FreshKeys
    <2> HIDE DEF k
    <2> QED BY <1>5, <2>1, <2>2, <2>3
  <1>7. Live' = {0}
    BY <1>5, <1>6 DEF Live
  <1>8. KeyTypeOK'
    <2>1. [t \in Threads |-> -1] \in [Threads -> {-1} \cup (last_rotation'..clock')]
      OBVIOUS
    <2>2. rotating' \in [Threads -> {-1} \cup (last_rotation'..clock')]
      BY <1>3, <2>1
    <2>3. clock' \in Nat /\ last_rotation' \in 1..clock' /\ secrets' \in Nat \ {0} /\ key_counter' \in Nat \ {0}
      BY <1>3, <1>5
    <2>4. /\ active' \in Live' /\ active' \in Slots
          /\ keys'[active'].secret = secrets' /\ keys'[active'].created = last_rotation'
      BY <1>2, <1>3, <1>5, <1>6, <1>7
    <2> QED BY <1>3, <1>6, <2>2, <2>3, <2>4 DEF KeyTypeOK
  <1>9. LiveInv(g)' /\ g \in 1..secrets'
    BY <1>2, <1>3, <1>5, <1>6, <1>7, Params DEF LiveInv, OwnKey, MadeAt
  <1> QED BY <1>4, <1>8, <1>9 DEF KeyInv

\* A remainder is not larger than the number.
LEMMA ModLeast == ASSUME NEW a \in Nat, NEW k \in Nat \ {0} PROVE a % k <= a
  <1> DEFINE q == a \div k
  <1>1. q \in Nat /\ a % k \in Int /\ a = q * k + (a % k)
    BY DivMod
  <1> HIDE DEF q
  <1>2. q * k \in Nat
    BY <1>1
  <1> QED BY <1>1, <1>2

\* What a rotation that is due does to the slots: the keys it keeps are live ones
\* that have not expired, and the one it replaces in a full table is the oldest.
LEMMA RotateSlots ==
    ASSUME KeyTypeOK, NEW t \in Threads, ak_key_rotate(t), ~((rotating[t] - last_rotation) % WordMod < Rotation)
    PROVE  \E slot \in Slots, Kept \in SUBSET Live :
             LET now == rotating[t] IN
               /\ now \in last_rotation..clock /\ now - last_rotation >= Rotation
               /\ active' = slot /\ last_rotation' = now
               /\ secrets' = secrets + 1 /\ key_counter' = key_counter + 1
               /\ slot \notin Kept /\ Live' = Kept \cup {slot}
               /\ keys' \in [Slots -> Key] /\ \A s \in Kept : keys'[s] = keys[s] /\ now <= keys[s].expires
               /\ keys'[slot].kid = key_counter % KidMod /\ keys'[slot].secret = secrets + 1
               /\ keys'[slot].created = now /\ keys'[slot].expires = now + Rotation + Grace
               /\ \A s \in Live : s \notin Kept /\ now <= keys[s].expires =>
                    s = slot /\ \A r \in Slots : r \in Live /\ keys[s].created <= keys[r].created
  <1> DEFINE now == rotating[t]
             ks == Retire(now)
             slot == SlotFor(ks)
             Kept == {s \in Slots : s # slot /\ ~ks[s].retired}
             new == NewKey(key_counter, now)
  <1>0. /\ key_counter \in Nat \ {0} /\ secrets \in Nat \ {0} /\ last_rotation \in Nat /\ clock \in Nat
        /\ keys \in [Slots -> Key] /\ now \in last_rotation..clock
    BY DEF KeyTypeOK, ak_key_rotate
  <1>1. now \in Nat /\ now - last_rotation >= Rotation
    <2>1. WordMod \in Nat \ {0}
      <3>1. 0 \in 0..MaxBoots
        BY Params
      <3>2. WordMod > 2 * Uptime[0] /\ Uptime[0] \in Nat /\ WordMod \in Nat
        BY <3>1, CapabilityAssumption
      <3> QED BY <3>2
    <2>2. now - last_rotation \in Nat /\ now \in Nat
      BY <1>0
    <2>3. (now - last_rotation) % WordMod <= now - last_rotation
      BY <2>1, <2>2, ModLeast
    <2>4. (now - last_rotation) % WordMod \in Nat
      BY <2>1, <2>2
    <2> QED BY <2>2, <2>3, <2>4, Params
  <1>2. /\ keys' = [ks EXCEPT ![slot] = new]
        /\ key_counter' = key_counter + 1 /\ secrets' = secrets + 1 /\ active' = slot /\ last_rotation' = now
    BY DEF ak_key_rotate
  <1>3. ASSUME NEW s \in Slots
        PROVE  /\ ks[s] \in Key
               /\ ~ks[s].retired => ks[s] = keys[s] /\ ~keys[s].retired /\ now <= keys[s].expires
               /\ ~keys[s].retired /\ now <= keys[s].expires => ks[s] = keys[s]
               /\ ks[s].created = keys[s].created
    <2>1. keys[s] \in Key /\ keys[s].expires \in Nat
      BY <1>0 DEF Key
    <2>2. CASE now > keys[s].expires
      <3>1. ks[s] = [keys[s] EXCEPT !.retired = TRUE]
        BY <2>2 DEF Retire
      <3>2. ks[s] \in Key /\ ks[s].retired /\ ks[s].created = keys[s].created
        BY <2>1, <3>1 DEF Key
      <3> QED BY <1>1, <2>1, <2>2, <3>2
    <2>3. CASE ~(now > keys[s].expires)
      <3>1. ks[s] = keys[s]
        BY <2>3 DEF Retire
      <3> QED BY <1>1, <2>1, <2>3, <3>1
    <2> QED BY <2>2, <2>3
  <1>4. ks \in [Slots -> Key]
    BY <1>3 DEF Retire
  <1> HIDE DEF ks
  <1>5. /\ slot \in Slots
        /\ \/ ks[slot].retired
           \/ /\ \A r \in Slots : ~ks[r].retired
              /\ \A r \in Slots : ks[slot].created <= ks[r].created
    BY <1>4, SlotFound
  <1>6. /\ new \in Key /\ new.kid = key_counter % KidMod /\ new.secret = secrets + 1
        /\ new.created = now /\ new.expires = now + Rotation + Grace /\ ~new.retired
    <2>1. key_counter % KidMod \in Nat /\ secrets + 1 \in Nat /\ now + Rotation + Grace \in Nat
      BY <1>0, <1>1, Params
    <2> QED BY <1>1, <2>1 DEF NewKey, Key
  <1> HIDE DEF new, slot, now
  <1>7. /\ keys' \in [Slots -> Key] /\ keys'[slot] = new /\ \A s \in Slots : s # slot => keys'[s] = ks[s]
    BY <1>2, <1>4, <1>5, <1>6
  <1>8. \A s \in Kept : s \in Live /\ keys'[s] = keys[s] /\ now <= keys[s].expires
    BY <1>3, <1>7 DEF Live
  <1>9. Live' = Kept \cup {slot}
    BY <1>5, <1>6, <1>7 DEF Live
  <1>10. ASSUME NEW s \in Live, s \notin Kept, now <= keys[s].expires
         PROVE  s = slot /\ \A r \in Slots : r \in Live /\ keys[s].created <= keys[r].created
    <2>1. s \in Slots /\ ~keys[s].retired
      BY DEF Live
    <2>2. ~ks[s].retired
      BY <1>3, <1>10, <2>1
    <2>3. s = slot
      BY <1>10, <2>1, <2>2
    <2> QED BY <1>3, <1>5, <2>2, <2>3 DEF Live
  <1>11. Kept \in SUBSET Live /\ slot \notin Kept
    BY <1>8
  <1> HIDE DEF Kept
  <1> QED BY <1>0, <1>1, <1>2, <1>5, <1>6, <1>7, <1>8, <1>9, <1>10, <1>11 DEF now

\* A rotation that is due keeps the live keys from f on without a gap, and a
\* capability's key until it has expired or has MaxKeys successors.
LEMMA RotateKeys ==
    ASSUME OneRotator, KeyInv, NEW t \in Threads, ak_key_rotate(t),
           ~((rotating[t] - last_rotation) % WordMod < Rotation)
    PROVE  KeyInv'
  <1> DEFINE now == rotating[t]
  <1>0. KeyTypeOK
    BY DEF KeyInv
  <1>1. PICK f \in 1..secrets : LiveInv(f) /\ CapInv(f)
    BY DEF KeyInv
  <1>2. PICK slot \in Slots, Kept \in SUBSET Live :
           /\ now \in last_rotation..clock /\ now - last_rotation >= Rotation
           /\ active' = slot /\ last_rotation' = now
           /\ secrets' = secrets + 1 /\ key_counter' = key_counter + 1
           /\ slot \notin Kept /\ Live' = Kept \cup {slot}
           /\ keys' \in [Slots -> Key] /\ \A s \in Kept : keys'[s] = keys[s] /\ now <= keys[s].expires
           /\ keys'[slot].kid = key_counter % KidMod /\ keys'[slot].secret = secrets + 1
           /\ keys'[slot].created = now /\ keys'[slot].expires = now + Rotation + Grace
           /\ \A s \in Live : s \notin Kept /\ now <= keys[s].expires =>
                s = slot /\ \A r \in Slots : r \in Live /\ keys[s].created <= keys[r].created
    BY <1>0, RotateSlots
  <1> HIDE DEF now
  <1>3. clock' = clock /\ boot' = boot /\ caps' = caps /\ rotating' = [rotating EXCEPT ![t] = -1]
    BY DEF ak_key_rotate
  <1>4. /\ clock \in Nat /\ secrets \in Nat \ {0} /\ key_counter \in Nat \ {0} /\ last_rotation \in 1..clock
        /\ boot \in 0..MaxBoots /\ now \in Nat /\ last_rotation < now /\ now <= clock
        /\ \A s \in Live : /\ s \in Slots /\ keys[s].secret \in 1..secrets /\ keys[s].created \in Nat
                           /\ keys[s].expires \in Nat
    <2>1. /\ clock \in Nat /\ secrets \in Nat \ {0} /\ key_counter \in Nat \ {0} /\ last_rotation \in 1..clock
          /\ boot \in 0..MaxBoots
          /\ \A s \in Live : s \in Slots /\ keys[s].created \in Nat /\ keys[s].expires \in Nat
      BY <1>0, LiveTypes
    <2>2. now \in Nat /\ last_rotation < now /\ now <= clock
      BY <1>2, <2>1, Params
    <2> QED BY <1>1, <2>1, <2>2 DEF LiveInv
  <1>5. KeyTypeOK'
    <2>1. \A u \in Threads : rotating'[u] = -1 /\ rotating' \in [Threads -> {-1}]
      BY <1>0, <1>3 DEF OneRotator, KeyTypeOK
    <2>2. rotating' \in [Threads -> {-1} \cup (last_rotation'..clock')]
      BY <2>1
    <2>3. clock' \in Nat /\ last_rotation' \in 1..clock' /\ secrets' \in Nat \ {0} /\ key_counter' \in Nat \ {0}
      BY <1>2, <1>3, <1>4
    <2>4. /\ active' \in Live' /\ active' \in Slots
          /\ keys'[active'].secret = secrets' /\ keys'[active'].created = last_rotation'
      BY <1>2
    <2> QED BY <1>2, <1>3, <1>4, <2>2, <2>3, <2>4 DEF KeyTypeOK
  \* What is known of a live key.
  <1>6. ASSUME NEW s \in Live
        PROVE  \/ /\ keys[s].secret < f /\ keys[s].created = 0 /\ keys[s].expires = 1 + Grace
               \/ /\ keys[s].secret >= f /\ keys[s].created \in 1..last_rotation
                  /\ keys[s].expires = keys[s].created + Rotation + Grace
    BY <1>1 DEF LiveInv, OldKey, OwnKey
  <1>7. ASSUME NEW r \in Live, NEW s \in Live, r # s
        PROVE  /\ keys[r].secret # keys[s].secret
               /\ f <= keys[r].secret /\ keys[r].secret < keys[s].secret => keys[r].created < keys[s].created
    BY <1>1, <1>7 DEF LiveInv
  \* A later key outlives an earlier one.
  <1>8. ASSUME NEW s \in Kept, NEW r \in Live, keys[r].secret >= f, keys[s].secret <= keys[r].secret
        PROVE  r \in Kept
    <2>1. CASE r = s
      BY <2>1
    <2>2. CASE r # s
      <3>1. s \in Live /\ keys[s].created < keys[r].created
        <4>1. keys[s].secret < keys[r].secret
          BY <1>4, <1>7, <1>8, <2>2
        <4>2. CASE keys[s].secret >= f
          BY <1>1, <1>4, <1>7, <2>2, <4>1, <4>2
        <4>3. CASE keys[s].secret < f
          BY <1>1, <1>4, <1>6, <1>8, <4>3
        <4> QED BY <1>1, <1>4, <4>2, <4>3
      <3>2. keys[s].expires <= keys[r].expires
        BY <1>1, <1>4, <1>6, <1>8, <3>1, Params
      <3>3. now <= keys[r].expires
        BY <1>2, <1>4, <3>1, <3>2
      <3>4. ~(keys[r].created <= keys[s].created)
        BY <1>4, <3>1
      <3> QED BY <1>2, <1>4, <3>1, <3>3, <3>4
    <2> QED BY <2>1, <2>2
  <1>9. /\ key_counter' \in Nat /\ secrets' \in Nat
         /\ \A x \in Int : key_counter' - 1 - (secrets' - x) = key_counter - 1 - (secrets - x)
    <2>1. \A i, j, k, n \in Int : i = k + 1 /\ j = n + 1
            => \A x \in Int : i - 1 - (j - x) = k - 1 - (n - x)
      OBVIOUS
    <2>2. key_counter' \in Nat /\ secrets' \in Nat
      BY <1>2, <1>4
    <2> QED BY <1>2, <1>4, <2>1, <2>2
  <1>10. \A s \in Live : MadeAt(keys[s].secret) = key_counter - 1 - (secrets - keys[s].secret)
    BY DEF MadeAt
  <1>11. LiveInv(f)'
    <2>1. ASSUME NEW s \in Live'
          PROVE  /\ keys'[s].secret \in 1..secrets' /\ (OldKey(keys[s], f) \/ OwnKey(keys[s], f))'
                 /\ (MadeAt(keys[s].secret) >= 0)' /\ keys'[s].kid = MadeAt(keys[s].secret)' % KidMod
      <3>1. CASE s \in Kept
        <4>1. s \in Live /\ keys'[s] = keys[s] /\ keys[s].secret \in 1..secrets
          BY <1>2, <1>4, <3>1
        <4>2. MadeAt(keys[s].secret)' = MadeAt(keys[s].secret)
          <5>1. MadeAt(keys[s].secret)' = key_counter' - 1 - (secrets' - keys'[s].secret)
            BY DEF MadeAt
          <5>2. keys'[s].secret \in Int /\ keys'[s].secret = keys[s].secret
            BY <1>4, <4>1
          <5> QED BY <1>10, <1>9, <4>1, <5>1, <5>2
        <4>3. MadeAt(keys[s].secret) >= 0 /\ keys[s].kid = MadeAt(keys[s].secret) % KidMod
          BY <1>1, <4>1 DEF LiveInv
        <4>4. OldKey(keys[s], f) \/ OwnKey(keys[s], f)
          BY <1>1, <4>1 DEF LiveInv
        <4>5. (OldKey(keys[s], f) \/ OwnKey(keys[s], f))'
          BY <1>2, <1>3, <1>4, <4>1, <4>4 DEF OldKey, OwnKey
        <4>6. keys'[s].secret \in 1..secrets'
          BY <1>2, <1>4, <4>1
        <4> QED BY <4>1, <4>2, <4>3, <4>5, <4>6
      <3>2. CASE s = slot
        <4>1. MadeAt(keys[s].secret)' = key_counter
          <5>1. MadeAt(keys[s].secret)' = key_counter' - 1 - (secrets' - keys'[s].secret)
            BY DEF MadeAt
          <5>2. keys'[s].secret = secrets + 1 /\ secrets + 1 \in Int
            BY <1>2, <1>4, <3>2
          <5>3. MadeAt(keys[s].secret)' = key_counter - 1 - (secrets - (secrets + 1))
            BY <1>9, <5>1, <5>2
          <5> QED BY <1>4, <5>3
        <4>2. OwnKey(keys[s], f)'
          BY <1>1, <1>2, <1>4, <3>2 DEF OwnKey
        <4> QED BY <1>2, <1>4, <3>2, <4>1, <4>2
      <3> QED BY <1>2, <3>1, <3>2
    <2>2. ASSUME NEW s \in Live', NEW r \in Live', r # s
          PROVE  /\ keys'[r].secret # keys'[s].secret
                 /\ f <= keys'[r].secret /\ keys'[r].secret < keys'[s].secret
                      => keys'[r].created < keys'[s].created
      <3>1. CASE r \in Kept /\ s \in Kept
        BY <1>2, <1>7, <2>2, <3>1
      <3>2. CASE r = slot /\ s \in Kept
        <4>1. keys'[s].secret \in 1..secrets /\ keys'[r].secret = secrets + 1
          BY <1>2, <1>4, <3>2
        <4> QED BY <1>4, <4>1
      <3>3. CASE r \in Kept /\ s = slot
        <4>1. keys'[r].secret \in 1..secrets /\ keys'[s].secret = secrets + 1 /\ keys'[s].created = now
          BY <1>2, <1>4, <3>3
        <4>2. keys'[r].created < now
          BY <1>2, <1>4, <1>6, <3>3
        <4> QED BY <1>4, <4>1, <4>2
      <3> QED BY <1>2, <2>2, <3>1, <3>2, <3>3
    <2>3. ASSUME NEW s \in Live', NEW v \in f..secrets', keys'[s].secret <= v
          PROVE  \E r \in Live' : keys'[r].secret = v
      <3>1. CASE v = secrets + 1
        BY <1>2, <3>1
      <3>2. CASE v # secrets + 1
        <4>1. v \in f..secrets
          BY <1>2, <1>4, <3>2
        <4>2. s \in Kept /\ keys[s].secret <= v
          BY <1>2, <1>4, <2>3, <4>1
        <4>3. PICK r \in Live : keys[r].secret = v
          BY <1>1, <4>1, <4>2 DEF LiveInv
        <4>4. r \in Kept
          BY <1>8, <4>1, <4>2, <4>3
        <4> QED BY <1>2, <4>3, <4>4
      <3> QED BY <3>1, <3>2
    <2> QED BY <2>1, <2>2, <2>3 DEF LiveInv
  \* A live key of this boot that has not expired and is replaced has MaxKeys successors.
  <1>12. ASSUME NEW s \in Live, keys[s].secret >= f, now <= keys[s].expires, s \notin Kept
         PROVE  secrets + 1 - keys[s].secret >= MaxKeys
    <2>1. s = slot /\ \A r \in Slots : r \in Live /\ keys[s].created <= keys[r].created
      BY <1>2, <1>12
    <2> DEFINE x == [r \in Slots |-> keys[r].secret]
    <2>2. ASSUME NEW r \in Slots PROVE x[r] \in keys[s].secret..secrets
      <3>1. CASE r = s
        BY <1>4, <3>1
      <3>2. CASE r # s
        <4>1. r \in Live /\ keys[s].created <= keys[r].created /\ keys[s].created \in Nat /\ keys[r].created \in Nat
          BY <1>4, <2>1
        <4>2. keys[r].secret >= f
          BY <1>1, <1>4, <1>6, <1>12, <4>1
        <4>3. ~(keys[r].secret < keys[s].secret)
          BY <1>1, <1>4, <1>7, <3>2, <4>1, <4>2
        <4> QED BY <1>4, <4>1, <4>3
      <3> QED BY <3>1, <3>2
    <2>3. \A r, q \in Slots : x[r] = x[q] => r = q
      BY <1>7, <2>1
    <2>4. x \in [Slots -> keys[s].secret..secrets]
      BY <2>2
    <2> HIDE DEF x
    <2>5. keys[s].secret \in Int /\ secrets \in Int
      BY <1>4
    <2>6. secrets - keys[s].secret + 1 >= MaxKeys
      BY Zenon, <2>3, <2>4, <2>5, SlotsApart
    <2> QED BY <2>5, <2>6, Params
  <1>13. CapInv(f)'
    <2>1. ASSUME NEW c \in OfThisBoot
          PROVE  /\ c.counter \in 1..key_counter' /\ c.key_expires \in Nat
                 /\ c.secret \in f..secrets' /\ MadeAt(c.secret)' = c.counter - 1
                 /\ c.kid = (c.counter - 1) % KidMod
                 /\ clock <= c.key_expires /\ key_counter' - c.counter < MaxKeys =>
                      \E s \in Live' : keys'[s].secret = c.secret /\ keys'[s].expires = c.key_expires
      <3>1. /\ c.counter \in 1..key_counter /\ c.key_expires \in Nat
            /\ c.secret \in f..secrets /\ MadeAt(c.secret) = c.counter - 1
            /\ c.kid = (c.counter - 1) % KidMod
            /\ clock <= c.key_expires /\ key_counter - c.counter < MaxKeys =>
                 \E s \in Live : keys[s].secret = c.secret /\ keys[s].expires = c.key_expires
        BY <1>1 DEF CapInv
      <3>2. MadeAt(c.secret)' = MadeAt(c.secret)
        <4>1. /\ MadeAt(c.secret)' = key_counter' - 1 - (secrets' - c.secret)
              /\ MadeAt(c.secret) = key_counter - 1 - (secrets - c.secret)
          BY DEF MadeAt
        <4>2. c.secret \in Int
          BY <1>1, <1>4, <3>1
        <4> QED BY <1>9, <4>1, <4>2
      <3>3. c.counter \in 1..key_counter' /\ c.secret \in f..secrets'
        BY <1>1, <1>2, <1>4, <3>1
      <3>4. ASSUME clock <= c.key_expires, key_counter' - c.counter < MaxKeys
            PROVE  \E s \in Live' : keys'[s].secret = c.secret /\ keys'[s].expires = c.key_expires
        <4>1. key_counter - c.counter < MaxKeys
          BY <1>2, <1>4, <3>1, <3>4, Params
        <4>2. PICK s \in Live : keys[s].secret = c.secret /\ keys[s].expires = c.key_expires
          BY <3>1, <3>4, <4>1
        <4>3. now <= keys[s].expires /\ keys[s].secret >= f
          BY <1>1, <1>4, <3>1, <3>4, <4>2
        <4>4. secrets + 1 - c.secret = key_counter + 1 - c.counter
          <5>1. key_counter - 1 - (secrets - c.secret) = c.counter - 1
            BY <3>1 DEF MadeAt
          <5>2. c.secret \in Nat /\ c.counter \in Nat
            BY <1>1, <1>4, <3>1
          <5> QED BY <1>4, <5>1, <5>2
        <4>5. s \in Kept
          <5>1. ~(secrets + 1 - keys[s].secret >= MaxKeys)
            <6>1. key_counter + 1 - c.counter < MaxKeys /\ key_counter + 1 - c.counter \in Int
              BY <1>2, <1>4, <3>1, <3>4
            <6> QED BY <4>2, <4>4, <6>1, Params
          <5> QED BY <1>12, <4>3, <5>1
        <4> QED BY <1>2, <4>2, <4>5
      <3> QED BY <3>1, <3>2, <3>3, <3>4
    <2>2. OfThisBoot' = OfThisBoot
      BY <1>3 DEF OfThisBoot
    <2> QED BY <1>3, <2>1, <2>2 DEF CapInv
  <1>14. f \in 1..secrets'
    BY <1>1, <1>2, <1>4
  <1> QED BY <1>5, <1>11, <1>13, <1>14 DEF KeyInv

\* The active key signs.
LEMMA SignUses ==
    ASSUME NEW at, NEW ttl, NEW methods, NEW rate, NEW parent, Sign(at, ttl, methods, rate, parent)
    PROVE  \A c \in caps' : c \in caps \/ /\ c.kid = keys[active].kid /\ c.secret = keys[active].secret
                                          /\ c.counter = key_counter /\ c.key_expires = keys[active].expires
  BY DEF Sign

\* Every step keeps the keys in order.
LEMMA KeyStep ==
    ASSUME OneRotator, RevocationInv, KeyInv, [Next]_vars PROVE KeyInv'
  <1>0. /\ clock \in Nat /\ last_rotation \in 1..clock
        /\ rotating \in [Threads -> {-1} \cup (last_rotation..clock)]
    BY DEF KeyInv, KeyTypeOK
  <1>1. ASSUME NEW d \in Nat, clock' = clock + d
        PROVE  /\ clock' \in Nat /\ clock <= clock'
               /\ rotating \in [Threads -> {-1} \cup (last_rotation..clock')]
    <2>1. clock' \in Nat /\ clock <= clock'
      BY <1>0, <1>1
    <2>2. {-1} \cup (last_rotation..clock) \subseteq {-1} \cup (last_rotation..clock')
      BY <1>0, <2>1
    <2> QED BY <1>0, <2>1, <2>2
  <1>2. clock <= clock /\ clock = clock + 0 /\ 0 \in Nat /\ 1 \in Nat
    BY <1>0
  <1>3. CASE Tick
    BY <1>1, <1>2, <1>3, KeysStay DEF Tick
  <1>4. ASSUME NEW t \in Threads, RotateRead(t) PROVE KeyInv'
    <2>1. UNCHANGED <<clock, boot, key_vars, caps>> /\ rotating' = [rotating EXCEPT ![t] = clock]
      BY <1>4 DEF RotateRead
    <2>2. rotating' \in [Threads -> {-1} \cup (last_rotation..clock)]
      <3>1. clock \in {-1} \cup (last_rotation..clock)
        BY <1>0
      <3> QED BY <1>0, <2>1, <3>1
    <2> QED BY <1>0, <1>2, <2>1, <2>2, KeysStay
  <1>5. ASSUME NEW t \in Threads, ak_key_rotate(t) PROVE KeyInv'
    <2>1. CASE (rotating[t] - last_rotation) % WordMod < Rotation
      <3>1. UNCHANGED <<clock, boot, key_vars, caps>> /\ rotating' = [rotating EXCEPT ![t] = -1]
        BY <1>5, <2>1 DEF ak_key_rotate
      <3>2. rotating' \in [Threads -> {-1} \cup (last_rotation..clock)]
        <4>1. -1 \in {-1} \cup (last_rotation..clock)
          OBVIOUS
        <4> QED BY <1>0, <3>1, <4>1
      <3> QED BY <1>0, <1>2, <3>1, <3>2, KeysStay
    <2>2. CASE ~((rotating[t] - last_rotation) % WordMod < Rotation)
      BY <1>5, <2>2, RotateKeys
    <2> QED BY <2>1, <2>2
  <1>6. CASE ak_capability_create
    <2>1. \E ttl, methods, rate : Sign(clock, ttl, methods, rate, 0)
      BY <1>6 DEF ak_capability_create
    <2>2. UNCHANGED <<clock, boot, key_vars, rotating>>
      BY <1>6 DEF ak_capability_create
    <2> QED BY <1>0, <1>2, <2>1, <2>2, SignUses, KeysStay
  <1>7. CASE ak_capability_delegate
    <2>1. PICK c \in caps, ttl \in 1..MaxTtl, methods \in SUBSET Methods, rate \in Rates, d \in 0..MaxDelay :
            clock' = clock + d /\ Sign(clock + d, ttl, methods, rate, c.tid)
      BY <1>7 DEF ak_capability_delegate
    <2>2. UNCHANGED <<boot, key_vars, rotating>> /\ d \in Nat
      BY <1>7, CapabilityAssumption DEF ak_capability_delegate
    <2> QED BY <1>1, <2>1, <2>2, SignUses, KeysStay
  <1>8. ASSUME NEW tid, ak_revocation_add(tid) PROVE KeyInv'
    <2>1. UNCHANGED <<clock, boot, key_vars, rotating, caps>>
      BY <1>8 DEF ak_revocation_add
    <2> QED BY <1>0, <1>2, <2>1, KeysStay
  <1>9. CASE Reboot
    BY <1>9, ImportKeys, FreshBoot DEF Reboot
  <1>10. CASE UNCHANGED vars
    <2>1. UNCHANGED <<clock, boot, key_vars, rotating, caps>>
      BY <1>10 DEF vars
    <2> QED BY <1>0, <1>2, <2>1, KeysStay
  <1> QED BY <1>3, <1>4, <1>5, <1>6, <1>7, <1>8, <1>9, <1>10 DEF Next

\* With distinct kids a capability whose key is live is verified with that key.
LEMMA KeysVerify == ASSUME KidsSuffice, RevocationInv, KeyInv PROVE KeysServe
  <1>0. KeyTypeOK
    BY DEF KeyInv
  <1>1. PICK f \in 1..secrets : LiveInv(f) /\ CapInv(f)
    BY DEF KeyInv
  <1>2. KidsDistinct
    BY <1>0, <1>1, KidsDiffer
  <1>3. active \in Live /\ keys[active].kid = (key_counter - 1) % KidMod
    <2>1. active \in Live /\ keys[active].secret = secrets /\ secrets \in Nat /\ key_counter \in Nat
      BY <1>0 DEF KeyTypeOK
    <2>2. MadeAt(secrets) = key_counter - 1
      BY <2>1 DEF MadeAt
    <2> QED BY <1>1, <2>1, <2>2 DEF LiveInv
  <1>4. ASSUME NEW c \in OfThisBoot, clock <= Expiry(c), clock <= c.key_expires, key_counter - c.counter < MaxKeys
        PROVE  ak_capability_verify(c)
    <2>1. PICK s \in Live : keys[s].secret = c.secret /\ keys[s].expires = c.key_expires
      BY <1>1, <1>4 DEF CapInv
    <2>2. keys[s].kid = c.kid
      BY <1>1, <2>1 DEF LiveInv, CapInv
    <2>3. {r \in Live : keys[r].kid = c.kid} = {s}
      BY <1>2, <2>2 DEF KidsDistinct
    <2>4. First({s}) = s
      <3>1. s \in Slots /\ {s} \subseteq Slots
        BY DEF Live
      <3>2. First({s}) \in {s}
        BY <3>1, FirstSlot
      <3> QED BY <3>2
    <2> QED BY <1>4, <2>1, <2>3, <2>4 DEF ak_capability_verify, SameSecret, Expiry
  <1> QED BY <1>2, <1>3, <1>4 DEF KeysServe

\* With one rotation at a time and reboots too few for a kid to come round again,
\* ak_key_get is unambiguous and a capability of this boot verifies until its TTL
\* while its key is within its lifetime and has fewer than AK_MAX_KEYS successors:
\* keys that a reboot imported never cost a newer one its slot.
THEOREM KeysSound == ASSUME OneRotator, KidsSuffice PROVE Spec => []KeysServe
  <1>1. Init => RevocationInv /\ KeyInv
    BY RevocationInit, KeyInit
  <1>2. RevocationInv /\ KeyInv /\ [Next]_vars => (RevocationInv /\ KeyInv)'
    BY RevocationStep, KeyStep
  <1>3. RevocationInv /\ KeyInv => KeysServe
    BY KeysVerify
  <1> QED BY <1>1, <1>2, <1>3, PTL DEF Spec
=============================================================================
