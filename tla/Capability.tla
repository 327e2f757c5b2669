----------------------------- MODULE Capability -----------------------------
(***************************************************************************)
(* ak_capability.c: signing keys and their rotation, capabilities with a TTL, *)
(* delegation, the revocation table with its sweep, and a reboot after which  *)
(* keys are imported and revocations reloaded from the audit log.  Everything *)
(* is decided by comparing times read from the monotonic clock, which starts  *)
(* over at boot.                                                              *)
(*                                                                            *)
(* Keys are numbered as their secrets are made; a MAC verifies under the      *)
(* secret that made it only, which is that of every key made from the seed.   *)
(* A capability's id is its number.  Its scope is the list of its methods,    *)
(* empty for all, and its rate, 0 for unlimited.                              *)
(***************************************************************************)
EXTENDS Integers, FiniteSets

CONSTANTS Threads,         \* callers of ak_key_rotate
          MaxKeys,         \* AK_MAX_KEYS
          Rotation,        \* AK_KEY_ROTATION_MS
          Grace,           \* AK_KEY_GRACE_MS
          MaxTtl,          \* AK_MAX_CAP_TTL_MS
          SweepThreshold,  \* AK_REVOCATION_SWEEP_THRESHOLD
          KidMod,          \* 256: a kid is a u8
          WordMod,         \* 2^64, scaled
          Methods, Rates,  \* what a capability can list and be limited to
          Uptime,          \* bound: clock, in each boot
          MaxDelay,        \* bound: time that passes inside an operation
          MaxCaps,         \* bound: capabilities created
          MaxBoots         \* bound: reboots

ASSUME CapabilityAssumption ==
    /\ MaxKeys \in Nat \ {0} /\ KidMod \in Nat \ {0}
    /\ Rotation \in Nat \ {0} /\ Grace \in Nat /\ MaxTtl \in Nat /\ SweepThreshold \in Nat
    /\ Uptime \in [0..MaxBoots -> Nat] /\ MaxDelay \in Nat
    /\ WordMod \in Nat /\ \A b \in 0..MaxBoots : WordMod > 2 * Uptime[b]
    /\ Rates \subseteq Nat /\ MaxCaps \in Nat /\ MaxBoots \in Nat

VARIABLES
    clock, boot,
    keys,          \* each slot: [kid, secret, created, expires, retired]
    active,        \* active_kid: the slot of the signing key
    key_counter, last_rotation,
    secrets,       \* secrets made
    seeded,        \* those made from the seed ak_keys_set_seed staged
    rotating,      \* each thread: the clock as ak_key_rotate has read it, or -1
    caps,          \* capabilities created: [tid, kid, secret, issued, ttl, methods, rate,
                   \*   parent] and the boot, the counter and the key's expiry it was signed at
    revocations,   \* the table: [tid, at]
    log,           \* the audit log: the first revocation of each id
    lost           \* ids in the log whose entry found no memory when last inserted

key_vars == <<keys, active, key_counter, last_rotation, secrets>>
revocation_vars == <<revocations, log, lost>>
vars == <<clock, boot, key_vars, seeded, rotating, caps, revocation_vars>>

Slots == 0..(MaxKeys - 1)
Retain == MaxTtl + Rotation     \* AK_REVOCATION_RETAIN_MS
Unused == [kid |-> 0, secret |-> 0, created |-> 0, expires |-> 0, retired |-> TRUE]
NewKey(counter, at) ==
    [kid |-> counter % KidMod, secret |-> secrets + 1, created |-> at,
     expires |-> at + Rotation + Grace, retired |-> FALSE]

\* ak_keys_init, at time 1.  The secret is the staged seed, if there is one.
FreshKeys == [s \in Slots |-> IF s = 0 THEN NewKey(0, 1) ELSE Unused]

Init ==
    /\ clock = 1 /\ boot = 0
    /\ secrets = 1 /\ active = 0 /\ key_counter = 1 /\ last_rotation = 1
    /\ keys = [s \in Slots |-> IF s = 0 THEN [NewKey(0, 1) EXCEPT !.secret = 1] ELSE Unused]
    /\ seeded \in {{}, {1}}
    /\ rotating = [t \in Threads |-> -1]
    /\ caps = {}
    /\ revocations = {} /\ log = {} /\ lost = {}

Tick ==
    /\ clock < Uptime[boot] /\ clock' = clock + 1
    /\ \A t \in Threads : rotating[t] # -1 => clock - rotating[t] < MaxDelay
    /\ UNCHANGED <<boot, key_vars, seeded, rotating, caps, revocation_vars>>

-----------------------------------------------------------------------------
(* Key rotation *)

\* now_ms is read before the lock is taken.
RotateRead(t) ==
    /\ rotating[t] = -1
    /\ rotating' = [rotating EXCEPT ![t] = clock]
    /\ UNCHANGED <<clock, boot, key_vars, seeded, caps, revocation_vars>>

\* Keys past their expiry are retired.
Retire(now) == [s \in Slots |-> IF now > keys[s].expires THEN [keys[s] EXCEPT !.retired = TRUE]
                                ELSE keys[s]]

Live == {s \in Slots : ~keys[s].retired}
First(S) == CHOOSE s \in S : \A r \in S : s <= r

\* Mutant: the last slot is replaced whenever all are in use.
LastSlot(ks) ==
    LET free == {s \in Slots : ks[s].retired}
    IN IF free # {} THEN First(free) ELSE MaxKeys - 1

\* The first retired slot, or the first of the oldest keys.
SlotFor(ks) ==
    LET free == {s \in Slots : ks[s].retired}
        oldest == {s \in Slots : \A r \in Slots : ks[s].created <= ks[r].created}
    IN First(IF free # {} THEN free ELSE oldest)

\* The difference of the times is unsigned.
ak_key_rotate(t) ==
    LET now == rotating[t]
        slot == SlotFor(Retire(now))
    IN
    /\ now # -1
    /\ rotating' = [rotating EXCEPT ![t] = -1]
    /\ IF (now - last_rotation) % WordMod < Rotation
       THEN UNCHANGED key_vars
       ELSE /\ keys' = [Retire(now) EXCEPT ![slot] = NewKey(key_counter, now)]
            /\ key_counter' = key_counter + 1 /\ secrets' = secrets + 1
            /\ active' = slot /\ last_rotation' = now
    /\ UNCHANGED <<clock, boot, seeded, caps, revocation_vars>>

-----------------------------------------------------------------------------
(* Capabilities *)

NextTid == Cardinality(caps) + 1
Least(a, b) == IF a < b THEN a ELSE b

ClampTtl(ttl) == Least(ttl, MaxTtl)

\* ak_capability_create: signed with the active key.
Sign(at, ttl, methods, rate, parent) ==
    /\ Cardinality(caps) < MaxCaps
    /\ caps' = caps \cup {[tid |-> NextTid, kid |-> keys[active].kid, secret |-> keys[active].secret,
                           issued |-> at, ttl |-> ClampTtl(ttl), methods |-> methods,
                           rate |-> rate, parent |-> parent, boot |-> boot,
                           counter |-> key_counter, key_expires |-> keys[active].expires]}

\* A TTL of 0 is refused, one beyond the maximum is clamped.
ak_capability_create ==
    /\ \E ttl \in {1, MaxTtl + Rotation + 1}, methods \in SUBSET Methods, rate \in Rates :
        Sign(clock, ttl, methods, rate, 0)
    /\ UNCHANGED <<clock, boot, key_vars, seeded, rotating, revocation_vars>>

SameSecret(a, b) == a = b \/ {a, b} \subseteq seeded

\* ak_capability_verify: ak_key_get finds a live key with the kid, the MAC is
\* that key's, and the TTL has not passed.
ak_capability_verify(c) ==
    /\ LET found == {s \in Live : keys[s].kid = c.kid}
       IN found # {} /\ SameSecret(keys[First(found)].secret, c.secret)
    /\ clock <= c.issued + c.ttl

\* ak_capability_validate, for a request inside the capability's scope.
ak_capability_validate(c) == ak_capability_verify(c) /\ c.tid \notin {e.tid : e \in revocations}

ak_capability_remaining_ttl(c) == IF clock >= c.issued + c.ttl THEN 0 ELSE c.issued + c.ttl - clock

\* ak_capability_delegate.  The clock is read for the checks and again by
\* ak_capability_create; time may pass in between.
ak_capability_delegate ==
    /\ \E c \in caps, ttl \in 1..MaxTtl, methods \in SUBSET Methods, rate \in Rates, d \in 0..MaxDelay :
        /\ ak_capability_verify(c)
        /\ ttl <= ak_capability_remaining_ttl(c)
        /\ rate <= c.rate
        /\ methods \subseteq c.methods
        /\ clock + d <= Uptime[boot] /\ clock' = clock + d
        /\ Sign(clock + d, ttl, methods, rate, c.tid)
    /\ UNCHANGED <<boot, key_vars, seeded, rotating, revocation_vars>>

-----------------------------------------------------------------------------
(* Revocation *)

\* Mutant: entries are kept for a rotation only.
KeepsBriefly(e, now) == e.at >= now - Rotation

Keeps(e, now) == e.at >= now - Retain

\* ak_revocation_sweep_locked
Swept(table, now) == IF now < Retain THEN table ELSE {e \in table : Keeps(e, now)}

\* ak_revocation_insert_locked: an id already there keeps its entry; a table at
\* the threshold is swept first; without memory there is no new entry.
Inserted(table, tid, at, now, memory) ==
    IF tid \in {e.tid : e \in table} THEN table
    ELSE (IF Cardinality(table) >= SweepThreshold THEN Swept(table, now) ELSE table)
            \cup {e \in {[tid |-> tid, at |-> at]} : memory}

Listed == {e.tid : e \in revocations}

\* The ids revoked so far.
revoked == {e.tid : e \in log}

\* ak_revocation_add, which logs the id in any case; ak_revocation_revoke_run does
\* the same with a run's id.
ak_revocation_add(tid) ==
    /\ \E memory \in BOOLEAN : revocations' = Inserted(revocations, tid, clock, clock, memory)
    /\ log' = IF tid \in revoked THEN log ELSE log \cup {[tid |-> tid, at |-> clock]}
    /\ lost' = IF tid \in Listed' THEN lost \ {tid} ELSE lost \cup {tid}
    /\ UNCHANGED <<clock, boot, key_vars, seeded, rotating, caps>>

-----------------------------------------------------------------------------
(* Reboot *)

\* ak_key_get(kid) finds one key.
KidsDistinct == \A r, s \in Live : keys[r].kid = keys[s].kid => r = s

\* ak_keys_import of the blob ak_keys_export made: the active key gets a full
\* lifetime, the others one grace period.
Imported == [s \in Slots |->
    IF keys[s].retired THEN Unused
    ELSE [keys[s] EXCEPT !.created = IF s = active THEN 1 ELSE 0,
                         !.expires = IF s = active THEN 1 + Rotation + Grace ELSE 1 + Grace]]

\* With the keys exported and imported the capabilities of earlier boots go on;
\* without, or when the import is refused for a kid that is there twice, a new
\* secret ends them, unless it is made from the same seed.
\* ak_revocation_load_from_log inserts the log's entries it has memory for, with
\* the times of the boot that made them; at time 1 its sweep finds nothing old.
Reboot ==
    /\ boot < MaxBoots /\ boot' = boot + 1 /\ clock' = 1
    /\ rotating' = [t \in Threads |-> -1]
    /\ last_rotation' = 1
    /\ revocations' \in SUBSET log /\ lost' = revoked \ Listed'
    /\ \/ KidsDistinct /\ keys' = Imported /\ UNCHANGED <<active, key_counter, secrets, seeded>>
       \/ /\ keys' = FreshKeys /\ active' = 0 /\ key_counter' = 1 /\ secrets' = secrets + 1
          /\ seeded' \in {seeded, seeded \cup {secrets + 1}}
    /\ UNCHANGED <<caps, log>>

Next ==
    \/ Tick
    \/ \E t \in Threads : RotateRead(t) \/ ak_key_rotate(t)
    \/ ak_capability_create \/ ak_capability_delegate
    \/ \E tid \in {c.tid : c \in caps} : ak_revocation_add(tid)
    \/ Reboot

Spec == Init /\ [][Next]_vars

-----------------------------------------------------------------------------
(* Properties *)

Expiry(c) == c.issued + c.ttl
OfThisBoot == {c \in caps : c.boot = boot}

\* The sweep bounds the table "without ever un-revoking a live token": no
\* capability of this boot validates once its revocation found memory, whatever was
\* swept, failed or repeated since.
RevokedStaysDead == \A c \in OfThisBoot : c.tid \in revoked \ lost => ~ak_capability_validate(c)

\* "Revocation is immediate and persistent.  Token becomes invalid for all future
\* requests." of every revocation, also one the table has no memory for.
RevocationImmediate == \A c \in OfThisBoot : c.tid \in revoked => ~ak_capability_validate(c)

\* The same of a capability of any boot, which keys that were kept still verify:
\* "Immediate revocation with persistence (survives restart)."
RevocationSurvives == \A c \in caps : c.tid \in revoked \ lost => ~ak_capability_validate(c)

\* ak_key_get(kid) is unambiguous, the signing key is live and the newest, and a
\* capability of this boot verifies until its TTL while its key is within its
\* lifetime and has fewer than AK_MAX_KEYS successors.
KeysServe ==
    /\ KidsDistinct
    /\ active \in Live /\ keys[active].kid = (key_counter - 1) % KidMod
    /\ \A c \in OfThisBoot :
        clock <= Expiry(c) /\ clock <= c.key_expires /\ key_counter - c.counter < MaxKeys
            => ak_capability_verify(c)

\* "Live keys are always the AK_MAX_KEYS most recent counter values."
LiveKeysRecent ==
    \A s \in Live : \E n \in 1..MaxKeys : keys[s].kid = (key_counter - n) % KidMod

\* "TTL cannot exceed parent's remaining TTL": a child does not outlive its parent.
ChildExpiresFirst == \A c, p \in caps : c.parent = p.tid => Expiry(c) <= Expiry(p)

\* "child.scope \subseteq parent.scope, child.rate <= parent.rate"
Allowed(c) == IF c.methods = {} THEN Methods ELSE c.methods
DelegationAttenuates ==
    \A c, p \in caps : c.parent = p.tid =>
        /\ Allowed(c) \subseteq Allowed(p)
        /\ p.rate # 0 => c.rate \in 1..p.rate

-----------------------------------------------------------------------------
(* The inductive invariant behind RevokedStaysDead: a revoked capability of   *)
(* this boot is in the table until its TTL has passed, unless its entry was   *)
(* lost: an entry is not older than its capability and is kept for longer     *)
(* than any TTL.  Only ids that were handed out are revoked.                  *)

RevocationInv ==
    /\ clock \in Nat /\ boot \in Nat /\ IsFiniteSet(caps)
    /\ \A c \in caps : /\ c.tid \in 1..Cardinality(caps) /\ c.boot \in 0..boot
                       /\ c.issued \in Nat /\ c.ttl \in 0..MaxTtl
    /\ \A e \in log \cup revocations : e.tid \in 1..Cardinality(caps) /\ e.at \in Nat
    /\ \A c \in OfThisBoot :
        /\ c.issued <= clock
        /\ \A e \in revocations : e.tid = c.tid => c.issued <= e.at
        /\ c.tid \in revoked => c.tid \in lost \cup Listed \/ clock > Expiry(c)

-----------------------------------------------------------------------------
(* The inductive invariant behind KeysServe, for rotations one at a time and   *)
(* reboots too few for a kid to come round again.  f is the number of the      *)
(* secret that was active at boot: the keys before it are imported ones, which *)
(* are gone before any later key is, so that the live keys from f on are the   *)
(* last ones made, without a gap.                                              *)

OneRotator == \A t, u \in Threads : t = u
KidsSuffice == (MaxBoots + 1) * (MaxKeys - 1) < KidMod

Key == [kid : Nat, secret : Nat, created : Nat, expires : Nat, retired : BOOLEAN]

\* The counter value a key was made at, from how many were made since.
MadeAt(secret) == key_counter - 1 - (secrets - secret)

KeyTypeOK ==
    /\ clock \in Nat /\ boot \in 0..MaxBoots /\ keys \in [Slots -> Key] /\ active \in Slots
    /\ key_counter \in Nat \ {0} /\ secrets \in Nat \ {0} /\ last_rotation \in 1..clock
    /\ rotating \in [Threads -> {-1} \cup (last_rotation..clock)]
    /\ active \in Live /\ keys[active].secret = secrets /\ keys[active].created = last_rotation

\* An imported key, and one made in this boot.
OldKey(k, f) == /\ k.secret < f /\ f - k.secret <= boot * (MaxKeys - 1)
                /\ k.created = 0 /\ k.expires = 1 + Grace
OwnKey(k, f) == /\ k.secret >= f /\ k.created \in 1..last_rotation
                /\ k.expires = k.created + Rotation + Grace

LiveInv(f) ==
    \A s \in Live :
        /\ keys[s].secret \in 1..secrets /\ (OldKey(keys[s], f) \/ OwnKey(keys[s], f))
        /\ MadeAt(keys[s].secret) >= 0 /\ keys[s].kid = MadeAt(keys[s].secret) % KidMod
        /\ \A r \in Live : r # s =>
            /\ keys[r].secret # keys[s].secret
            /\ f <= keys[r].secret /\ keys[r].secret < keys[s].secret => keys[r].created < keys[s].created
        /\ \A v \in f..secrets : keys[s].secret <= v => \E r \in Live : keys[r].secret = v

CapInv(f) ==
    \A c \in OfThisBoot :
        /\ c.counter \in 1..key_counter /\ c.key_expires \in Nat
        /\ c.secret \in f..secrets /\ MadeAt(c.secret) = c.counter - 1
        /\ c.kid = (c.counter - 1) % KidMod
        /\ clock <= c.key_expires /\ key_counter - c.counter < MaxKeys =>
            \E s \in Live : keys[s].secret = c.secret /\ keys[s].expires = c.key_expires

KeyInv == KeyTypeOK /\ \E f \in 1..secrets : LiveInv(f) /\ CapInv(f)
=============================================================================
