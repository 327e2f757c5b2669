-------------------------------- MODULE Heap --------------------------------
(***************************************************************************)
(* ak_heap.c: typed objects with versions, compare-and-swap writes,          *)
(* tombstones, a version history, snapshot and restore, and the buffered     *)
(* transactions behind ak_handle_batch.  Each operation holds heap_lock from *)
(* its lookup to its last assignment and is one action; a commit validates   *)
(* without the lock and then calls the operations one at a time.             *)
(*                                                                           *)
(* The value of an object is the set of patches it is made of: allocating    *)
(* and writing add one.  An operation is refused when the version it expects *)
(* is not the current one, and a write also when its patch does not apply;    *)
(* refused, it changes nothing.  A buffered operation expects the version     *)
(* that was current when it was buffered.  Memory may be short for a version,  *)
(* for a new object and for a restored one.  Types, owners, taint and the     *)
(* byte counts are left out, and of modified_ms only a tombstone's            *)
(* (deleted_at) is ever read.                                                 *)
(***************************************************************************)
EXTENDS Integers, Sequences, FiniteSets

CONSTANTS Threads,      \* the threads that send batches
          KeepCounts,   \* keep_count of ak_heap_purge_versions
          OlderThan,    \* older_than_ms of ak_heap_purge_tombstones
          WordMod,      \* 2^64, scaled
          MaxTime,      \* bound: clock
          MaxPatches,   \* bound: objects allocated and patches written
          MaxOps,       \* bound: operations in one transaction
          MaxRestarts   \* bound: snapshots, reboots and restores

ASSUME HeapAssumption ==
    /\ KeepCounts \subseteq Nat
    /\ OlderThan \in Nat /\ WordMod \in Nat /\ MaxTime \in 0..(WordMod - 1)
    /\ MaxPatches \in Nat /\ MaxOps \in Nat /\ MaxRestarts \in Nat

VARIABLES
    objects,      \* the object table: [version, value, deleted, deleted_at] of each ptr
    history,      \* each ptr: its saved [version, value], newest first
    dangling,     \* ptrs whose history list points to freed entries
    rewound,      \* ptrs with a history whose object a restore has replaced
    next_ptr, object_count, deleted_count, version_count,
    clock, restarts,
    snap,         \* the last snapshot: objects, next_ptr, and what was applied to them
    txn,          \* each thread: its transaction, [state, ops, at, whole]
    purge_now,    \* the clock as ak_heap_purge_tombstones has read it, or -1
    patches,      \* patches handed out
    acked,        \* [ptr, base, version, id]: patch id, made for base, made version of ptr
    applied,      \* those of acked the objects are made of
    undone        \* those a reboot or a restore has taken out since

table == <<objects, next_ptr, object_count, deleted_count>>
saved == <<history, dangling, rewound, version_count>>
ledger == <<acked, applied, undone>>
env == <<clock, restarts, snap>>
vars == <<table, saved, env, txn, purge_now, patches, ledger>>

NoTxn == [state |-> "none", ops |-> <<>>, at |-> 1, whole |-> TRUE]
NoSnap == [objects |-> <<>>, next_ptr |-> 1, applied |-> {}, taken |-> FALSE]

Empty == /\ objects = <<>> /\ history = <<>> /\ dangling = {} /\ rewound = {} /\ next_ptr = 1
         /\ object_count = 0 /\ deleted_count = 0 /\ version_count = 0

\* ak_heap_init
Init ==
    /\ Empty
    /\ clock = 1 /\ restarts = 0 /\ snap = NoSnap
    /\ txn = [t \in Threads |-> NoTxn] /\ purge_now = -1
    /\ patches = 0 /\ acked = {} /\ applied = {} /\ undone = {}

-----------------------------------------------------------------------------
(* The operations on one object *)

\* obj && !obj->deleted
Present(p) == p \in DOMAIN objects /\ ~objects[p].deleted

\* Mutant: the version is not compared.
MatchesAny(p, v) == Present(p)

\* Mutant: a tombstone is found.
MatchesDead(p, v) == p \in DOMAIN objects /\ objects[p].version = v

\* find_object, and the compare of the compare-and-swap.
Matches(p, v) == Present(p) /\ objects[p].version = v

\* f with f[p] = x, p new or not.
Put(f, p, x) == [q \in DOMAIN f \cup {p} |-> IF q = p THEN x ELSE f[q]]

HistoryOf(p) == IF p \in DOMAIN history THEN history[p] ELSE <<>>

\* save_version: at the head of the list, or nothing when memory is short.
save_version(p, v, value) ==
    \/ /\ history' = Put(history, p, <<[version |-> v, value |-> value]>> \o HistoryOf(p))
       /\ version_count' = version_count + 1
    \/ UNCHANGED <<history, version_count>>

\* Mutant: the history gets the version the write makes, with the value it replaces.
SaveNew(p) == save_version(p, objects[p].version + 1, objects[p].value)

SaveOld(p) == save_version(p, objects[p].version, objects[p].value)

\* The patch is acknowledged.
Acknowledge(a) ==
    /\ acked' = acked \cup {a} /\ applied' = applied \cup {a}
    /\ UNCHANGED <<undone, dangling, rewound>>

\* ak_heap_alloc with patch id.
Alloc(id) ==
    LET p == next_ptr IN
    /\ next_ptr' = next_ptr + 1
    /\ objects' = Put(objects, p, [version |-> 1, value |-> {id}, deleted |-> FALSE, deleted_at |-> 0])
    /\ object_count' = object_count + 1
    /\ save_version(p, 1, {id})
    /\ Acknowledge([ptr |-> p, base |-> 0, version |-> 1, id |-> id])
    /\ UNCHANGED deleted_count

\* ak_heap_write: the old version is saved, the patched value takes its place.
Write(p, v, id) ==
    /\ Matches(p, v)
    /\ SaveOld(p)
    /\ objects' = [objects EXCEPT ![p].value = @ \cup {id}, ![p].version = @ + 1]
    /\ Acknowledge([ptr |-> p, base |-> v, version |-> objects[p].version + 1, id |-> id])
    /\ UNCHANGED <<next_ptr, object_count, deleted_count>>

\* ak_heap_delete: a tombstone stays.
Delete(p, v) ==
    /\ Matches(p, v)
    /\ SaveOld(p)
    /\ objects' = [objects EXCEPT ![p].deleted = TRUE, ![p].version = @ + 1,
                                  ![p].deleted_at = clock]
    /\ deleted_count' = deleted_count + 1
    /\ UNCHANGED <<next_ptr, object_count, dangling, rewound, ledger>>

-----------------------------------------------------------------------------
(* Single operations *)

NewPatch == patches < MaxPatches /\ patches' = patches + 1
Elsewhere == UNCHANGED <<env, txn, purge_now>>

ak_heap_alloc ==
    /\ NewPatch /\ Alloc(patches + 1)
    /\ Elsewhere

ak_heap_write ==
    /\ NewPatch
    /\ \E p \in DOMAIN objects : Write(p, objects[p].version, patches + 1)
    /\ Elsewhere

ak_heap_delete ==
    /\ \E p \in DOMAIN objects : Delete(p, objects[p].version)
    /\ Elsewhere /\ UNCHANGED patches

-----------------------------------------------------------------------------
(* Garbage collection *)

\* Keep the newest k entries of every history.  With k = 0 the entries are
\* freed but the list still points to the first of them; a later purge that
\* cuts the list frees what it finds behind that pointer and counts it.
ak_heap_purge_versions ==
    /\ \E k \in KeepCounts :
        LET cut == {p \in DOMAIN history : Len(history[p]) > k}
            kept == [p \in DOMAIN history |->
                        IF p \in cut THEN SubSeq(history[p], 1, k) ELSE history[p]]
            freed == UNION {{p} \X ((k + 1)..Len(history[p])) : p \in cut}
        IN /\ cut # {}
           /\ history' = kept
           /\ IF cut \cap dangling = {}
              THEN version_count' = version_count - Cardinality(freed)
              ELSE version_count' \in 0..version_count
           /\ dangling' = IF k = 0 THEN dangling \cup cut ELSE dangling
    /\ UNCHANGED <<table, rewound, env, txn, purge_now, patches, ledger>>

\* ak_heap_purge_tombstones reads the clock before it takes the lock.
PurgeStart ==
    /\ purge_now = -1 /\ purge_now' = clock
    /\ UNCHANGED <<table, saved, env, txn, patches, ledger>>

\* now - modified_ms is unsigned.
Expired(p) ==
    objects[p].deleted /\ (purge_now - objects[p].deleted_at) % WordMod > OlderThan

ak_heap_purge_tombstones ==
    /\ purge_now # -1
    /\ LET gone == {p \in DOMAIN objects : Expired(p)}
       IN /\ objects' = [p \in DOMAIN objects \ gone |-> objects[p]]
          /\ object_count' = object_count - Cardinality(gone)
          /\ deleted_count' = deleted_count - Cardinality(gone)
    /\ purge_now' = -1
    /\ UNCHANGED <<next_ptr, saved, env, txn, patches, ledger>>

-----------------------------------------------------------------------------
(* Transactions: ak_handle_batch *)

ak_heap_txn_begin(t) ==
    /\ txn[t].state = "none"
    /\ txn' = [txn EXCEPT ![t] = [NoTxn EXCEPT !.state = "open"]]
    /\ UNCHANGED <<table, saved, env, purge_now, patches, ledger>>

Buffer(t, op) ==
    /\ txn[t].state = "open" /\ Len(txn[t].ops) < MaxOps
    /\ txn' = [txn EXCEPT ![t].ops = Append(@, op)]
    /\ UNCHANGED <<table, saved, env, purge_now, ledger>>

\* The provisional ptr, which the batch's answer reports, counts every
\* buffered operation as an allocation and reads next_ptr without the lock.
ak_heap_txn_alloc(t) ==
    /\ NewPatch
    /\ Buffer(t, [op |-> "alloc", ptr |-> next_ptr + Len(txn[t].ops), version |-> 0,
                  id |-> patches + 1])

ak_heap_txn_write(t) ==
    /\ NewPatch
    /\ \E p \in DOMAIN objects :
        Buffer(t, [op |-> "write", ptr |-> p, version |-> objects[p].version,
                   id |-> patches + 1])

ak_heap_txn_delete(t) ==
    /\ UNCHANGED patches
    /\ \E p \in DOMAIN objects :
        Buffer(t, [op |-> "delete", ptr |-> p, version |-> objects[p].version,
                   id |-> 0])

\* Phase 1 of ak_heap_txn_commit.
Validates(op) == op.op = "alloc" \/ Matches(op.ptr, op.version)

\* A refused transaction is rolled back by the caller.
CommitValidate(t) ==
    /\ txn[t].state = "open"
    /\ txn' = [txn EXCEPT ![t] = IF \A i \in DOMAIN @.ops : Validates(@.ops[i])
                                 THEN [@ EXCEPT !.state = "applying"] ELSE NoTxn]
    /\ UNCHANGED <<table, saved, env, purge_now, patches, ledger>>

\* Phase 2, one operation at a time; what it returns is not looked at.
CommitApply(t) ==
    LET op == txn[t].ops[txn[t].at]
        Went(ok) == txn' = [txn EXCEPT ![t].at = @ + 1, ![t].whole = @ /\ ok]
    IN
    /\ txn[t].state = "applying" /\ txn[t].at <= Len(txn[t].ops)
    /\ \/ /\ op.op = "alloc" /\ Alloc(op.id) /\ Went(TRUE)
       \/ /\ op.op = "write" /\ Write(op.ptr, op.version, op.id) /\ Went(TRUE)
       \/ /\ op.op = "delete" /\ Delete(op.ptr, op.version) /\ Went(TRUE)
       \/ \* the version has changed since, the patch does not apply or memory is short
          /\ op.op = "delete" => ~Matches(op.ptr, op.version)
          /\ Went(FALSE)
          /\ UNCHANGED <<table, saved, ledger>>
    /\ UNCHANGED <<env, purge_now, patches>>

\* ak_heap_txn_commit returns 0 and the batch is answered "committed".
CommitReturn(t) ==
    /\ txn[t].state = "applying" /\ txn[t].at > Len(txn[t].ops)
    /\ txn' = [txn EXCEPT ![t] = NoTxn]
    /\ UNCHANGED <<table, saved, env, purge_now, patches, ledger>>

-----------------------------------------------------------------------------
(* Snapshot and restore *)

Again == restarts < MaxRestarts /\ restarts' = restarts + 1

ak_heap_snapshot ==
    /\ Again
    /\ snap' = [objects |-> objects, next_ptr |-> next_ptr, applied |-> applied, taken |-> TRUE]
    /\ UNCHANGED <<table, saved, clock, txn, purge_now, patches, ledger>>

\* The kernel starts over: ak_heap_init.  The monotonic clock starts over too
\* (a time of 0 stands for none), and what was not in a snapshot is lost.
Reboot ==
    /\ Again
    /\ objects' = <<>> /\ history' = <<>> /\ dangling' = {} /\ rewound' = {} /\ next_ptr' = 1
    /\ object_count' = 0 /\ deleted_count' = 0 /\ version_count' = 0
    /\ clock' = 1 /\ txn' = [t \in Threads |-> NoTxn] /\ purge_now' = -1
    /\ applied' = {} /\ undone' = undone \cup applied
    /\ UNCHANGED <<snap, patches, acked>>

\* ak_heap_restore, into an empty heap or one in use: the objects of the snapshot
\* replace those in the table, whatever their version, or are added to it, until
\* memory runs out; the generator stays ahead, the history stays as it is.
ak_heap_restore ==
    /\ snap.taken /\ Again
    /\ \E S \in SUBSET DOMAIN snap.objects :
        LET all == S = DOMAIN snap.objects
            AtLeast == {next_ptr} \cup {p + 1 : p \in S} \cup (IF all THEN {snap.next_ptr} ELSE {})
        IN /\ objects' = [p \in DOMAIN objects \cup S |->
                            IF p \in S THEN snap.objects[p] ELSE objects[p]]
           /\ object_count' = object_count + Cardinality(S \ DOMAIN objects)
           /\ deleted_count' = deleted_count
                - Cardinality({p \in S \cap DOMAIN objects : objects[p].deleted})
                + Cardinality({p \in S : snap.objects[p].deleted})
           /\ next_ptr' = CHOOSE n \in AtLeast : \A m \in AtLeast : m <= n
           /\ rewound' = rewound \cup (S \cap DOMAIN history)
           /\ applied' = {a \in applied : a.ptr \notin S} \cup {a \in snap.applied : a.ptr \in S}
           /\ undone' = (undone \cup applied) \ applied'
    /\ UNCHANGED <<history, dangling, version_count, clock, snap, txn, purge_now, patches, acked>>

Tick ==
    /\ clock < MaxTime /\ clock' = clock + 1
    /\ UNCHANGED <<table, saved, restarts, snap, txn, purge_now, patches, ledger>>

Single ==
    \/ ak_heap_alloc \/ ak_heap_write \/ ak_heap_delete
    \/ ak_heap_purge_versions \/ PurgeStart \/ ak_heap_purge_tombstones

Batch(t) ==
    \/ ak_heap_txn_begin(t) \/ ak_heap_txn_alloc(t) \/ ak_heap_txn_write(t) \/ ak_heap_txn_delete(t)
    \/ CommitValidate(t) \/ CommitApply(t) \/ CommitReturn(t)

Next ==
    \/ Single
    \/ \E t \in Threads : Batch(t)
    \/ ak_heap_snapshot \/ Reboot \/ ak_heap_restore \/ Tick

Spec == Init /\ [][Next]_vars

-----------------------------------------------------------------------------
(* Properties *)

\* The patches that make up version v of p.
ValueAt(p, v) == {a.id : a \in {b \in applied : b.ptr = p /\ b.version <= v}}

\* "Version control prevents lost updates": a patch whose write returned success
\* is in its object, unless a reboot or a restore of an older snapshot has undone
\* it; the object is made of such patches and nothing else, each was made for the
\* version it replaced, and no version was made by two of them, however writers,
\* batches, purges, reboots and restores into a heap in use interleave.
NoLostUpdate ==
    /\ \A a \in acked : a \in undone \/ (a.ptr \in DOMAIN objects => a.id \in objects[a.ptr].value)
    /\ \A p \in DOMAIN objects : objects[p].value = ValueAt(p, objects[p].version)
    /\ \A a \in applied : a.version = a.base + 1
    /\ \A a, b \in applied : a.ptr = b.ptr /\ a.version = b.version => a = b
    /\ \A a \in applied : a.ptr \in DOMAIN objects => a.version <= objects[a.ptr].version

\* The versions come newest first; only that of the allocation may be there twice,
\* when the first write has saved it again.
NewestFirst(h) ==
    \A i, j \in DOMAIN h : i < j => h[j].version < h[i].version \/ h[j].version = 1

\* Every entry is older than the object, but for the one of its allocation.
UpTo(h, v) == \A i \in DOMAIN h : h[i].version < v \/ h[i].version = 1

\* ak_heap_read_version returns what the object was at that version, or nothing:
\* memory that was short leaves a gap and never a wrong version, nor does a purge.
\* It is claimed of every history whose object no restore has replaced and whose
\* list no purge with keep_count 0 has left dangling.
HistoryFaithful ==
    \A p \in DOMAIN history \ (rewound \cup dangling) :
        /\ \A i \in DOMAIN history[p] : history[p][i].value = ValueAt(p, history[p][i].version)
        /\ NewestFirst(history[p])
        /\ p \in DOMAIN objects => UpTo(history[p], objects[p].version)

\* "Get historical version of object": ak_heap_read_version, asked for a version
\* before the current one, finds the first entry of that version, and this is what
\* the object was.
ReadVersionRight ==
    \A p \in DOMAIN objects \cap DOMAIN history : \A i \in DOMAIN history[p] :
        LET v == history[p][i].version
        IN v < objects[p].version /\ (\A j \in 1..(i - 1) : history[p][j].version # v)
            => history[p][i].value = ValueAt(p, v)

\* "Purge old versions (keeping last N)": no list is left that points to what the
\* purge has freed, N = 0 included.
ListsWhole == dangling = {}

Dead(table_) == {p \in DOMAIN table_ : table_[p].deleted}

\* The entries of all histories, by ptr and place.
Cells(history_) == UNION {{p} \X DOMAIN history_[p] : p \in DOMAIN history_}

\* ak_heap_get_stats counts what is there, through tombstones, purges and
\* restores that replace objects, and a new ptr is never one in use.  Of the
\* versions this is claimed until a purge has left a dangling list.
CountsAccurate ==
    /\ object_count = Cardinality(DOMAIN objects)
    /\ deleted_count = Cardinality(Dead(objects))
    /\ dangling = {} => version_count = Cardinality(Cells(history))
    /\ \A p \in DOMAIN objects \cup DOMAIN history : p < next_ptr

\* "All buffered operations are applied or none are": a commit that is about to
\* return 0 has applied all of them.
BatchAllOrNothing ==
    \A t \in Threads :
        txn[t].state = "applying" /\ txn[t].at > Len(txn[t].ops) => txn[t].whole

\* "Purge deleted objects older than threshold": a tombstone that a purge is about
\* to take has been there for longer than older_than_ms.
TombstonesKept ==
    \A p \in DOMAIN objects :
        purge_now # -1 /\ Expired(p) => clock - objects[p].deleted_at > OlderThan

-----------------------------------------------------------------------------
(* The inductive invariants behind NoLostUpdate and HistoryFaithful *)

Object == [version : Nat \ {0}, value : SUBSET Nat, deleted : BOOLEAN, deleted_at : Nat]
Entry == [version : Nat \ {0}, value : SUBSET Nat]
Applied == [ptr : Nat, base : Nat, version : Nat, id : Nat]
Op == [op : {"alloc", "write", "delete"}, ptr : Nat, version : Nat, id : Nat]
Txn == [state : {"none", "open", "applying"}, ops : Seq(Op), at : Nat \ {0}, whole : BOOLEAN]
IsTable(f) == DOMAIN f \subseteq Nat \ {0} /\ \A p \in DOMAIN f : f[p] \in Object

\* Every variable keeps its type (the counts are the business of CountsAccurate).
TypeOK ==
    /\ IsTable(objects) /\ next_ptr \in Nat \ {0}
    /\ DOMAIN history \subseteq Nat /\ \A p \in DOMAIN history : history[p] \in Seq(Entry)
    /\ applied \subseteq Applied
    /\ txn \in [Threads -> Txn]
    /\ IsTable(snap.objects) /\ snap.next_ptr \in Nat \ {0} /\ snap.applied \subseteq Applied
    /\ patches \in Nat /\ clock \in Nat

\* A table, its generator and the patches applied to it belong together: an
\* object's value is made of its patches, one for each version at most and none
\* newer than the object, and all ptrs are below the generator.
Belong(table_, next_, applied_) ==
    /\ \A p \in DOMAIN table_ : p < next_
    /\ \A p \in DOMAIN table_ : table_[p].value = {a.id : a \in {b \in applied_ : b.ptr = p}}
    /\ \A a \in applied_ : a.version = a.base + 1 /\ a.ptr < next_
    /\ \A a, b \in applied_ : a.ptr = b.ptr /\ a.version = b.version => a = b
    /\ \A a \in applied_ : a.ptr \in DOMAIN table_ => a.version <= table_[a.ptr].version

UpdateInv ==
    /\ TypeOK
    /\ acked \subseteq applied \cup undone
    /\ Belong(objects, next_ptr, applied)
    /\ Belong(snap.objects, snap.next_ptr, snap.applied)

Recorded(h, p, applied_) ==
    \A i \in DOMAIN h :
        h[i].value = {a.id : a \in {b \in applied_ : b.ptr = p /\ b.version <= h[i].version}}

HistoryInv ==
    /\ \A p \in DOMAIN history : p \in 1..(next_ptr - 1)
    /\ \A p \in DOMAIN history \ (rewound \cup dangling) :
        /\ NewestFirst(history[p]) /\ Recorded(history[p], p, applied)
        /\ p \in DOMAIN objects => UpTo(history[p], objects[p].version)

CountInv == CountsAccurate /\ IsFiniteSet(Cells(history))
=============================================================================
