------------------------------ MODULE StateSync ------------------------------
(***************************************************************************)
(* ak_state.c over ak_virtio_proxy.c: dirty tracking of heap objects, sync to *)
(* files of the host's akproxy daemon, state anchors, shutdown and, after a   *)
(* restart, hydration of the heap from those files.                           *)
(*                                                                            *)
(* A proxy request is a line written to the virtio serial channel and an      *)
(* answer is the next line read from it: the answer's id is not compared with *)
(* the request's.  The daemon serves requests in order.  A value is           *)
(* [obj, version, dead]: the object, the version, and whether it is a         *)
(* tombstone.  Whoever changes an object calls ak_state_mark_dirty for it.    *)
(* The record's encoding, compression and hash are left out: a record is read *)
(* back as it was written or not at all, and one that was cut is none.        *)
(*                                                                            *)
(* Three history variables name the ways an object gets lost: its change is   *)
(* not tracked (escaped), hydration does not bring it back (missed), and its  *)
(* record is cut by a failed write or overwritten by another object (ruined). *)
(***************************************************************************)
EXTENDS Integers, Sequences, SequencesExt

CONSTANTS Index,       \* ptr_to_index of each ptr
          Concurrent,  \* do objects change while a sync is under way?
          AllocFails,  \* may virtio_read_line find no memory?
          GetFails,    \* may the host fail to list or read during hydration?
          MaxPtr,      \* bound: ptrs handed out
          MaxWrites,   \* bound: objects allocated, written and deleted
          MaxCommits,  \* bound: syncs started
          MaxBoots     \* bound: restarts

ASSUME StateSyncAssumption ==
    /\ MaxPtr \in Nat /\ MaxWrites \in Nat /\ MaxCommits \in Nat /\ MaxBoots \in Nat
    /\ Index \in [1..MaxPtr -> Nat]
    /\ Concurrent \in BOOLEAN /\ AllocFails \in BOOLEAN /\ GetFails \in BOOLEAN

VARIABLES
    initialized,
    heap, next_ptr,             \* the heap: the value of each ptr
    dirty_ptrs, dirty_bitmap,
    anchor_sequence,
    task,                       \* the sync or hydration under way: [phase, kind, todo,
                                \*   synced, count, seen: the heap when it began]
    chan,                       \* answers sent by the host and not read: [ok, value]
    files,                      \* the host: the value stored for each ptr
    anchors,                    \* the host: the boot that stored each anchor number
    boot, writes, commits,
    promised,                   \* [ptr, obj, version, completed, tracked]: answered durable:true
    escaped,                    \* ptrs with a change the dirty list may have missed
    missed,                     \* ptrs of stored objects that hydration did not bring back
    ruined                      \* what was promised of a record that is gone

tracking == <<dirty_ptrs, dirty_bitmap>>
host == <<files, anchors>>
history == <<escaped, missed, ruined>>
vars == <<initialized, heap, next_ptr, tracking, anchor_sequence, task, chan, host,
          boot, writes, commits, promised, history>>

Idle == [phase |-> "idle", kind |-> "", todo |-> <<>>, synced |-> 0, count |-> 0, seen |-> <<>>]
NoValue == [obj |-> 0, version |-> 0, dead |-> FALSE]
Put(f, p, x) == [q \in DOMAIN f \cup {p} |-> IF q = p THEN x ELSE f[q]]
Drop(f, p) == [q \in DOMAIN f \ {p} |-> f[q]]

Init ==
    /\ initialized = TRUE
    /\ heap = <<>> /\ next_ptr = 1
    /\ dirty_ptrs = <<>> /\ dirty_bitmap = {}
    /\ anchor_sequence = 0 /\ task = Idle /\ chan = <<>>
    /\ files = <<>> /\ anchors = <<>>
    /\ boot = 0 /\ writes = 0 /\ commits = 0 /\ promised = {}
    /\ escaped = {} /\ missed = {} /\ ruined = {}

-----------------------------------------------------------------------------
(* Dirty tracking *)

\* A ptr whose bit is set already is taken to be in the list.
ak_state_mark_dirty(p) ==
    IF Index[p] \in dirty_bitmap THEN UNCHANGED tracking
    ELSE /\ dirty_bitmap' = dirty_bitmap \cup {Index[p]}
         /\ dirty_ptrs' = Append(dirty_ptrs, p)

\* The list with the first p taken out and what follows it moved up.
Without(s, p) ==
    LET first == CHOOSE i \in DOMAIN s : s[i] = p /\ \A j \in DOMAIN s : s[j] = p => i <= j
    IN IF p \in ToSet(s) THEN RemoveAt(s, first) ELSE s

ak_state_mark_clean(p) ==
    /\ dirty_bitmap' = dirty_bitmap \ {Index[p]}
    /\ dirty_ptrs' = Without(dirty_ptrs, p)

\* A change of p is missed when the bit that is set is another ptr's, or when the
\* answer that will mark p clean is of a request sent before the change.
Escapes(p) == \/ \E q \in ToSet(dirty_ptrs) \ {p} : Index[q] = Index[p]
              \/ task.phase = "put" /\ p = Head(task.todo)

Touch(p) == ak_state_mark_dirty(p) /\ escaped' = escaped \cup {q \in {p} : Escapes(q)}

-----------------------------------------------------------------------------
(* The heap's users *)

MayChange == /\ initialized /\ writes < MaxWrites /\ writes' = writes + 1
             /\ task.phase = "idle" \/ (Concurrent /\ task.phase # "get")

Alloc ==
    /\ MayChange /\ next_ptr <= MaxPtr
    /\ heap' = Put(heap, next_ptr, [obj |-> writes + 1, version |-> 1, dead |-> FALSE])
    /\ next_ptr' = next_ptr + 1
    /\ Touch(next_ptr)
    /\ UNCHANGED <<initialized, anchor_sequence, task, chan, host, boot, commits, promised, missed, ruined>>

\* A write, or a deletion, which leaves a tombstone.
Change ==
    /\ MayChange
    /\ \E p \in DOMAIN heap, dead \in BOOLEAN :
        /\ ~heap[p].dead
        /\ heap' = [heap EXCEPT ![p].version = @ + 1, ![p].dead = dead]
        /\ Touch(p)
    /\ UNCHANGED <<initialized, next_ptr, anchor_sequence, task, chan, host, boot, commits, promised,
                   missed, ruined>>

\* ak_heap_purge_tombstones tells nobody.
Purge ==
    /\ initialized /\ task.phase # "get"
    /\ \E p \in DOMAIN heap : heap[p].dead
    /\ heap' = [p \in {q \in DOMAIN heap : ~heap[q].dead} |-> heap[p]]
    /\ UNCHANGED <<initialized, next_ptr, tracking, anchor_sequence, task, chan, host,
                   boot, writes, commits, promised, history>>

-----------------------------------------------------------------------------
(* Sync *)

Missing == IF AllocFails THEN BOOLEAN ELSE {FALSE}

\* The status of a sync that has gone through its list.
Status == CASE task.synced = task.count -> "COMPLETED"
            [] task.synced \in 1..(task.count - 1) -> "PARTIAL"
            [] OTHER -> "FAILED"

\* ak_state_handle_commit and ak_state_shutdown call ak_state_sync_immediate,
\* which works on a copy of the dirty list; shutdown only if something is dirty
\* (otherwise it ends at once, and all that is left is Restart, possible anyway).
ak_state_sync(kind) ==
    /\ initialized /\ task.phase = "idle" /\ commits < MaxCommits /\ commits' = commits + 1
    /\ kind = "shutdown" => dirty_ptrs # <<>>
    /\ task' = [phase |-> "next", kind |-> kind, todo |-> dirty_ptrs, synced |-> 0,
                count |-> Len(dirty_ptrs), seen |-> heap]
    /\ UNCHANGED <<initialized, heap, next_ptr, tracking, anchor_sequence, chan, host,
                   boot, writes, promised, history>>

\* handleFSWrite of the daemon writes with os.WriteFile, which cuts the file first:
\* a write that is reported failed has left the old record, the new one or none.
Written(f, p, x) ==
    {[ok |-> TRUE, store |-> Put(f, p, x)]}
        \cup [ok : {FALSE}, store : {f, Put(f, p, x), Drop(f, p)}]

\* ak_heap_serialize_object and the request of ak_backend_put.  An object that
\* is no longer there is an error, and the loop goes on.
SyncPut ==
    /\ task.phase = "next" /\ task.todo # <<>>
    /\ LET p == Head(task.todo) IN
        IF p \notin DOMAIN heap
        THEN task' = [task EXCEPT !.todo = Tail(@)] /\ UNCHANGED <<chan, files, history>>
        ELSE /\ task' = [task EXCEPT !.phase = "put"]
             /\ \E w \in Written(files, p, heap[p]) :
                 /\ files' = w.store
                 /\ chan' = Append(chan, [ok |-> w.ok, value |-> NoValue])
                 /\ IF files' = files THEN UNCHANGED history
                    ELSE /\ escaped' = IF p \in DOMAIN files' THEN escaped \ {p} ELSE escaped
                         /\ missed' = missed \ {p}
                         /\ ruined' = ruined \cup
                              {e \in promised : e.ptr = p /\ (p \in missed \/ p \notin DOMAIN files')}
    /\ UNCHANGED <<initialized, heap, next_ptr, tracking, anchor_sequence, anchors,
                   boot, writes, commits, promised>>

\* Mutant: an object is clean once it was sent.
Sent(missing) == TRUE

\* put_result == 0
Acknowledged(missing) == ~missing /\ Head(chan).ok

\* The next line is read, which is another request's answer if one was left unread;
\* only an acknowledged object is marked clean.
SyncAck ==
    /\ task.phase = "put"
    /\ \E missing \in Missing :
        /\ chan' = IF missing THEN chan ELSE Tail(chan)
        /\ IF Acknowledged(missing)
           THEN /\ ak_state_mark_clean(Head(task.todo))
                /\ escaped' = escaped \cup {p \in {Head(task.todo)} : Len(chan) > 1}
           ELSE UNCHANGED <<tracking, escaped>>
        /\ task' = [task EXCEPT !.phase = "next", !.todo = Tail(@),
                                !.synced = IF Acknowledged(missing) THEN @ + 1 ELSE @]
    /\ UNCHANGED <<initialized, heap, next_ptr, anchor_sequence, host, boot, writes, commits, promised,
                   missed, ruined>>

\* A commit whose sync has failed is answered with the error.
SyncFailed ==
    /\ task.phase = "next" /\ task.todo = <<>> /\ task.kind = "commit" /\ Status = "FAILED"
    /\ task' = Idle
    /\ UNCHANGED <<initialized, heap, next_ptr, tracking, anchor_sequence, chan, host,
                   boot, writes, commits, promised, history>>

\* ak_state_emit_anchor numbers the anchor, and stores it under its number.
ak_state_emit_anchor ==
    /\ task.phase = "next" /\ task.todo = <<>>
    /\ task.kind = "commit" => Status # "FAILED"
    /\ anchor_sequence' = anchor_sequence + 1
    /\ task' = [task EXCEPT !.phase = "anchor"]
    /\ \E w \in Written(anchors, anchor_sequence', boot) :
        /\ anchors' = w.store
        /\ chan' = Append(chan, [ok |-> w.ok, value |-> NoValue])
    /\ UNCHANGED <<initialized, heap, next_ptr, tracking, files, boot, writes, commits, promised, history>>

\* Mutant: a sync that stored something is complete.
AnythingSynced == Status # "FAILED"

Completed == Status = "COMPLETED"

\* The anchor's answer is read and ignored.  A commit is then answered with
\* durable:true, a shutdown has ended.
Respond ==
    /\ task.phase = "anchor"
    /\ \E missing \in Missing : chan' = IF missing THEN chan ELSE Tail(chan)
    /\ task' = Idle
    /\ initialized' = (task.kind = "commit")
    /\ promised' = IF task.kind = "shutdown" THEN promised ELSE promised \cup
        {[ptr |-> p, obj |-> task.seen[p].obj, version |-> task.seen[p].version,
          completed |-> Completed, tracked |-> p \notin escaped] : p \in DOMAIN task.seen}
    /\ UNCHANGED <<heap, next_ptr, tracking, anchor_sequence, host, boot, writes, commits, history>>

-----------------------------------------------------------------------------
(* Restart and hydration *)

\* At any moment, or after a shutdown: ak_state_init, and ak_state_hydrate lists
\* what is stored.
Restart ==
    /\ boot < MaxBoots /\ boot' = boot + 1
    /\ initialized' = TRUE
    /\ heap' = <<>> /\ next_ptr' = 1
    /\ dirty_ptrs' = <<>> /\ dirty_bitmap' = {}
    /\ anchor_sequence' = 0 /\ chan' = <<>>
    /\ \E listed \in IF GetFails THEN SUBSET DOMAIN files ELSE {DOMAIN files} :
        task' = [Idle EXCEPT !.phase = "get", !.todo = SetToSeq(listed)]
    /\ escaped' = {} /\ missed' = {}
    /\ UNCHANGED <<host, writes, commits, promised, ruined>>

\* Mutant: the generator is left where it is.
Unmoved(p) == next_ptr

\* restore_object_json keeps next_ptr ahead of what it restores.
Ahead(p) == IF p >= next_ptr THEN p + 1 ELSE next_ptr

\* ak_backend_get and ak_heap_restore of one object; one that cannot be read is
\* skipped.  A stored object names its own ptr.
HydrateObject ==
    /\ task.phase = "get" /\ task.todo # <<>>
    /\ \E missing \in Missing, ok \in IF GetFails THEN BOOLEAN ELSE {TRUE} :
        LET p == Head(task.todo)
            lines == Append(chan, [ok |-> ok, value |-> [ptr |-> p, val |-> files[p]]])
            answer == Head(lines)
        IN
        /\ chan' = IF missing THEN lines ELSE Tail(lines)
        /\ IF missing \/ ~answer.ok THEN UNCHANGED <<heap, next_ptr>>
           ELSE /\ heap' = Put(heap, answer.value.ptr, answer.value.val)
                /\ next_ptr' = Ahead(answer.value.ptr)
    /\ task' = [task EXCEPT !.todo = Tail(@)]
    /\ UNCHANGED <<initialized, tracking, anchor_sequence, host, boot, writes, commits, promised, history>>

Hydrated ==
    /\ task.phase = "get" /\ task.todo = <<>>
    /\ task' = Idle
    /\ missed' = DOMAIN files \ DOMAIN heap
    /\ UNCHANGED <<initialized, heap, next_ptr, tracking, anchor_sequence, chan, host,
                   boot, writes, commits, promised, escaped, ruined>>

Next ==
    \/ Alloc \/ Change \/ Purge
    \/ \E kind \in {"commit", "shutdown"} : ak_state_sync(kind)
    \/ SyncPut \/ SyncAck \/ SyncFailed
    \/ ak_state_emit_anchor \/ Respond
    \/ Restart \/ HydrateObject \/ Hydrated

Spec == Init /\ [][Next]_vars

-----------------------------------------------------------------------------
(* Properties *)

Stored(p) == p \in DOMAIN files /\ files[p] = heap[p]

\* "Objects are only marked clean after the backend acknowledged them": an object
\* whose value is not the stored one is in the dirty list, unless a change of it
\* escaped, whichever writes failed and wherever the system was restarted.
DirtyCovers == \A p \in DOMAIN heap \ escaped : Stored(p) \/ p \in ToSet(dirty_ptrs)

\* The same without exception.
CleanIsStored == \A p \in DOMAIN heap : Stored(p) \/ p \in ToSet(dirty_ptrs)

Overtaken(p) == heap[p].obj # files[p].obj \/ heap[p].version < files[p].version

\* Hydration is "to restore state from previous VM instance", and no later
\* allocation or write puts another object, or an older version, in the place of
\* one that it brought back: the heap is never behind the store.
HeapAheadOfStore == \A p \in DOMAIN heap \cap DOMAIN files : p \notin missed => ~Overtaken(p)

\* The same of every stored object, also of one that hydration skipped.
NothingOvertaken == \A p \in DOMAIN heap \cap DOMAIN files : ~Overtaken(p)

Kept(e) == e.ptr \in DOMAIN files /\ files[e.ptr].obj = e.obj /\ files[e.ptr].version >= e.version

\* A sync answered AK_SYNC_COMPLETED, "which callers read as durable": every object
\* it tracked, the ones that were clean included, is stored from then on, until a
\* later write of it cuts its record or hydration misses it.
CompletedIsDurable == \A e \in promised \ ruined : e.completed /\ e.tracked => Kept(e)

\* The same for good, whatever a later write does to the record.
StoredForGood == \A e \in promised : e.completed /\ e.tracked => Kept(e)

\* "callers cannot mistake an in-memory-only commit for durable persistence":
\* the same as CompletedIsDurable of every commit that was answered durable:true.
CommitDurable == \A e \in promised \ ruined : e.tracked => Kept(e)

\* "Tamper-evidence for history comes from the prev_anchor chain": an anchor
\* stored by one boot is not replaced by a later one.
AnchorsKept ==
    [][\A n \in DOMAIN anchors \cap DOMAIN anchors' : anchors'[n] = anchors[n]]_vars

-----------------------------------------------------------------------------
(* The inductive invariant behind DirtyCovers, HeapAheadOfStore and            *)
(* CompletedIsDurable.                                                         *)

Value == [obj : Nat, version : Nat, dead : BOOLEAN]
IsStore(f) == DOMAIN f \subseteq 1..MaxPtr /\ f \in [DOMAIN f -> Value]
Line == [ok : BOOLEAN, value : {NoValue} \cup [ptr : 1..MaxPtr, val : Value]]

\* Every variable keeps its type.
TypeOK ==
    /\ next_ptr \in 1..(MaxPtr + 1) /\ writes \in Nat
    /\ IsStore(heap) /\ IsStore(files) /\ IsStore(task.seen)
    /\ dirty_ptrs \in Seq(1..MaxPtr) /\ chan \in Seq(Line)
    /\ task \in [phase : {"idle", "next", "put", "anchor", "get"}, kind : {"", "commit", "shutdown"},
                 todo : Seq(1..MaxPtr), synced : Nat, count : Nat, seen : {task.seen}]
    /\ \A e \in promised : e.version \in Nat

IndexApart(s) == \A i, j \in 1..Len(s) : Index[s[i]] = Index[s[j]] => i = j

\* The bits are those of the ptrs in the list, which all have their own; what is
\* not stored is dirty.
TrackInv ==
    /\ dirty_bitmap = {Index[p] : p \in ToSet(dirty_ptrs)} /\ IndexApart(dirty_ptrs)
    /\ DirtyCovers

\* The ptrs of objects, stored or in the heap, are below next_ptr; hydration has
\* brought back what is stored and will read nothing else.
PtrInv ==
    /\ \A p \in DOMAIN heap : p < next_ptr
    /\ task.phase # "get" => \A p \in DOMAIN files \ missed : p < next_ptr
    /\ task.phase = "get" =>
        /\ ToSet(task.todo) \subseteq DOMAIN files
        /\ \A p \in DOMAIN heap : p \in DOMAIN files /\ heap[p] = files[p]
        /\ \A i \in 1..Len(chan) : LET v == chan[i].value IN
            v \in [ptr : DOMAIN files, val : Value] /\ v.val = files[v.ptr]

Holds(p, x) == p \in DOMAIN files /\ files[p].obj = x.obj /\ files[p].version >= x.version

\* The object on its way is stored if the one answer that is unread says so.
SentInv ==
    task.phase = "put" =>
        /\ task.todo # <<>>
        /\ Len(chan) = 1 /\ Head(chan).ok => LET p == Head(task.todo) IN
            /\ p \in DOMAIN heap \ escaped => Stored(p)
            /\ p \in DOMAIN task.seen => Holds(p, task.seen[p])

\* What a sync still has to do is dirty; what it saw may have been changed since,
\* and as long as nothing has failed it is stored, still to do or escaped.
SyncInv ==
    task.phase \in {"next", "put", "anchor"} =>
        /\ \A p \in DOMAIN task.seen : p < next_ptr
        /\ \A p \in DOMAIN heap \cap DOMAIN task.seen :
            heap[p].obj = task.seen[p].obj /\ heap[p].version >= task.seen[p].version
        /\ IndexApart(task.todo) /\ ToSet(task.todo) \subseteq ToSet(dirty_ptrs)
        /\ task.synced + Len(task.todo) <= task.count
        /\ task.synced + Len(task.todo) = task.count =>
            \A p \in DOMAIN task.seen \ escaped : p \in ToSet(task.todo) \/ Holds(p, task.seen[p])
        /\ task.phase \in {"put", "anchor"} => chan # <<>>
        /\ task.phase = "anchor" => task.todo = <<>>

StateInv ==
    /\ TypeOK /\ TrackInv /\ PtrInv /\ SentInv /\ SyncInv
    /\ HeapAheadOfStore /\ CompletedIsDurable
=============================================================================
