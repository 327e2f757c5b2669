------------------------------ MODULE AuditLog ------------------------------
(***************************************************************************)
(* The hash-chained audit log of ak_audit.c: concurrent appenders, the     *)
(* batched write + fsync of ak_audit_sync, its failures and retries, a     *)
(* machine crash at any point, and recovery by ak_audit_load.              *)
(*                                                                         *)
(* A hash is the history it commits to: Genesis is the empty sequence and  *)
(* SHA256(prev || canonical(entry)) appends the entry's content to prev,   *)
(* so hashes are equal iff everything below them is.  The content of an    *)
(* entry (pid, run_id, op, timestamps, request and response hashes) is a   *)
(* number drawn once, because no two appended entries are alike.           *)
(*                                                                         *)
(* File offsets count slots.  0 is the start of a file without a header,   *)
(* n > 0 the position after the header and n - 1 entries, which is where   *)
(* entry slot n begins; every entry takes AK_AUDIT_ENTRY_DISK_SIZE bytes.  *)
(* The in-memory segments are one sequence, bounded by Capacity, which is  *)
(* AK_LOG_SEGMENT_SIZE * AK_LOG_MAX_SEGMENTS.                              *)
(***************************************************************************)
EXTENDS Integers, Sequences, FiniteSets

CONSTANTS Threads,        \* kernel threads that append or commit
          NoThread,       \* the spinlock has no holder
          Capacity,       \* entries the in-memory segments can hold
          AnchorInterval, \* AK_ANCHOR_INTERVAL
          LoadAtBoot,     \* does start-up call ak_audit_load?
          Faults,         \* which of "io", "alloc", "hash", "read" can fail
          MaxAppends,     \* bound: entries created in a behaviour
          MaxCrashes      \* bound: crashes in a behaviour

ASSUME AuditAssumption ==
    /\ NoThread \notin Threads
    /\ Capacity \in Nat \ {0}
    /\ AnchorInterval \in Nat \ {0}
    /\ LoadAtBoot \in BOOLEAN
    /\ Faults \subseteq {"io", "alloc", "hash", "read"}
    /\ MaxAppends \in Nat /\ MaxCrashes \in Nat

VARIABLES
    entries,          \* ak_log.segments: the entries in memory, in order
    head_seq,         \* ak_log.head_seq
    head_hash,        \* ak_log.head_hash
    flushed,          \* entries [0, flushed) are marked durable
    anchors,          \* ak_log.anchors
    storage_enabled,  \* ak_log.storage_enabled
    file_offset,      \* ak_log.file_offset, in slots
    sync_outstanding, \* ak_log.sync_outstanding
    sync_failed,      \* ak_log.sync_result < 0
    batch_start,      \* local of ak_audit_sync: batch_start_offset
    lock,             \* ak_log.lock
    pc, myseq,        \* each thread: where it is, and its own entry's seq
    loaded,           \* start-up is over, appenders may run
    hdr, disk,        \* stable storage: file header present, entry slots 1..Capacity
    hdr_dirty, dirty, \* issued writes that no fsync has covered yet
    stamp,            \* contents drawn so far
    crashes,          \* crashes so far
    acked,            \* entries whose ak_audit_append has returned their seq
    unlogged          \* some append returned AK_E_LOG_FULL

mem_vars  == <<entries, head_seq, head_hash, flushed>>
io_vars   == <<file_offset, sync_outstanding, sync_failed, batch_start>>
disk_vars == <<hdr, disk, hdr_dirty, dirty>>
boot_vars == <<storage_enabled, loaded, crashes>>
vars == <<mem_vars, anchors, io_vars, boot_vars, lock, pc, myseq,
          disk_vars, stamp, acked, unlogged>>

-----------------------------------------------------------------------------
(* Entries and the hash chain *)

Genesis == <<>>
Hash == Seq(Nat)

Entry == [seq : Nat, data : Nat, prev_hash : Hash, this_hash : Hash]

\* What a slot holds when its write was lost or torn: the entry magic or the
\* CRC does not match, so recovery stops there.
NoEntry == [seq |-> 0, data |-> 0, prev_hash |-> Genesis, this_hash |-> Genesis]

ak_audit_compute_entry_hash(prev, data) == Append(prev, data)

\* The hash that entry i of s must have in its prev_hash field.
PrevHash(s, i) == IF i = 1 THEN Genesis ELSE s[i - 1].this_hash

ak_audit_verify_entry(e, expected) ==
    /\ e.prev_hash = expected
    /\ e.this_hash = ak_audit_compute_entry_hash(e.prev_hash, e.data)

\* ak_audit_verify returns 0.
ak_audit_verify(s) ==
    \A i \in 1..Len(s) :
        /\ s[i].seq = i
        /\ ak_audit_verify_entry(s[i], PrevHash(s, i))

\* Mutant: recovery that checks magic, length and CRC but not the chain.
AcceptableByCrc(d) == {n \in 0..Capacity : \A i \in 1..n : d[i] # NoEntry}

\* The lengths of the prefixes of the file that ak_audit_load accepts: magic,
\* length and CRC are right (the slot is not NoEntry) and the chain holds.
\* The segment limit ends the scan at Capacity.
Acceptable(d) ==
    {n \in 0..Capacity :
        \A i \in 1..n : /\ d[i] # NoEntry
                        /\ ak_audit_verify_entry(d[i], PrevHash(d, i))}

\* The scan stops after n entries: the next one is not acceptable.
StopsAt(d, n) == n \in Acceptable(d) /\ n + 1 \notin Acceptable(d)

-----------------------------------------------------------------------------
(* Start-up *)

\* ak_audit_init, with an empty file system behind it.
Init ==
    /\ entries = <<>> /\ head_seq = 0 /\ head_hash = Genesis /\ flushed = 0
    /\ anchors = {}
    /\ storage_enabled = FALSE /\ file_offset = 0
    /\ sync_outstanding = 0 /\ sync_failed = FALSE /\ batch_start = 0
    /\ lock = NoThread
    /\ pc = [t \in Threads |-> "idle"] /\ myseq = [t \in Threads |-> 0]
    /\ loaded = ~LoadAtBoot
    /\ hdr = FALSE /\ disk = [s \in 1..Capacity |-> NoEntry]
    /\ hdr_dirty = FALSE /\ dirty = {}
    /\ stamp = 0 /\ crashes = 0 /\ acked = {} /\ unlogged = FALSE

\* Mutant: every file is taken for a new one.
LoadFreshAlways == file_offset' = 0 /\ UNCHANGED mem_vars

\* No usable header: the file is empty, shorter than a header or has another
\* magic.  The log starts afresh, from offset 0.
LoadFresh ==
    /\ ~hdr
    /\ file_offset' = 0
    /\ UNCHANGED mem_vars

\* Scan the entries: keep the valid prefix, append after it.
LoadScan ==
    /\ hdr
    /\ \E n \in Acceptable(disk) :
        /\ "read" \notin Faults => StopsAt(disk, n)
        /\ entries' = [i \in 1..n |-> disk[i]]
        /\ head_seq' = IF n = 0 THEN 0 ELSE disk[n].seq
        /\ head_hash' = PrevHash(disk, n + 1)
        /\ flushed' = n
        /\ file_offset' = n + 1

\* The header cannot be read, or its version or CRC is wrong; or the scan
\* runs out of memory after n entries.  The error returns with file_offset
\* where ak_audit_open_storage put it, at the end of the file: after the last
\* slot in use (the scan never looks beyond Capacity of them).
LoadError ==
    /\ hdr /\ "read" \in Faults
    /\ \E n \in 0..Capacity : /\ \A s \in (n + 1)..Capacity : disk[s] = NoEntry
                              /\ file_offset' = n + 1
    /\ \/ UNCHANGED mem_vars
       \/ \E n \in Acceptable(disk) : /\ entries' = [i \in 1..n |-> disk[i]]
                                      /\ flushed' = n
                                      /\ UNCHANGED <<head_seq, head_hash>>

\* ak_audit_open_storage fails: the log starts afresh, in memory only.
LoadUnavailable ==
    /\ ~storage_enabled /\ "read" \in Faults
    /\ UNCHANGED <<mem_vars, file_offset>>

\* Appenders run once ak_audit_load has returned 0.  Its caller is not part
\* of the repository; after an error it may only call again or reboot.
ak_audit_load ==
    /\ ~loaded
    /\ \/ (LoadFresh \/ LoadScan) /\ loaded' = TRUE /\ storage_enabled' = TRUE
       \/ LoadError /\ UNCHANGED loaded /\ storage_enabled' = TRUE
       \/ LoadUnavailable /\ loaded' = TRUE /\ UNCHANGED storage_enabled
    /\ UNCHANGED <<anchors, sync_outstanding, sync_failed, batch_start, crashes,
                   lock, pc, myseq, disk_vars, stamp, acked, unlogged>>

-----------------------------------------------------------------------------
(* Appending *)

\* Mutant: the head hash is not moved on.
AppendStaleHead(t) ==
    /\ loaded /\ pc[t] = "idle" /\ lock = NoThread
    /\ stamp < MaxAppends
    /\ Len(entries) < Capacity
    /\ stamp' = stamp + 1
    /\ entries' = Append(entries, [seq       |-> head_seq + 1,
                                   data      |-> stamp',
                                   prev_hash |-> head_hash,
                                   this_hash |-> ak_audit_compute_entry_hash(head_hash, stamp')])
    /\ head_seq' = head_seq + 1
    /\ myseq' = [myseq EXCEPT ![t] = head_seq + 1]
    /\ pc' = [pc EXCEPT ![t] = "sync"]
    /\ UNCHANGED <<head_hash, flushed, anchors, io_vars, boot_vars, lock, disk_vars,
                   acked, unlogged>>

\* The entry is built and the head moved under the lock; the lock is then
\* given up, and ak_audit_sync takes it again.  Without memory for the
\* canonical form the hash is all zeroes, which is Genesis.
AppendLocked(t) ==
    /\ loaded /\ pc[t] = "idle" /\ lock = NoThread
    /\ stamp < MaxAppends
    /\ Len(entries) < Capacity
    /\ stamp' = stamp + 1
    /\ \E this \in {ak_audit_compute_entry_hash(head_hash, stamp')}
                   \cup (IF "hash" \in Faults THEN {Genesis} ELSE {}) :
        /\ entries' = Append(entries, [seq       |-> head_seq + 1,
                                       data      |-> stamp',
                                       prev_hash |-> head_hash,
                                       this_hash |-> this])
        /\ head_hash' = this
    /\ head_seq' = head_seq + 1
    /\ myseq' = [myseq EXCEPT ![t] = head_seq + 1]
    /\ pc' = [pc EXCEPT ![t] = "sync"]
    /\ UNCHANGED <<flushed, anchors, io_vars, boot_vars, lock, disk_vars,
                   acked, unlogged>>

\* get_current_segment has no room, or no memory for another segment:
\* AK_E_LOG_FULL.  ak_dispatch does not look at what ak_log_operation returns, and
\* answers the request.
AppendFull(t) ==
    /\ loaded /\ pc[t] = "idle" /\ lock = NoThread
    /\ stamp < MaxAppends
    /\ Len(entries) = Capacity \/ "alloc" \in Faults
    /\ unlogged' = TRUE
    /\ UNCHANGED <<mem_vars, anchors, io_vars, boot_vars, lock, pc, myseq,
                   disk_vars, stamp, acked>>

\* AK_SYS_COMMIT: ak_audit_sync and an anchor, without an entry of its own.
ak_handle_commit(t) ==
    /\ loaded /\ pc[t] = "idle"
    /\ myseq' = [myseq EXCEPT ![t] = 0]
    /\ pc' = [pc EXCEPT ![t] = "sync"]
    /\ UNCHANGED <<mem_vars, anchors, io_vars, boot_vars, lock, disk_vars,
                   stamp, acked, unlogged>>

-----------------------------------------------------------------------------
(* ak_audit_sync *)

\* Storage is off: the entries count as flushed, in memory.
SyncInMemory(t) ==
    /\ pc[t] = "sync" /\ lock = NoThread
    /\ ~storage_enabled
    /\ flushed' = Len(entries)
    /\ pc' = [pc EXCEPT ![t] = "anchor"]
    /\ UNCHANGED <<entries, head_seq, head_hash, anchors, io_vars, boot_vars,
                   lock, myseq, disk_vars, stamp, acked, unlogged>>

\* Mutant: off by one, the newest entry is taken for flushed.
SyncNothingButOne(t) ==
    /\ pc[t] = "sync" /\ lock = NoThread
    /\ storage_enabled
    /\ flushed + 1 >= Len(entries) /\ sync_failed' = FALSE
    /\ pc' = [pc EXCEPT ![t] = "anchor"]
    /\ UNCHANGED <<mem_vars, anchors, file_offset, sync_outstanding, batch_start,
                   boot_vars, lock, myseq, disk_vars, stamp, acked, unlogged>>

\* Nothing was issued: all is flushed, or the first write could not be set up.
SyncNothing(t) ==
    /\ pc[t] = "sync" /\ lock = NoThread
    /\ storage_enabled
    /\ \/ flushed = Len(entries) /\ sync_failed' = FALSE
       \/ flushed < Len(entries) /\ "alloc" \in Faults /\ sync_failed' = TRUE
    /\ pc' = [pc EXCEPT ![t] = "anchor"]
    /\ UNCHANGED <<mem_vars, anchors, file_offset, sync_outstanding, batch_start,
                   boot_vars, lock, myseq, disk_vars, stamp, acked, unlogged>>

\* Issue the header of a fresh file and the first k unflushed entries; k
\* falls short of all of them only when a write could not be set up, or when an
\* early completion has already failed by the end of a segment.
SyncIssue(t) ==
    /\ pc[t] = "sync" /\ lock = NoThread
    /\ storage_enabled
    /\ flushed < Len(entries)
    /\ LET fresh == file_offset = 0
           first == IF fresh THEN 1 ELSE file_offset
           Placed(j) == [slot |-> first + j, entry |-> entries[flushed + 1 + j]]
       IN \E k \in 0..(Len(entries) - flushed) :
            /\ fresh \/ k > 0
            /\ k < Len(entries) - flushed => Faults \cap {"alloc", "io"} # {}
            /\ sync_failed' = (k < Len(entries) - flushed)
            /\ sync_outstanding' = k + (IF fresh THEN 1 ELSE 0)
            /\ file_offset' = first + k
            /\ hdr_dirty' = (hdr_dirty \/ fresh)
            /\ dirty' = dirty \cup {Placed(j) : j \in 0..(k - 1)}
    /\ batch_start' = file_offset
    /\ lock' = t
    /\ pc' = [pc EXCEPT ![t] = "write"]
    /\ UNCHANGED <<mem_vars, anchors, boot_vars, myseq, hdr, disk, stamp,
                   acked, unlogged>>

\* Mutant: a completion that counts down however many were issued.
WriteCompleteExtra ==
    /\ lock # NoThread /\ pc[lock] = "write"
    /\ sync_outstanding' = sync_outstanding - 1
    /\ UNCHANGED <<sync_failed, mem_vars, anchors, file_offset, batch_start, boot_vars,
                   lock, pc, myseq, disk_vars, stamp, acked, unlogged>>

\* A completion: any failure latches an error, the counter goes down last.
ak_audit_write_complete ==
    /\ lock # NoThread /\ pc[lock] = "write"
    /\ sync_outstanding > 0
    /\ sync_outstanding' = sync_outstanding - 1
    /\ \/ UNCHANGED sync_failed
       \/ "io" \in Faults /\ sync_failed' = TRUE
    /\ UNCHANGED <<mem_vars, anchors, file_offset, batch_start, boot_vars, lock,
                   pc, myseq, disk_vars, stamp, acked, unlogged>>

\* Mutant: the batch ends when its writes have come back, without an fsync.
SyncWithoutFlush(t) ==
    /\ lock = t /\ pc[t] = "write"
    /\ sync_outstanding = 0 /\ ~sync_failed
    /\ pc' = [pc EXCEPT ![t] = "flush"]
    /\ UNCHANGED <<mem_vars, anchors, io_vars, boot_vars, lock, myseq, disk_vars,
                   stamp, acked, unlogged>>

\* ak_audit_wait_io saw zero and no error: one fsync for the whole batch,
\* unless its completion handler cannot be allocated.
SyncFlush(t) ==
    /\ lock = t /\ pc[t] = "write"
    /\ sync_outstanding = 0 /\ ~sync_failed
    /\ \/ /\ sync_outstanding' = 1
          /\ UNCHANGED sync_failed
       \/ /\ "alloc" \in Faults
          /\ sync_failed' = TRUE
          /\ UNCHANGED sync_outstanding
    /\ pc' = [pc EXCEPT ![t] = "flush"]
    /\ UNCHANGED <<mem_vars, anchors, file_offset, batch_start, boot_vars, lock,
                   myseq, disk_vars, stamp, acked, unlogged>>

\* The file after the writes in landed reached it and those in torn broke.
WriteBack(d, landed, torn) ==
    [s \in 1..Capacity |->
        IF \E x \in landed : x.slot = s
          THEN (CHOOSE x \in landed : x.slot = s).entry
        ELSE IF \E x \in torn : x.slot = s THEN NoEntry ELSE d[s]]

\* fsync is done: every issued write is on stable storage.  Or it failed,
\* and says nothing about which of them are.
ak_audit_flush_complete ==
    /\ lock # NoThread /\ pc[lock] = "flush"
    /\ sync_outstanding > 0
    /\ sync_outstanding' = sync_outstanding - 1
    /\ \/ /\ hdr' = (hdr \/ hdr_dirty) /\ hdr_dirty' = FALSE
          /\ disk' = WriteBack(disk, dirty, {}) /\ dirty' = {}
          /\ UNCHANGED sync_failed
       \/ /\ "io" \in Faults
          /\ sync_failed' = TRUE
          /\ UNCHANGED disk_vars
    /\ UNCHANGED <<mem_vars, anchors, file_offset, batch_start, boot_vars, lock,
                   pc, myseq, stamp, acked, unlogged>>

\* Mutant: a failed batch leaves the offset where it got to.
SyncFinishNoRollback(t) ==
    /\ lock = t
    /\ (pc[t] = "write" /\ sync_failed) \/ pc[t] = "flush"
    /\ sync_outstanding = 0
    /\ flushed' = IF sync_failed THEN flushed ELSE Len(entries)
    /\ lock' = NoThread
    /\ pc' = [pc EXCEPT ![t] = "anchor"]
    /\ UNCHANGED <<entries, head_seq, head_hash, anchors, io_vars, boot_vars, myseq,
                   disk_vars, stamp, acked, unlogged>>

\* Mutant: the watermark moves whatever became of the batch.
SyncFinishAlways(t) ==
    /\ lock = t
    /\ (pc[t] = "write" /\ sync_failed) \/ pc[t] = "flush"
    /\ sync_outstanding = 0
    /\ flushed' = Len(entries)
    /\ lock' = NoThread
    /\ pc' = [pc EXCEPT ![t] = "anchor"]
    /\ UNCHANGED <<entries, head_seq, head_hash, anchors, io_vars, boot_vars, myseq,
                   disk_vars, stamp, acked, unlogged>>

\* Mutant: the wait goes on after a failed write.
SyncFinishFlushedOnly(t) ==
    /\ lock = t /\ pc[t] = "flush"
    /\ sync_outstanding = 0
    /\ IF sync_failed
         THEN file_offset' = batch_start /\ UNCHANGED flushed
         ELSE flushed' = Len(entries) /\ UNCHANGED file_offset
    /\ lock' = NoThread
    /\ pc' = [pc EXCEPT ![t] = "anchor"]
    /\ UNCHANGED <<entries, head_seq, head_hash, anchors, sync_outstanding,
                   sync_failed, batch_start, boot_vars, myseq, disk_vars, stamp,
                   acked, unlogged>>

\* The batch is over: roll the offset back, or advance the watermark.
SyncFinish(t) ==
    /\ lock = t
    /\ (pc[t] = "write" /\ sync_failed) \/ pc[t] = "flush"
    /\ sync_outstanding = 0
    /\ IF sync_failed
         THEN file_offset' = batch_start /\ UNCHANGED flushed
         ELSE flushed' = Len(entries) /\ UNCHANGED file_offset
    /\ lock' = NoThread
    /\ pc' = [pc EXCEPT ![t] = "anchor"]
    /\ UNCHANGED <<entries, head_seq, head_hash, anchors, sync_outstanding,
                   sync_failed, batch_start, boot_vars, myseq, disk_vars, stamp,
                   acked, unlogged>>

-----------------------------------------------------------------------------
(* After ak_audit_sync *)

\* Mutant: the appender's own seq with the hash of the head.
EmitOwnAnchor(t) ==
    /\ lock = NoThread
    /\ anchors' = anchors \cup {[log_seq |-> myseq[t], log_hash |-> head_hash]}

\* ak_audit_emit_anchor, for the head of this moment; without memory for the
\* anchor it returns AK_E_LOG_FULL, which no caller passes on.
EmitAnchor(t) ==
    /\ lock = NoThread
    /\ \/ anchors' = anchors \cup {[log_seq |-> head_seq, log_hash |-> head_hash]}
       \/ "alloc" \in Faults /\ UNCHANGED anchors

\* ak_audit_append returns its seq to ak_log_operation, whatever became of
\* the sync: ak_audit_sync has no result.  ak_handle_commit anchors and returns.
Return(t) ==
    /\ pc[t] = "anchor"
    /\ IF myseq[t] = 0 \/ myseq[t] % AnchorInterval = 0
         THEN EmitAnchor(t)
         ELSE UNCHANGED anchors
    /\ acked' = acked \cup (IF myseq[t] = 0 THEN {} ELSE {entries[myseq[t]]})
    /\ pc' = [pc EXCEPT ![t] = "idle"]
    /\ UNCHANGED <<mem_vars, io_vars, boot_vars, lock, myseq, disk_vars,
                   stamp, unlogged>>

-----------------------------------------------------------------------------
(* Crashes *)

\* The machine stops and comes back.  Of the writes not covered by an fsync
\* any may have landed and any may be torn, in no particular order; the
\* header and slot 1 share the first disk sector, and the header is written
\* to it first.  Memory starts over, as ak_audit_init leaves it.
Crash ==
    /\ crashes < MaxCrashes
    /\ crashes' = crashes + 1
    /\ \E h \in {hdr, hdr \/ hdr_dirty}, landed \in SUBSET dirty :
         \E torn \in SUBSET (dirty \ landed) :
            /\ (\E x \in landed : x.slot = 1) => h
            /\ hdr' = h
            /\ disk' = WriteBack(disk, landed, torn)
    /\ hdr_dirty' = FALSE /\ dirty' = {}
    /\ entries' = <<>> /\ head_seq' = 0 /\ head_hash' = Genesis /\ flushed' = 0
    /\ anchors' = {}
    /\ storage_enabled' = FALSE /\ file_offset' = 0
    /\ sync_outstanding' = 0 /\ sync_failed' = FALSE /\ batch_start' = 0
    /\ lock' = NoThread
    /\ pc' = [t \in Threads |-> "idle"] /\ myseq' = [t \in Threads |-> 0]
    /\ loaded' = ~LoadAtBoot
    /\ UNCHANGED <<stamp, acked, unlogged>>

-----------------------------------------------------------------------------
Sync(t) == \/ SyncInMemory(t) \/ SyncNothing(t) \/ SyncIssue(t)
           \/ SyncFlush(t) \/ SyncFinish(t)

Completion == ak_audit_write_complete \/ ak_audit_flush_complete

Next == \/ ak_audit_load
        \/ \E t \in Threads : \/ AppendLocked(t) \/ AppendFull(t)
                              \/ ak_handle_commit(t)
                              \/ Sync(t) \/ Return(t)
        \/ Completion
        \/ Crash

Spec == Init /\ [][Next]_vars

\* The file system completes what it was given, a thread inside the log goes
\* on, and start-up goes through.  Nothing makes a thread append or commit.
Fairness == /\ WF_vars(Completion)
            /\ WF_vars(ak_audit_load)
            /\ \A t \in Threads : WF_vars(Sync(t)) /\ WF_vars(Return(t))

FairSpec == Spec /\ Fairness

-----------------------------------------------------------------------------
(* Properties *)

\* Every variable keeps its type.
TypeOK ==
    /\ entries \in Seq(Entry) /\ head_seq \in Nat /\ head_hash \in Hash
    /\ flushed \in Nat
    /\ anchors \subseteq [log_seq : Nat, log_hash : Hash]
    /\ storage_enabled \in BOOLEAN /\ loaded \in BOOLEAN
    /\ file_offset \in Nat /\ batch_start \in Nat
    /\ sync_outstanding \in Nat /\ sync_failed \in BOOLEAN
    /\ lock \in Threads \cup {NoThread}
    /\ pc \in [Threads -> {"idle", "sync", "write", "flush", "anchor"}]
    /\ myseq \in [Threads -> Nat]
    /\ hdr \in BOOLEAN /\ hdr_dirty \in BOOLEAN
    /\ disk \in [1..Capacity -> Entry]
    /\ dirty \subseteq [slot : Nat \ {0}, entry : Entry]
    /\ stamp \in Nat /\ crashes \in Nat
    /\ acked \subseteq Entry /\ unlogged \in BOOLEAN

\* ak_audit_append and ak_audit_load leave a log on which ak_audit_verify
\* succeeds, and a head that is the last entry's.
ChainIntact ==
    loaded => /\ ak_audit_verify(entries)
              /\ head_seq = Len(entries)
              /\ head_hash = PrevHash(entries, Len(entries) + 1)

\* Between batches ak_audit_sync leaves file_offset exactly behind the flushed
\* entries, so that each entry has one slot, in seq order, however many
\* batches failed and were retried: "written exactly once, in seq order, at a
\* unique file offset".
OffsetMatchesWatermark ==
    storage_enabled /\ loaded /\ lock = NoThread =>
        \/ file_offset = flushed + 1
        \/ file_offset = 0 /\ flushed = 0

\* The flushed watermark of ak_audit_sync never runs ahead of the disk.
FlushedOnDisk ==
    storage_enabled =>
        /\ flushed <= Len(entries)
        /\ \A i \in 1..flushed : disk[i] = entries[i]

\* INV-4: an entry whose ak_audit_append has returned is on stable storage,
\* where recovery finds it, from then on, across every later crash.
ReturnedIsDurable ==
    \A e \in acked : /\ hdr
                     /\ e.seq \in Acceptable(disk)
                     /\ disk[e.seq] = e

\* "Entries persist across reboots and recover on startup": once start-up is
\* over, the log holds every entry whose ak_audit_append ever returned.
EntriesPersist ==
    loaded => \A e \in acked : /\ e.seq <= Len(entries)
                               /\ entries[e.seq] = e

\* Stage 6 "appends an entry to the hash-chained audit log for every dispatched
\* request": each request that ak_dispatch answers has its entry in the log.
EveryAnswerLogged == ~unlogged

\* ak_audit_verify_anchor accepts every anchor taken since start-up, however
\* far the log has moved on (an anchor of the empty log has nothing to check).
AnchorsVerify ==
    \A a \in anchors :
        a.log_seq > 0 => /\ a.log_seq <= Len(entries)
                         /\ entries[a.log_seq].this_hash = a.log_hash

-----------------------------------------------------------------------------
(* The inductive invariants behind TypeOK, OffsetMatchesWatermark,         *)
(* FlushedOnDisk, ChainIntact, ReturnedIsDurable, EntriesPersist,          *)
(* AnchorsVerify and ImplementsAuditSpec.                                  *)

\* Who is inside the log, and who has its lock.
ThreadInv ==
    /\ \A t \in Threads :
        /\ pc[t] # "idle" => loaded /\ myseq[t] <= Len(entries)
        /\ pc[t] \in {"write", "flush"} <=> lock = t
        /\ pc[t] = "flush" => sync_outstanding <= 1
    /\ lock # NoThread => storage_enabled

\* An entry's seq is its position, in memory and in the file.
SeqInv ==
    /\ Len(entries) <= Capacity /\ flushed <= Len(entries)
    /\ loaded => head_seq = Len(entries)
    /\ ~loaded /\ ~(hdr /\ storage_enabled) =>
          entries = <<>> /\ head_seq = 0 /\ head_hash = Genesis
    /\ \A i \in 1..Len(entries) : entries[i].seq = i
    /\ \A s \in 1..Capacity : disk[s] # NoEntry => disk[s].seq = s

\* Where a batch starts, and where it ends when all of it was issued.
BatchStart(offset) == offset = flushed + 1 \/ (offset = 0 /\ flushed = 0)
OffsetInv ==
    storage_enabled /\ loaded =>
        IF lock = NoThread
          THEN BatchStart(file_offset) /\ (file_offset > 0 => hdr)
          ELSE /\ BatchStart(batch_start) /\ (batch_start > 0 => hdr)
               /\ ~sync_failed => file_offset = Len(entries) + 1

\* Every write not yet covered by an fsync is of an unflushed entry, at its
\* own slot; until its fsync a batch has all of them, and after it none.
DirtyInv ==
    /\ \A x \in dirty : /\ loaded /\ storage_enabled
                        /\ x.slot \in (flushed + 1)..Len(entries)
                        /\ x.entry = entries[x.slot]
    /\ lock # NoThread /\ ~sync_failed =>
        IF pc[lock] = "write" \/ sync_outstanding > 0
          THEN /\ hdr \/ hdr_dirty
               /\ \A i \in (flushed + 1)..Len(entries) :
                    \E x \in dirty : x.slot = i
          ELSE /\ hdr /\ dirty = {}
               /\ \A i \in 1..Len(entries) : disk[i] = entries[i]

BatchInv == /\ TypeOK /\ ThreadInv /\ SeqInv /\ OffsetInv /\ DirtyInv
            /\ FlushedOnDisk

\* Without faults: a thread that leaves ak_audit_sync leaves its entry
\* flushed, and what append returned for stays in memory or, before recovery,
\* in the prefix recovery accepts.
AckInv ==
    /\ ~sync_failed
    /\ loaded => storage_enabled
    /\ \A t \in Threads : pc[t] = "anchor" => myseq[t] <= flushed
    /\ \A e \in acked :
        IF loaded
          THEN e.seq \in 1..flushed /\ entries[e.seq] = e
          ELSE hdr /\ e.seq \in Acceptable(disk) \ {0} /\ disk[e.seq] = e

DurabilityInv == BatchInv /\ ChainIntact /\ AckInv

\* Anchors: the head hash is that of the last entry, and there are no anchors
\* before start-up is over.
AnchorInv ==
    /\ AnchorsVerify
    /\ loaded => head_hash = PrevHash(entries, Len(entries) + 1)
    /\ ~loaded => anchors = {}

\* The contents hash h commits to were all drawn by n.
Drawn(h, n) == \A j \in 1..Len(h) : h[j] <= n

\* Every entry in the file or in memory is hashed, over contents drawn so far.
FileInv ==
    /\ \A s \in 1..Capacity : disk[s] # NoEntry =>
        /\ disk[s].this_hash = ak_audit_compute_entry_hash(disk[s].prev_hash, disk[s].data)
        /\ Drawn(disk[s].this_hash, stamp)
    /\ loaded => \A i \in 1..Len(entries) : Drawn(entries[i].this_hash, stamp)

\* Slot s holds the log's own entry or a leftover of an earlier boot that does
\* not continue this log.
Leftover(s) ==
    disk[s] # NoEntry =>
        \/ s <= Len(entries) /\ disk[s] = entries[s]
        \/ disk[s].prev_hash # PrevHash(entries, s)

\* No leftover of the file can become part of the log again.
StaleInv ==
    /\ FileInv
    /\ loaded => \A s \in 1..Capacity : s <= Len(entries) + 1 => Leftover(s)
    /\ loaded => storage_enabled
    /\ ~hdr => disk[1] = NoEntry
    /\ dirty # {} => hdr \/ hdr_dirty
    /\ hdr_dirty => loaded

\* When hashing and reading do not fail: what a crash can leave of the log.
RefinementInv == BatchInv /\ ChainIntact /\ StaleInv

-----------------------------------------------------------------------------
(* Refinement *)

\* The log a reader of AuditSpec sees: the log in memory, and before
\* ak_audit_load has run the prefix of the file that it is about to accept.
Recoverable == IF hdr
                 THEN [i \in 1..(CHOOSE n \in Acceptable(disk) : StopsAt(disk, n))
                         |-> disk[i]]
                 ELSE <<>>
AbstractLog == IF loaded THEN entries ELSE Recoverable
AbstractStable == IF loaded THEN flushed ELSE Len(Recoverable)

A == INSTANCE AuditSpec WITH log <- AbstractLog, stable <- AbstractStable

\* Appends, failed and retried batches, crashes and recovery together do only
\* what AuditSpec allows: recovery returns a prefix of the log at the crash
\* that contains everything flushed, and no entry lost once ever comes back.
ImplementsAuditSpec == A!Spec

\* ak_audit_sync never keeps the log's lock for ever.
LockReleased == (lock # NoThread) ~> (lock = NoThread)

\* Every entry reaches stable storage (or a crash takes it): the sync of
\* its own appender or of another thread writes it out.
EventuallyFlushed == (flushed < Len(entries)) ~> (flushed = Len(entries))
=============================================================================
