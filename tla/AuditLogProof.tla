--------------------------- MODULE AuditLogProof ---------------------------
(***************************************************************************)
(* Proofs about the two halves of ak_audit.c: AuditLog, for any set of     *)
(* threads, any capacity, and any number of appends and crashes, and       *)
(* AuditRing, for any number of producers and consumers and any ring size. *)
(***************************************************************************)
EXTENDS AuditLog, AuditRing, FiniteSetTheorems, WellFoundedInduction, TLAPS

-----------------------------------------------------------------------------
(* Lemmas about the operators *)

\* An array of n elements of S is a sequence over S: what ak_audit_load
\* copies out of the file is a log.
LEMMA ArrayIsSeq ==
    ASSUME NEW S, NEW n \in Nat, NEW f, \A i \in 1..n : f[i] \in S
    PROVE  /\ [i \in 1..n |-> f[i]] \in Seq(S)
           /\ Len([i \in 1..n |-> f[i]]) = n
  OBVIOUS

\* Sequences over S grow by elements of S, at the end only.
LEMMA AppendIsSeq ==
    ASSUME NEW S, NEW s \in Seq(S), NEW e \in S
    PROVE  /\ Append(s, e) \in Seq(S)
           /\ Len(Append(s, e)) = Len(s) + 1
           /\ \A i \in 1..Len(s) : Append(s, e)[i] = s[i]
           /\ Append(s, e)[Len(s) + 1] = e
  OBVIOUS

\* A set of naturals that has an element has a least one.
LEMMA LeastNat ==
    ASSUME NEW T, T \subseteq Nat, T # {} PROVE \E n \in T : \A m \in T : n <= m
  <1> DEFINE R == {ss \in Nat \X Nat : ss[1] < ss[2]}
  <1>1. IsWellFoundedOn(R, Nat)
    BY NatLessThanWellFounded, Zenon DEF OpToRel
  <1> HIDE DEF R
  <1>2. PICK n \in T : \A m \in T : ~(<<m, n>> \in R)
    BY <1>1, WFMin
  <1>3. \A m \in T : ~(m < n)
    BY <1>2 DEF R
  <1> QED BY <1>3

\* NoEntry has the shape of an entry, and Genesis that of a hash.
LEMMA NoEntryType == Genesis \in Hash /\ NoEntry \in Entry
  BY DEF Genesis, Hash, NoEntry, Entry

\* Writes of entries leave a file of entries.
LEMMA WriteBackType ==
    ASSUME NEW d \in [1..Capacity -> Entry], NEW landed, NEW torn,
           landed \subseteq [slot : Nat \ {0}, entry : Entry]
    PROVE  WriteBack(d, landed, torn) \in [1..Capacity -> Entry]
  <1> SUFFICES ASSUME NEW s \in 1..Capacity
               PROVE  WriteBack(d, landed, torn)[s] \in Entry
    BY DEF WriteBack
  <1>1. CASE \E x \in landed : x.slot = s
    <2>1. (CHOOSE x \in landed : x.slot = s) \in landed
      BY <1>1
    <2>2. QED
      BY <1>1, <2>1 DEF WriteBack
  <1>2. CASE ~(\E x \in landed : x.slot = s)
    BY <1>2, NoEntryType DEF WriteBack
  <1>3. QED
    BY <1>1, <1>2

\* A slot that no write touched keeps its entry; one that a write reached
\* whole has the entry of such a write; one with a torn write has NoEntry.
LEMMA WriteBackSlot ==
    ASSUME NEW d, NEW landed, NEW torn, NEW s \in 1..Capacity
    PROVE  \/ \E x \in landed : /\ x.slot = s
                                /\ WriteBack(d, landed, torn)[s] = x.entry
           \/ /\ ~(\E x \in landed : x.slot = s)
              /\ \/ WriteBack(d, landed, torn)[s] = NoEntry
                    /\ \E x \in torn : x.slot = s
                 \/ WriteBack(d, landed, torn)[s] = d[s]
                    /\ ~(\E x \in torn : x.slot = s)
  <1>1. CASE \E x \in landed : x.slot = s
    <2> DEFINE y == CHOOSE x \in landed : x.slot = s
    <2>1. y \in landed /\ y.slot = s
      BY <1>1
    <2>2. WriteBack(d, landed, torn)[s] = y.entry
      BY <1>1 DEF WriteBack
    <2> HIDE DEF y
    <2>3. QED
      BY <2>1, <2>2
  <1>2. CASE ~(\E x \in landed : x.slot = s)
    BY <1>2 DEF WriteBack
  <1>3. QED
    BY <1>1, <1>2

-----------------------------------------------------------------------------
(* The batch invariant holds initially, and every action keeps it *)

\* The batch invariant holds at first.
LEMMA BatchInit == Init => BatchInv
  <1> SUFFICES ASSUME Init PROVE BatchInv
    OBVIOUS
  <1> USE AuditAssumption, NoEntryType
  <1>1. TypeOK
    <2>1. entries \in Seq(Entry) /\ head_hash \in Hash
      BY DEF Init
    <2>2. disk \in [1..Capacity -> Entry]
      BY DEF Init
    <2>3. pc \in [Threads -> {"idle", "sync", "write", "flush", "anchor"}]
      BY DEF Init
    <2>4. loaded \in BOOLEAN /\ storage_enabled \in BOOLEAN
          /\ sync_failed \in BOOLEAN /\ hdr \in BOOLEAN /\ hdr_dirty \in BOOLEAN
          /\ unlogged \in BOOLEAN
      BY DEF Init
    <2>5. QED
      BY <2>1, <2>2, <2>3, <2>4 DEF Init, TypeOK
  <1>2. ThreadInv
    BY DEF Init, ThreadInv
  <1>3. SeqInv
    BY DEF Init, SeqInv
  <1>4. OffsetInv /\ FlushedOnDisk
    BY DEF Init, OffsetInv, FlushedOnDisk
  <1>5. DirtyInv
    BY DEF Init, DirtyInv
  <1>6. QED
    BY <1>1, <1>2, <1>3, <1>4, <1>5 DEF BatchInv

\* Recovery keeps the batch invariant, whatever it finds in the file.
LEMMA LoadKeeps ==
    ASSUME BatchInv, ak_audit_load PROVE BatchInv'
  <1> USE AuditAssumption, NoEntryType DEF BatchInv
  <1>0. /\ ~loaded /\ lock = NoThread /\ dirty = {}
        /\ \A t \in Threads : pc[t] = "idle"
    BY DEF ak_audit_load, TypeOK, ThreadInv, DirtyInv
  <1>1. UNCHANGED <<anchors, sync_outstanding, sync_failed, batch_start, crashes,
                    lock, pc, myseq, hdr, disk, hdr_dirty, dirty, stamp, acked,
                    unlogged>>
    BY DEF ak_audit_load, disk_vars
  <1>2. /\ entries' \in Seq(Entry) /\ head_seq' \in Nat /\ head_hash' \in Hash
        /\ flushed' \in Nat /\ file_offset' \in Nat /\ loaded' \in BOOLEAN
        /\ Len(entries') <= Capacity /\ flushed' <= Len(entries')
        /\ \A i \in 1..Len(entries') : entries'[i].seq = i
        /\ \A i \in 1..flushed' : disk[i] = entries'[i]
        /\ loaded' => head_seq' = Len(entries')
        /\ loaded' /\ storage_enabled' =>
                BatchStart(file_offset)' /\ (file_offset' > 0 => hdr)
        /\ ~loaded' => hdr /\ storage_enabled'
        /\ storage_enabled' \in BOOLEAN
    <2>1. CASE LoadFresh /\ loaded' = TRUE /\ storage_enabled' = TRUE
      BY <1>0, <2>1 DEF LoadFresh, mem_vars, TypeOK, SeqInv, BatchStart, FlushedOnDisk
    <2>2. CASE LoadScan /\ loaded' = TRUE /\ storage_enabled' = TRUE
      <3>1. PICK n \in Acceptable(disk) :
              /\ entries' = [i \in 1..n |-> disk[i]]
              /\ head_seq' = IF n = 0 THEN 0 ELSE disk[n].seq
              /\ head_hash' = PrevHash(disk, n + 1)
              /\ flushed' = n
              /\ file_offset' = n + 1
        BY <2>2 DEF LoadScan
      <3>2. /\ n \in Nat /\ n <= Capacity
            /\ \A i \in 1..n : disk[i] \in Entry /\ disk[i] # NoEntry
        BY DEF Acceptable, TypeOK
      <3>3. entries' \in Seq(Entry) /\ Len(entries') = n
        <4>1. /\ [i \in 1..n |-> disk[i]] \in Seq(Entry)
              /\ Len([i \in 1..n |-> disk[i]]) = n
          BY <3>2, ArrayIsSeq
        <4> QED BY <3>1, <4>1
      <3>4. \A i \in 1..n : entries'[i] = disk[i] /\ disk[i].seq = i
        BY <3>1, <3>2 DEF SeqInv
      <3>5. head_seq' = n /\ head_hash' \in Hash
        BY <3>1, <3>2, <3>4 DEF PrevHash, Entry
      <3>6. hdr
        BY <2>2 DEF LoadScan
      <3>7. QED
        BY <2>2, <3>1, <3>2, <3>3, <3>4, <3>5, <3>6 DEF BatchStart
    <2>3. CASE LoadError /\ UNCHANGED loaded /\ storage_enabled' = TRUE
      <3>0. loaded' \in BOOLEAN /\ ~loaded' /\ storage_enabled'
            /\ storage_enabled' \in BOOLEAN
        BY <1>0, <2>3 DEF TypeOK
      <3>1. /\ file_offset' \in Nat /\ hdr
            /\ UNCHANGED <<head_seq, head_hash>>
        BY <1>0, <2>3 DEF LoadError, mem_vars, TypeOK
      <3>2. CASE UNCHANGED mem_vars
        BY <1>0, <3>0, <3>1, <3>2 DEF mem_vars, TypeOK, SeqInv, FlushedOnDisk
      <3>3. CASE \E n \in Acceptable(disk) :
                    entries' = [i \in 1..n |-> disk[i]] /\ flushed' = n
        <4>1. PICK n \in Acceptable(disk) :
                    entries' = [i \in 1..n |-> disk[i]] /\ flushed' = n
          BY <3>3
        <4>2. /\ n \in Nat /\ n <= Capacity
              /\ \A i \in 1..n : disk[i] \in Entry /\ disk[i] # NoEntry
          BY DEF Acceptable, TypeOK
        <4>3. entries' \in Seq(Entry) /\ Len(entries') = n
          BY <4>1, <4>2, ArrayIsSeq
        <4>4. \A i \in 1..n : entries'[i] = disk[i] /\ disk[i].seq = i
          BY <4>1, <4>2 DEF SeqInv
        <4>5. QED
          BY <3>0, <3>1, <4>1, <4>2, <4>3, <4>4 DEF TypeOK
      <3>4. QED
        BY <2>3, <3>2, <3>3 DEF LoadError
    <2>4. CASE LoadUnavailable /\ loaded' = TRUE /\ UNCHANGED storage_enabled
      <3>1. /\ entries = <<>> /\ head_seq = 0 /\ flushed = 0 /\ ~storage_enabled
            /\ UNCHANGED <<entries, head_seq, head_hash, flushed, file_offset>>
        BY <1>0, <2>4 DEF LoadUnavailable, mem_vars, TypeOK, SeqInv
      <3>2. loaded' \in BOOLEAN /\ storage_enabled' \in BOOLEAN /\ ~storage_enabled'
        BY <2>4, <3>1 DEF TypeOK
      <3>3. QED
        BY <2>4, <3>1, <3>2 DEF TypeOK
    <2>5. QED
      BY <2>1, <2>2, <2>3, <2>4 DEF ak_audit_load
  <1>3. TypeOK'
    BY <1>1, <1>2 DEF TypeOK
  <1>4. ThreadInv'
    BY <1>0, <1>1, <1>2 DEF ThreadInv
  <1>5. SeqInv'
    BY <1>1, <1>2 DEF SeqInv
  <1>6. OffsetInv' /\ FlushedOnDisk' /\ DirtyInv'
    BY <1>0, <1>1, <1>2 DEF OffsetInv, FlushedOnDisk, DirtyInv
  <1>7. QED
    BY <1>3, <1>4, <1>5, <1>6

\* A new entry goes behind all others, and is not yet flushed.
LEMMA AppendKeeps ==
    ASSUME BatchInv, NEW t \in Threads, AppendLocked(t) PROVE BatchInv'
  <1> USE AuditAssumption, NoEntryType DEF BatchInv
  <1>1. /\ loaded /\ lock = NoThread /\ Len(entries) < Capacity
        /\ stamp' = stamp + 1 /\ head_seq' = head_seq + 1
        /\ myseq' = [myseq EXCEPT ![t] = head_seq + 1]
        /\ pc' = [pc EXCEPT ![t] = "sync"]
        /\ UNCHANGED <<flushed, anchors, file_offset, sync_outstanding,
                       sync_failed, batch_start, storage_enabled, loaded, crashes,
                       lock, hdr, disk, hdr_dirty, dirty, acked, unlogged>>
    BY DEF AppendLocked, io_vars, boot_vars, disk_vars
  <1>2. PICK this \in {ak_audit_compute_entry_hash(head_hash, stamp')}
                      \cup (IF "hash" \in Faults THEN {Genesis} ELSE {}) :
          /\ entries' = Append(entries, [seq       |-> head_seq + 1,
                                         data      |-> stamp',
                                         prev_hash |-> head_hash,
                                         this_hash |-> this])
          /\ head_hash' = this
    BY DEF AppendLocked
  <1> DEFINE e == [seq |-> head_seq + 1, data |-> stamp', prev_hash |-> head_hash,
                   this_hash |-> this]
  <1>3. stamp' \in Nat /\ this \in Hash
    <2>1. stamp' \in Nat
      BY <1>1 DEF TypeOK
    <2>2. this = ak_audit_compute_entry_hash(head_hash, stamp') \/ this = Genesis
      BY <1>2
    <2>3. ak_audit_compute_entry_hash(head_hash, stamp') \in Hash
      BY <2>1, AppendIsSeq DEF ak_audit_compute_entry_hash, TypeOK, Hash
    <2>4. QED
      BY <2>1, <2>2, <2>3
  <1>4. e \in Entry /\ e.seq = Len(entries) + 1
    BY <1>1, <1>3 DEF TypeOK, Entry, SeqInv
  <1>5. entries' = Append(entries, e)
    BY <1>2
  <1> HIDE DEF e
  <1>6. /\ entries' \in Seq(Entry) /\ Len(entries') = Len(entries) + 1
        /\ \A i \in 1..Len(entries) : entries'[i] = entries[i]
        /\ entries'[Len(entries) + 1] = e
        /\ Len(entries) \in Nat
    BY <1>4, <1>5, AppendIsSeq DEF TypeOK
  <1>7. TypeOK'
    BY <1>1, <1>2, <1>3, <1>6 DEF TypeOK
  <1>8. ThreadInv'
    BY <1>1, <1>6 DEF ThreadInv, TypeOK, SeqInv
  <1>9. SeqInv'
    <2>1. /\ loaded' /\ head_seq' = Len(entries') /\ Len(entries') <= Capacity
          /\ flushed' = flushed /\ flushed <= Len(entries) /\ flushed \in Nat /\ disk' = disk
      BY <1>1, <1>6 DEF SeqInv, TypeOK
    <2>2. \A i \in 1..Len(entries') : i \in 1..Len(entries) \/ i = Len(entries) + 1
      BY <1>6
    <2>3. \A i \in 1..Len(entries') : entries'[i].seq = i
      BY <1>4, <1>6, <2>2 DEF SeqInv
    <2>4. flushed' <= Len(entries')
      BY <1>6, <2>1
    <2> QED BY <2>1, <2>3, <2>4 DEF SeqInv
  <1>10. OffsetInv' /\ FlushedOnDisk'
    BY <1>1, <1>6 DEF OffsetInv, FlushedOnDisk, BatchStart, TypeOK
  <1>11. DirtyInv'
    BY <1>1, <1>6 DEF DirtyInv, TypeOK
  <1>12. QED
    BY <1>7, <1>8, <1>9, <1>10, <1>11

\* Steps that only move a thread, or leave the log as it is.
LEMMA AppendFullKeeps ==
    ASSUME BatchInv, NEW t \in Threads, AppendFull(t) PROVE BatchInv'
  <1>1. /\ unlogged' = TRUE
        /\ UNCHANGED <<entries, head_seq, head_hash, flushed, anchors, file_offset,
                       sync_outstanding, sync_failed, batch_start, storage_enabled,
                       loaded, crashes, lock, pc, myseq, hdr, disk, hdr_dirty,
                       dirty, stamp, acked>>
    BY DEF AppendFull, mem_vars, io_vars, boot_vars, disk_vars
  <1>2. TypeOK'
    BY <1>1 DEF BatchInv, TypeOK
  <1>3. QED
    BY <1>1, <1>2 DEF BatchInv, ThreadInv, SeqInv, OffsetInv, BatchStart, DirtyInv,
       FlushedOnDisk

\* A commit enters ak_audit_sync without an entry.
LEMMA CommitKeeps ==
    ASSUME BatchInv, NEW t \in Threads, ak_handle_commit(t) PROVE BatchInv'
  <1> USE DEF BatchInv
  <1>1. /\ loaded /\ pc[t] = "idle"
        /\ myseq' = [myseq EXCEPT ![t] = 0]
        /\ pc' = [pc EXCEPT ![t] = "sync"]
        /\ UNCHANGED <<entries, head_seq, head_hash, flushed, anchors, file_offset,
                       sync_outstanding, sync_failed, batch_start, storage_enabled,
                       loaded, crashes, lock, hdr, disk, hdr_dirty, dirty, stamp,
                       acked, unlogged>>
    BY DEF ak_handle_commit, mem_vars, io_vars, boot_vars, disk_vars
  <1>2. TypeOK'
    BY <1>1 DEF TypeOK
  <1>3. ThreadInv'
    BY <1>1 DEF ThreadInv, TypeOK
  <1>4. SeqInv' /\ OffsetInv' /\ FlushedOnDisk'
    BY <1>1 DEF SeqInv, OffsetInv, BatchStart, FlushedOnDisk
  <1>5. DirtyInv'
    BY <1>1, AuditAssumption DEF DirtyInv, ThreadInv, TypeOK
  <1>6. QED
    BY <1>2, <1>3, <1>4, <1>5

\* With storage off the watermark moves without a write.
LEMMA SyncInMemoryKeeps ==
    ASSUME BatchInv, NEW t \in Threads, SyncInMemory(t) PROVE BatchInv'
  <1> USE DEF BatchInv
  <1>1. /\ pc[t] = "sync" /\ lock = NoThread /\ ~storage_enabled
        /\ flushed' = Len(entries)
        /\ pc' = [pc EXCEPT ![t] = "anchor"]
        /\ UNCHANGED <<entries, head_seq, head_hash, anchors, file_offset,
                       sync_outstanding, sync_failed, batch_start, storage_enabled,
                       loaded, crashes, lock, myseq, hdr, disk, hdr_dirty, dirty,
                       stamp, acked, unlogged>>
    BY DEF SyncInMemory, io_vars, boot_vars, disk_vars
  <1>2. TypeOK'
    BY <1>1 DEF TypeOK
  <1>3. ThreadInv'
    BY <1>1, AuditAssumption DEF ThreadInv, TypeOK
  <1>4. SeqInv' /\ OffsetInv' /\ FlushedOnDisk' /\ DirtyInv'
    BY <1>1 DEF SeqInv, OffsetInv, FlushedOnDisk, DirtyInv, TypeOK
  <1>5. QED
    BY <1>2, <1>3, <1>4

\* Nothing issued: offset, watermark and disk stay as they are.
LEMMA SyncNothingKeeps ==
    ASSUME BatchInv, NEW t \in Threads, SyncNothing(t) PROVE BatchInv'
  <1> USE DEF BatchInv
  <1>1. /\ pc[t] = "sync" /\ lock = NoThread
        /\ sync_failed' \in BOOLEAN
        /\ pc' = [pc EXCEPT ![t] = "anchor"]
        /\ UNCHANGED <<entries, head_seq, head_hash, flushed, anchors, file_offset,
                       sync_outstanding, batch_start, storage_enabled, loaded,
                       crashes, lock, myseq, hdr, disk, hdr_dirty, dirty, stamp,
                       acked, unlogged>>
    BY DEF SyncNothing, mem_vars, boot_vars, disk_vars
  <1>2. TypeOK'
    BY <1>1 DEF TypeOK
  <1>3. ThreadInv'
    BY <1>1, AuditAssumption DEF ThreadInv, TypeOK
  <1>4. SeqInv' /\ OffsetInv' /\ FlushedOnDisk' /\ DirtyInv'
    BY <1>1 DEF SeqInv, OffsetInv, BatchStart, FlushedOnDisk, DirtyInv
  <1>5. QED
    BY <1>2, <1>3, <1>4

\* A batch puts each unflushed entry at its own slot, behind the flushed ones.
LEMMA SyncIssueKeeps ==
    ASSUME BatchInv, NEW t \in Threads, SyncIssue(t) PROVE BatchInv'
  <1> USE AuditAssumption DEF BatchInv
  <1> DEFINE fresh == file_offset = 0
             first == IF fresh THEN 1 ELSE file_offset
             Placed(j) == [slot |-> first + j, entry |-> entries[flushed + 1 + j]]
  <1>1. /\ pc[t] = "sync" /\ lock = NoThread /\ storage_enabled
        /\ flushed < Len(entries)
        /\ batch_start' = file_offset
        /\ lock' = t
        /\ pc' = [pc EXCEPT ![t] = "write"]
        /\ UNCHANGED <<entries, head_seq, head_hash, flushed, anchors,
                       storage_enabled, loaded, crashes, myseq, hdr, disk, stamp,
                       acked, unlogged>>
    BY DEF SyncIssue, mem_vars, boot_vars
  <1>2. PICK k \in 0..(Len(entries) - flushed) :
          /\ sync_failed' = (k < Len(entries) - flushed)
          /\ sync_outstanding' = k + (IF fresh THEN 1 ELSE 0)
          /\ file_offset' = first + k
          /\ hdr_dirty' = (hdr_dirty \/ fresh)
          /\ dirty' = dirty \cup {Placed(j) : j \in 0..(k - 1)}
    BY DEF SyncIssue
  <1>b. /\ sync_failed' <=> k < Len(entries) - flushed
        /\ fresh => hdr_dirty'
    BY <1>2
  <1>3. loaded /\ BatchStart(file_offset) /\ (file_offset > 0 => hdr)
    BY <1>1 DEF ThreadInv, OffsetInv
  <1>4. first = flushed + 1 /\ first \in Nat \ {0} /\ k \in Nat /\ Len(entries) \in Nat
    BY <1>1, <1>3 DEF BatchStart, TypeOK
  <1>5. \A j \in 0..(k - 1) :
          /\ Placed(j) \in [slot : Nat \ {0}, entry : Entry]
          /\ Placed(j).slot \in (flushed + 1)..Len(entries)
          /\ Placed(j).entry = entries[Placed(j).slot]
    <2> SUFFICES ASSUME NEW j \in 0..(k - 1)
                 PROVE  /\ Placed(j) \in [slot : Nat \ {0}, entry : Entry]
                        /\ Placed(j).slot \in (flushed + 1)..Len(entries)
                        /\ Placed(j).entry = entries[Placed(j).slot]
      OBVIOUS
    <2>1. flushed + 1 + j = first + j /\ flushed + 1 + j \in 1..Len(entries)
      BY <1>4 DEF TypeOK
    <2>2. entries[flushed + 1 + j] \in Entry
      BY <2>1 DEF TypeOK
    <2>3. QED
      BY <1>4, <2>1, <2>2 DEF TypeOK
  <1>6. TypeOK'
    <2>1. dirty' \subseteq [slot : Nat \ {0}, entry : Entry]
      BY <1>2, <1>5 DEF TypeOK
    <2>2. sync_outstanding' \in Nat /\ file_offset' \in Nat
      BY <1>2, <1>4
    <2>3. sync_failed' \in BOOLEAN /\ hdr_dirty' \in BOOLEAN
      BY <1>2
    <2>4. pc' \in [Threads -> {"idle", "sync", "write", "flush", "anchor"}]
      BY <1>1 DEF TypeOK
    <2>5. QED
      BY <1>1, <2>1, <2>2, <2>3, <2>4 DEF TypeOK
  <1>7. ThreadInv'
    BY <1>1 DEF ThreadInv, TypeOK
  <1>8. SeqInv' /\ FlushedOnDisk'
    BY <1>1, <1>3 DEF SeqInv, FlushedOnDisk
  <1>9. OffsetInv'
    <2>1. ~sync_failed' => file_offset' = Len(entries) + 1
      <3>1. ~(k < Len(entries) - flushed) => file_offset' = Len(entries) + 1
        BY <1>2, <1>4 DEF TypeOK
      <3>2. QED
        BY <1>b, <3>1
    <2>2. QED
      BY <1>1, <1>3, <2>1 DEF OffsetInv, BatchStart
  <1>10. DirtyInv'
    <2>1. \A x \in dirty' : /\ x.slot \in (flushed + 1)..Len(entries)
                            /\ x.entry = entries[x.slot]
      BY <1>2, <1>5 DEF DirtyInv
    <2>2. hdr \/ hdr_dirty'
      <3>1. file_offset > 0 \/ fresh
        BY DEF TypeOK
      <3>2. QED
        BY <1>b, <1>3, <3>1
    <2>3. ASSUME ~sync_failed', NEW i \in (flushed + 1)..Len(entries)
          PROVE  \E x \in dirty' : x.slot = i
      <3>1. k = Len(entries) - flushed
        <4>1. ~(k < Len(entries) - flushed)
          BY <1>b, <2>3
        <4>2. QED
          BY <4>1, <1>4 DEF TypeOK
      <3>2. (i - first) \in 0..(k - 1) /\ Placed(i - first).slot = i
        BY <1>4, <3>1 DEF TypeOK
      <3>3. Placed(i - first) \in dirty'
        BY <1>2, <3>2
      <3>4. QED
        BY <3>2, <3>3
    <2>4. pc'[lock'] = "write"
      BY <1>1 DEF TypeOK
    <2>5. QED
      BY <1>1, <1>3, <2>1, <2>2, <2>3, <2>4 DEF DirtyInv
  <1>11. QED
    BY <1>6, <1>7, <1>8, <1>9, <1>10

\* A completion only counts down and latches errors.
LEMMA WriteCompleteKeeps ==
    ASSUME BatchInv, ak_audit_write_complete PROVE BatchInv'
  <1> USE AuditAssumption DEF BatchInv
  <1>1. /\ lock # NoThread /\ pc[lock] = "write" /\ sync_outstanding > 0
        /\ sync_outstanding' = sync_outstanding - 1
        /\ (sync_failed' = sync_failed \/ sync_failed' = TRUE)
        /\ UNCHANGED <<entries, head_seq, head_hash, flushed, anchors, file_offset,
                       batch_start, storage_enabled, loaded, crashes, lock, pc,
                       myseq, hdr, disk, hdr_dirty, dirty, stamp, acked, unlogged>>
    BY DEF ak_audit_write_complete, mem_vars, boot_vars, disk_vars
  <1>2. TypeOK'
    <2>1. sync_outstanding' \in Nat
      BY <1>1 DEF TypeOK
    <2>2. sync_failed' \in BOOLEAN
      BY <1>1 DEF TypeOK
    <2>3. QED
      BY <1>1, <2>1, <2>2 DEF TypeOK
  <1>3. ThreadInv'
    BY <1>1 DEF ThreadInv, TypeOK
  <1>4. SeqInv' /\ FlushedOnDisk' /\ OffsetInv'
    BY <1>1 DEF SeqInv, FlushedOnDisk, OffsetInv, BatchStart
  <1>5. DirtyInv'
    BY <1>1 DEF DirtyInv
  <1>6. QED
    BY <1>2, <1>3, <1>4, <1>5

\* The fsync is asked for only when every write of the batch came back.
LEMMA SyncFlushKeeps ==
    ASSUME BatchInv, NEW t \in Threads, SyncFlush(t) PROVE BatchInv'
  <1> USE AuditAssumption DEF BatchInv
  <1>1. /\ lock = t /\ pc[t] = "write" /\ sync_outstanding = 0 /\ ~sync_failed
        /\ \/ sync_outstanding' = 1 /\ sync_failed' = sync_failed
           \/ sync_outstanding' = 0 /\ sync_failed' = TRUE
        /\ pc' = [pc EXCEPT ![t] = "flush"]
        /\ UNCHANGED <<entries, head_seq, head_hash, flushed, anchors, file_offset,
                       batch_start, storage_enabled, loaded, crashes, lock, myseq,
                       hdr, disk, hdr_dirty, dirty, stamp, acked, unlogged>>
    BY DEF SyncFlush, mem_vars, boot_vars, disk_vars
  <1>2. TypeOK'
    <2>1. sync_outstanding' \in Nat
      BY <1>1 DEF TypeOK
    <2>2. sync_failed' \in BOOLEAN
      BY <1>1 DEF TypeOK
    <2>3. QED
      BY <1>1, <2>1, <2>2 DEF TypeOK
  <1>3. ThreadInv'
    BY <1>1 DEF ThreadInv, TypeOK
  <1>4. SeqInv' /\ FlushedOnDisk' /\ OffsetInv'
    BY <1>1 DEF SeqInv, FlushedOnDisk, OffsetInv, BatchStart
  <1>5. DirtyInv'
    <2>1. CASE sync_outstanding' = 1 /\ sync_failed' = sync_failed
      BY <1>1, <2>1 DEF DirtyInv, TypeOK
    <2>2. CASE sync_outstanding' = 0 /\ sync_failed' = TRUE
      BY <1>1, <2>2 DEF DirtyInv
    <2>3. QED
      BY <1>1, <2>1, <2>2
  <1>6. QED
    BY <1>2, <1>3, <1>4, <1>5

\* A successful fsync makes every entry in memory an entry on disk.
LEMMA FlushCompleteKeeps ==
    ASSUME BatchInv, ak_audit_flush_complete PROVE BatchInv'
  <1> USE AuditAssumption DEF BatchInv
  <1>1. /\ lock \in Threads /\ pc[lock] = "flush" /\ sync_outstanding > 0
        /\ sync_outstanding' = sync_outstanding - 1
        /\ UNCHANGED <<entries, head_seq, head_hash, flushed, anchors, file_offset,
                       batch_start, storage_enabled, loaded, crashes, lock, pc,
                       myseq, stamp, acked, unlogged>>
    BY DEF ak_audit_flush_complete, mem_vars, boot_vars, TypeOK
  <1>2. /\ sync_outstanding = 1 /\ sync_outstanding' = 0
        /\ loaded /\ storage_enabled
    BY <1>1 DEF ThreadInv, TypeOK
  <1>3. ThreadInv'
    BY <1>1, <1>2 DEF ThreadInv, TypeOK
  <1>4. CASE /\ hdr' = (hdr \/ hdr_dirty) /\ hdr_dirty' = FALSE
             /\ disk' = WriteBack(disk, dirty, {}) /\ dirty' = {}
             /\ UNCHANGED sync_failed
    <2>1. disk' \in [1..Capacity -> Entry]
      BY <1>4, WriteBackType DEF TypeOK
    <2>2. TypeOK'
      <3>1. hdr' \in BOOLEAN /\ hdr_dirty' \in BOOLEAN /\ sync_failed' \in BOOLEAN
        BY <1>4 DEF TypeOK
      <3>2. QED
        BY <1>1, <1>2, <1>4, <2>1, <3>1 DEF TypeOK
    <2>3. \A s \in 1..Capacity :
            \/ s \in (flushed + 1)..Len(entries) /\ disk'[s] = entries[s]
            \/ disk'[s] = disk[s] /\ ~(\E x \in dirty : x.slot = s)
      BY <1>4, WriteBackSlot DEF DirtyInv
    <2>4. SeqInv'
      BY <1>1, <1>2, <1>4, <2>3 DEF SeqInv, TypeOK
    <2>5. FlushedOnDisk'
      BY <1>1, <2>3 DEF FlushedOnDisk, SeqInv, TypeOK
    <2>6. hdr => hdr'
      BY <1>4
    <2>7. OffsetInv'
      BY <1>1, <1>4, <2>6 DEF OffsetInv, BatchStart
    <2>8. ~sync_failed => hdr' /\ \A i \in 1..Len(entries) : disk'[i] = entries[i]
      <3>1. SUFFICES ASSUME ~sync_failed, NEW i \in 1..Len(entries)
                     PROVE  hdr' /\ disk'[i] = entries[i]
        BY <1>1, <1>2, <1>4 DEF DirtyInv
      <3>2. hdr'
        BY <1>1, <1>2, <1>4, <3>1 DEF DirtyInv
      <3>3. i \in 1..Capacity
        BY DEF SeqInv, TypeOK
      <3>4. CASE i <= flushed
        <4>1. i \in 1..flushed /\ flushed' = flushed /\ entries' = entries
          BY <1>1, <3>4 DEF TypeOK
        <4>2. \A j \in 1..flushed' : disk'[j] = entries'[j]
          BY <1>1, <1>2, <2>5 DEF FlushedOnDisk
        <4>3. QED
          BY <3>2, <4>1, <4>2
      <3>5. CASE i > flushed
        <4>0. i \in (flushed + 1)..Len(entries)
          BY <3>5 DEF TypeOK
        <4>1. \E x \in dirty : x.slot = i
          BY <1>1, <1>2, <3>1, <4>0 DEF DirtyInv
        <4>2. QED
          BY <2>3, <3>2, <3>3, <4>1
      <3>6. QED
        BY <3>2, <3>4, <3>5 DEF TypeOK
    <2>9. DirtyInv'
      BY <1>1, <1>2, <1>4, <2>8 DEF DirtyInv
    <2>10. QED
      BY <1>3, <2>2, <2>4, <2>5, <2>7, <2>9
  <1>5. CASE sync_failed' = TRUE /\ UNCHANGED <<hdr, disk, hdr_dirty, dirty>>
    <2>1. TypeOK'
      BY <1>1, <1>2, <1>5 DEF TypeOK
    <2>2. SeqInv' /\ FlushedOnDisk' /\ OffsetInv' /\ DirtyInv'
      BY <1>1, <1>5 DEF SeqInv, FlushedOnDisk, OffsetInv, BatchStart, DirtyInv
    <2>3. QED
      BY <1>3, <2>1, <2>2
  <1>6. QED
    BY <1>4, <1>5 DEF ak_audit_flush_complete, disk_vars

\* The watermark moves only when the whole batch is on disk; after a failure
\* the offset is back where the batch began.
LEMMA SyncFinishKeeps ==
    ASSUME BatchInv, NEW t \in Threads, SyncFinish(t) PROVE BatchInv'
  <1> USE AuditAssumption DEF BatchInv
  <1>1. /\ lock = t /\ ((pc[t] = "write" /\ sync_failed) \/ pc[t] = "flush")
        /\ sync_outstanding = 0
        /\ lock' = NoThread
        /\ pc' = [pc EXCEPT ![t] = "anchor"]
        /\ UNCHANGED <<entries, head_seq, head_hash, anchors, sync_outstanding,
                       sync_failed, batch_start, storage_enabled, loaded, crashes,
                       myseq, hdr, disk, hdr_dirty, dirty, stamp, acked, unlogged>>
    BY DEF SyncFinish, boot_vars, disk_vars
  <1>2. loaded /\ storage_enabled
    BY <1>1 DEF ThreadInv, TypeOK
  <1>3. ThreadInv'
    BY <1>1 DEF ThreadInv, TypeOK
  <1>4. CASE sync_failed /\ file_offset' = batch_start /\ flushed' = flushed
    <2>1. TypeOK'
      BY <1>1, <1>4 DEF TypeOK
    <2>2. SeqInv' /\ FlushedOnDisk' /\ OffsetInv' /\ DirtyInv'
      BY <1>1, <1>2, <1>4 DEF SeqInv, FlushedOnDisk, OffsetInv, BatchStart, DirtyInv
    <2>3. QED
      BY <1>3, <2>1, <2>2
  <1>5. CASE ~sync_failed /\ flushed' = Len(entries) /\ file_offset' = file_offset
    <2>1. hdr /\ dirty = {} /\ \A i \in 1..Len(entries) : disk[i] = entries[i]
      BY <1>1, <1>5 DEF DirtyInv, TypeOK
    <2>2. file_offset = Len(entries) + 1 /\ Len(entries) \in Nat
      BY <1>1, <1>2, <1>5 DEF OffsetInv, TypeOK
    <2>3. TypeOK'
      BY <1>1, <1>5 DEF TypeOK
    <2>4. SeqInv' /\ FlushedOnDisk' /\ OffsetInv' /\ DirtyInv'
      BY <1>1, <1>2, <1>5, <2>1, <2>2
      DEF SeqInv, FlushedOnDisk, OffsetInv, BatchStart, DirtyInv
    <2>5. QED
      BY <1>3, <2>3, <2>4
  <1>6. QED
    BY <1>4, <1>5 DEF SyncFinish

\* Returning records the entry and perhaps an anchor, nothing else.
LEMMA ReturnKeeps ==
    ASSUME BatchInv, NEW t \in Threads, Return(t) PROVE BatchInv'
  <1> USE AuditAssumption DEF BatchInv
  <1>1. /\ pc[t] = "anchor"
        /\ pc' = [pc EXCEPT ![t] = "idle"]
        /\ UNCHANGED <<entries, head_seq, head_hash, flushed, file_offset,
                       sync_outstanding, sync_failed, batch_start, storage_enabled,
                       loaded, crashes, lock, myseq, hdr, disk, hdr_dirty, dirty,
                       stamp, unlogged>>
    BY DEF Return, mem_vars, io_vars, boot_vars, disk_vars
  <1>2. acked' \subseteq Entry
    <2>1. CASE myseq[t] = 0
      BY <2>1 DEF Return, TypeOK
    <2>2. CASE myseq[t] # 0
      <3>1. myseq[t] \in 1..Len(entries)
        BY <1>1, <2>2 DEF ThreadInv, TypeOK
      <3>2. entries[myseq[t]] \in Entry
        BY <3>1 DEF TypeOK
      <3>3. QED
        BY <2>2, <3>2 DEF Return, TypeOK
    <2>3. QED
      BY <2>1, <2>2
  <1>3. anchors' \subseteq [log_seq : Nat, log_hash : Hash]
    BY DEF Return, EmitAnchor, TypeOK
  <1>4. TypeOK'
    BY <1>1, <1>2, <1>3 DEF TypeOK
  <1>5. ThreadInv'
    BY <1>1 DEF ThreadInv, TypeOK
  <1>6. SeqInv' /\ FlushedOnDisk' /\ OffsetInv'
    BY <1>1 DEF SeqInv, FlushedOnDisk, OffsetInv, BatchStart
  <1>7. DirtyInv'
    BY <1>1 DEF DirtyInv, ThreadInv, TypeOK
  <1>8. QED
    BY <1>4, <1>5, <1>6, <1>7

\* What a crash leaves in a slot: the entry of an unflushed position, nothing,
\* or what was there; flushed slots are never touched.
LEMMA CrashDisk ==
    ASSUME BatchInv, Crash
    PROVE  /\ disk' \in [1..Capacity -> Entry] /\ hdr' \in BOOLEAN
           /\ hdr => hdr'
           /\ \A s \in 1..Capacity :
                \/ disk'[s] = disk[s]
                \/ /\ \E x \in dirty : x.slot = s
                   /\ disk'[s] = NoEntry \/ disk'[s] = entries[s]
                   /\ loaded /\ storage_enabled
                   /\ s \in (flushed + 1)..Len(entries)
  <1> USE AuditAssumption DEF BatchInv
  <1>1. PICK h \in {hdr, hdr \/ hdr_dirty}, landed \in SUBSET dirty :
          \E torn \in SUBSET (dirty \ landed) :
            hdr' = h /\ disk' = WriteBack(disk, landed, torn)
    BY DEF Crash
  <1>2. PICK torn \in SUBSET (dirty \ landed) :
            hdr' = h /\ disk' = WriteBack(disk, landed, torn)
    BY <1>1
  <1>3. disk' \in [1..Capacity -> Entry]
    BY <1>2, WriteBackType DEF TypeOK
  <1>4. hdr' \in BOOLEAN /\ (hdr => hdr')
    BY <1>1, <1>2 DEF TypeOK
  <1>5. ASSUME NEW s \in 1..Capacity
        PROVE  \/ disk'[s] = disk[s]
               \/ /\ \E x \in dirty : x.slot = s
                  /\ disk'[s] = NoEntry \/ disk'[s] = entries[s]
                  /\ loaded /\ storage_enabled
                  /\ s \in (flushed + 1)..Len(entries)
    BY <1>2, WriteBackSlot DEF DirtyInv
  <1>6. QED
    BY <1>3, <1>4, <1>5

\* After a crash memory is as ak_audit_init leaves it.
LEMMA CrashKeeps ==
    ASSUME BatchInv, Crash PROVE BatchInv'
  <1> USE AuditAssumption DEF BatchInv
  <1>1. /\ dirty' = {} /\ entries' = <<>> /\ head_seq' = 0 /\ head_hash' = Genesis
        /\ flushed' = 0 /\ anchors' = {} /\ file_offset' = 0
        /\ sync_outstanding' = 0 /\ batch_start' = 0 /\ lock' = NoThread
        /\ pc' = [t \in Threads |-> "idle"] /\ myseq' = [t \in Threads |-> 0]
        /\ crashes' = crashes + 1
        /\ UNCHANGED <<stamp, acked, unlogged>>
    BY DEF Crash
  <1>2. /\ hdr_dirty' = FALSE /\ storage_enabled' = FALSE /\ sync_failed' = FALSE
        /\ loaded' = ~LoadAtBoot
    BY DEF Crash
  <1>3. TypeOK'
    <2>1. entries' \in Seq(Entry) /\ head_hash' \in Hash
      BY <1>1, NoEntryType
    <2>2. /\ hdr_dirty' \in BOOLEAN /\ storage_enabled' \in BOOLEAN
          /\ sync_failed' \in BOOLEAN /\ loaded' \in BOOLEAN
      BY <1>2
    <2>3. pc' \in [Threads -> {"idle", "sync", "write", "flush", "anchor"}]
      BY <1>1
    <2>4. QED
      BY <1>1, <2>1, <2>2, <2>3, CrashDisk DEF TypeOK
  <1>4. ThreadInv'
    BY <1>1 DEF ThreadInv
  <1>5. SeqInv'
    <2>1. ASSUME NEW s \in 1..Capacity, disk'[s] # NoEntry PROVE disk'[s].seq = s
      <3>1. CASE disk'[s] = disk[s]
        BY <2>1, <3>1 DEF SeqInv
      <3>2. CASE disk'[s] = entries[s] /\ s \in (flushed + 1)..Len(entries)
        <4>1. s \in 1..Len(entries)
          BY <3>2 DEF TypeOK
        <4>2. QED
          BY <3>2, <4>1 DEF SeqInv
      <3>3. QED
        BY <2>1, <3>1, <3>2, CrashDisk
    <2>2. QED
      BY <1>1, <2>1 DEF SeqInv
  <1>6. OffsetInv' /\ FlushedOnDisk'
    BY <1>2 DEF OffsetInv, FlushedOnDisk
  <1>7. DirtyInv'
    BY <1>1 DEF DirtyInv
  <1>8. QED
    BY <1>3, <1>4, <1>5, <1>6, <1>7

\* Every step keeps the batch invariant.
LEMMA BatchStep == BatchInv /\ [Next]_vars => BatchInv'
  <1> SUFFICES ASSUME BatchInv, [Next]_vars PROVE BatchInv'
    OBVIOUS
  <1>1. CASE UNCHANGED vars
    BY <1>1 DEF BatchInv, TypeOK, ThreadInv, SeqInv, OffsetInv, BatchStart, DirtyInv,
       FlushedOnDisk, vars, mem_vars, io_vars, disk_vars, boot_vars
  <1>2. CASE \E t \in Threads : Sync(t)
    BY <1>2, SyncInMemoryKeeps, SyncNothingKeeps, SyncIssueKeeps, SyncFlushKeeps,
       SyncFinishKeeps DEF Sync
  <1>3. QED
    BY <1>1, <1>2, LoadKeeps, AppendKeeps, AppendFullKeeps, CommitKeeps, ReturnKeeps,
       WriteCompleteKeeps, FlushCompleteKeeps, CrashKeeps DEF Next, Completion

\* Type correctness: every variable of the log keeps its type, for any number of
\* threads, any capacity and any faults of write, fsync, allocation and read.
\* The batch invariant is what is inductive.
THEOREM TypeCorrect == Spec => []TypeOK
  <1>1. BatchInv => TypeOK
    BY DEF BatchInv
  <1>2. QED
    BY BatchInit, BatchStep, <1>1, PTL DEF Spec

\* ak_audit_sync: whatever batches failed and were retried, between batches the
\* next write goes right behind the flushed entries.
THEOREM OffsetsMatch == Spec => []OffsetMatchesWatermark
  <1>1. BatchInv => OffsetMatchesWatermark
    BY DEF BatchInv, OffsetMatchesWatermark, OffsetInv, BatchStart
  <1>2. QED
    BY BatchInit, BatchStep, <1>1, PTL DEF Spec

\* ak_audit_sync: an entry below the flushed watermark is on stable storage, in
\* its own slot, after any failures and crashes.
THEOREM WatermarkSound == Spec => []FlushedOnDisk
  <1>1. BatchInv => FlushedOnDisk
    BY DEF BatchInv
  <1>2. QED
    BY BatchInit, BatchStep, <1>1, PTL DEF Spec

-----------------------------------------------------------------------------
(* The hash chain, while there is memory to hash with *)

\* What the scan of ak_audit_load accepts is a chain.
LEMMA LoadChain ==
    ASSUME BatchInv, ak_audit_load PROVE ChainIntact'
  <1> USE AuditAssumption DEF BatchInv
  <1>1. CASE LoadFresh
    BY <1>1 DEF LoadFresh, mem_vars, SeqInv, ChainIntact, ak_audit_verify, PrevHash,
       ak_audit_load
  <1>2. CASE LoadScan
    <2>1. PICK n \in Acceptable(disk) :
            /\ entries' = [i \in 1..n |-> disk[i]]
            /\ head_seq' = IF n = 0 THEN 0 ELSE disk[n].seq
            /\ head_hash' = PrevHash(disk, n + 1)
      BY <1>2 DEF LoadScan
    <2>2. /\ n \in Nat /\ n <= Capacity
          /\ \A i \in 1..n : /\ disk[i] \in Entry /\ disk[i].seq = i
                             /\ ak_audit_verify_entry(disk[i], PrevHash(disk, i))
      BY DEF Acceptable, TypeOK, SeqInv
    <2>3. Len(entries') = n /\ \A i \in 1..n : entries'[i] = disk[i]
      BY <2>1, <2>2, ArrayIsSeq
    <2>4. \A i \in 1..(n + 1) : PrevHash(entries', i) = PrevHash(disk, i)
      BY <2>2, <2>3 DEF PrevHash
    <2>5. head_seq' = n
      BY <2>1, <2>2
    <2>6. ak_audit_verify(entries')
      BY <2>2, <2>3, <2>4 DEF ak_audit_verify
    <2>7. head_hash' = PrevHash(entries', n + 1)
      BY <2>1, <2>2, <2>4
    <2>8. QED
      BY <2>3, <2>5, <2>6, <2>7 DEF ChainIntact
  <1>3. CASE UNCHANGED loaded
    BY <1>3 DEF ak_audit_load, ChainIntact
  <1>4. CASE LoadUnavailable
    BY <1>4 DEF LoadUnavailable, mem_vars, SeqInv, ChainIntact, ak_audit_verify, PrevHash,
       ak_audit_load
  <1>5. QED
    BY <1>1, <1>2, <1>3, <1>4 DEF ak_audit_load

\* A new entry continues the chain from the head.
LEMMA AppendChain ==
    ASSUME BatchInv, ChainIntact, "hash" \notin Faults,
           NEW t \in Threads, AppendLocked(t)
    PROVE  ChainIntact'
  <1> USE DEF BatchInv
  <1> DEFINE h == ak_audit_compute_entry_hash(head_hash, stamp')
             e == [seq |-> head_seq + 1, data |-> stamp', prev_hash |-> head_hash,
                   this_hash |-> h]
  <1>1. /\ loaded /\ head_seq' = head_seq + 1 /\ stamp' = stamp + 1
        /\ entries' = Append(entries, e) /\ head_hash' = h
    BY DEF AppendLocked
  <1>2. /\ ak_audit_verify(entries) /\ head_seq = Len(entries)
        /\ head_hash = PrevHash(entries, Len(entries) + 1)
    BY <1>1 DEF ChainIntact
  <1>3. e \in Entry
    <2>1. stamp' \in Nat
      BY <1>1 DEF TypeOK
    <2>2. h \in Hash
      BY <2>1, AppendIsSeq DEF ak_audit_compute_entry_hash, TypeOK, Hash
    <2>3. QED
      BY <2>1, <2>2 DEF TypeOK, Entry
  <1>4. /\ e.seq = Len(entries) + 1 /\ e.prev_hash = PrevHash(entries, Len(entries) + 1)
        /\ e.this_hash = ak_audit_compute_entry_hash(e.prev_hash, e.data)
        /\ e.this_hash = h
    BY <1>2
  <1> HIDE DEF e, h
  <1>5. /\ Len(entries') = Len(entries) + 1 /\ Len(entries) \in Nat
        /\ \A i \in 1..Len(entries) : entries'[i] = entries[i]
        /\ entries'[Len(entries) + 1] = e
    BY <1>1, <1>3, AppendIsSeq DEF TypeOK
  <1>6. \A i \in 1..(Len(entries) + 1) : PrevHash(entries', i) = PrevHash(entries, i)
    BY <1>5 DEF PrevHash
  <1>7. ak_audit_verify(entries')
    <2> SUFFICES ASSUME NEW i \in 1..Len(entries')
                 PROVE  /\ entries'[i].seq = i
                        /\ ak_audit_verify_entry(entries'[i], PrevHash(entries', i))
      BY DEF ak_audit_verify
    <2>1. CASE i \in 1..Len(entries)
      BY <1>2, <1>5, <1>6, <2>1 DEF ak_audit_verify
    <2>2. CASE i = Len(entries) + 1
      BY <1>4, <1>5, <1>6, <2>2 DEF ak_audit_verify_entry
    <2>3. QED
      BY <1>5, <2>1, <2>2
  <1>8. head_hash' = PrevHash(entries', Len(entries') + 1)
    BY <1>1, <1>4, <1>5 DEF PrevHash
  <1>9. QED
    BY <1>1, <1>2, <1>5, <1>7, <1>8 DEF ChainIntact

\* No other action moves the head or changes an entry.
LEMMA ChainStep ==
    ASSUME "hash" \notin Faults
    PROVE  BatchInv /\ ChainIntact /\ [Next]_vars => ChainIntact'
  <1> SUFFICES ASSUME BatchInv, ChainIntact, [Next]_vars PROVE ChainIntact'
    OBVIOUS
  <1>1. CASE UNCHANGED <<entries, head_seq, head_hash, loaded>>
    BY <1>1 DEF ChainIntact
  <1>2. CASE Crash
    BY <1>2 DEF Crash, ChainIntact, ak_audit_verify, PrevHash
  <1>3. CASE \E t \in Threads : AppendLocked(t)
    BY <1>3, AppendChain
  <1>4. CASE ak_audit_load
    BY <1>4, LoadChain
  <1>5. CASE UNCHANGED vars
    BY <1>1, <1>5 DEF vars, mem_vars, boot_vars
  <1>6. CASE Completion
    BY <1>1, <1>6 DEF Completion, ak_audit_write_complete, ak_audit_flush_complete,
       mem_vars, boot_vars
  <1>7. CASE \E t \in Threads : Sync(t)
    BY <1>1, <1>7 DEF Sync, SyncInMemory, SyncNothing, SyncIssue, SyncFlush, SyncFinish,
       mem_vars, boot_vars
  <1>8. CASE \E t \in Threads : AppendFull(t) \/ ak_handle_commit(t) \/ Return(t)
    BY <1>1, <1>8 DEF AppendFull, ak_handle_commit, Return, mem_vars, boot_vars
  <1>9. QED
    BY <1>2, <1>3, <1>4, <1>5, <1>6, <1>7, <1>8 DEF Next

\* The empty log verifies.
LEMMA ChainInit == Init => ChainIntact
  BY DEF Init, ChainIntact, ak_audit_verify, PrevHash

\* The log verifies at all times: unless compute_entry_hash runs out of memory, the
\* entries ak_audit_append makes and ak_audit_load recovers are one hash chain
\* from the genesis hash to the head, across crashes and torn writes.
THEOREM ChainAlwaysVerifies ==
    ASSUME "hash" \notin Faults PROVE Spec => []ChainIntact
  <1>1. BatchInv /\ ChainIntact /\ [Next]_vars => (BatchInv /\ ChainIntact)'
    BY BatchStep, ChainStep
  <1>2. QED
    BY BatchInit, ChainInit, <1>1, PTL DEF Spec

-----------------------------------------------------------------------------
(* Durability, when nothing fails but the machine itself *)

\* The scan of ak_audit_load does not stop before an acceptable entry.
LEMMA ScanReaches ==
    ASSUME NEW d, NEW n, NEW m \in Acceptable(d), StopsAt(d, n)
    PROVE  m <= n
  <1>1. n \in 0..Capacity /\ m \in 0..Capacity /\ n + 1 \notin Acceptable(d)
    BY DEF StopsAt, Acceptable
  <1>2. SUFFICES ASSUME m > n PROVE FALSE
    BY <1>1, AuditAssumption
  <1>3. \A i \in 1..(n + 1) : /\ d[i] # NoEntry
                              /\ ak_audit_verify_entry(d[i], PrevHash(d, i))
    BY <1>1, <1>2, AuditAssumption DEF Acceptable
  <1>4. n + 1 \in 0..Capacity
    BY <1>1, <1>2, AuditAssumption
  <1>5. QED
    BY <1>1, <1>3, <1>4 DEF Acceptable

\* A file that agrees with the log up to position n, and a log that is a chain:
\* recovery accepts the first n slots.
LEMMA ChainAccepted ==
    ASSUME BatchInv, ak_audit_verify(entries), NEW d, NEW n \in 0..Len(entries),
           \A i \in 1..n : d[i] = entries[i]
    PROVE  n \in Acceptable(d)
  <1> USE AuditAssumption DEF BatchInv
  <1>1. Len(entries) \in Nat /\ Len(entries) <= Capacity
    BY DEF SeqInv, TypeOK
  <1>2. ASSUME NEW i \in 1..n
        PROVE  d[i] # NoEntry /\ ak_audit_verify_entry(d[i], PrevHash(d, i))
    <2>1. /\ d[i] = entries[i] /\ entries[i].seq = i
          /\ ak_audit_verify_entry(entries[i], PrevHash(entries, i))
      BY <1>1 DEF ak_audit_verify
    <2>2. PrevHash(d, i) = PrevHash(entries, i)
      BY <1>1 DEF PrevHash
    <2>3. d[i] # NoEntry
      BY <2>1 DEF NoEntry
    <2>4. QED
      BY <2>1, <2>2, <2>3
  <1>3. QED
    BY <1>1, <1>2 DEF Acceptable

\* As soon as one entry is flushed, the file has its header.
LEMMA FlushedHasHeader ==
    ASSUME BatchInv, loaded, storage_enabled, flushed > 0 PROVE hdr
  BY DEF BatchInv, OffsetInv, BatchStart, TypeOK

\* In every state, and after a crash of it, an entry that ak_audit_append returned
\* for is where recovery accepts it.
LEMMA AckedOnDisk ==
    ASSUME DurabilityInv, NEW e \in acked
    PROVE  /\ hdr /\ e.seq \in Acceptable(disk) \ {0} /\ disk[e.seq] = e
           /\ Crash => /\ hdr'
                       /\ e.seq \in Acceptable(disk') \ {0} /\ disk'[e.seq] = e
  <1> USE AuditAssumption DEF DurabilityInv
  <1>1. CASE loaded
    <2>1. /\ e.seq \in 1..flushed /\ entries[e.seq] = e /\ storage_enabled
          /\ ak_audit_verify(entries)
      BY <1>1 DEF AckInv, ChainIntact
    <2>2. flushed \in Nat /\ Len(entries) \in Nat /\ flushed <= Len(entries)
          /\ flushed <= Capacity
      BY DEF BatchInv, TypeOK, SeqInv
    <2>3. hdr
      BY <1>1, <2>1, <2>2, FlushedHasHeader
    <2>4. \A i \in 1..flushed : disk[i] = entries[i]
      BY <2>1 DEF BatchInv, FlushedOnDisk
    <2>5. e.seq \in Acceptable(disk) \ {0} /\ disk[e.seq] = e
      BY <2>1, <2>2, <2>4, ChainAccepted
    <2>6. ASSUME Crash
          PROVE  hdr' /\ e.seq \in Acceptable(disk') \ {0} /\ disk'[e.seq] = e
      <3>1. hdr' /\ \A i \in 1..flushed : disk'[i] = disk[i]
        BY <2>2, <2>3, <2>6, CrashDisk
      <3>2. QED
        BY <2>1, <2>2, <2>4, <3>1, ChainAccepted
    <2>7. QED
      BY <2>3, <2>5, <2>6
  <1>2. CASE ~loaded
    <2>1. hdr /\ e.seq \in Acceptable(disk) \ {0} /\ disk[e.seq] = e
      BY <1>2 DEF AckInv
    <2>2. Crash => hdr' /\ disk' = disk
      BY <1>2, <2>1, CrashDisk DEF BatchInv, TypeOK
    <2>3. QED
      BY <2>1, <2>2
  <1>3. QED
    BY <1>1, <1>2

\* Nothing has been acknowledged at first.
LEMMA AckInit ==
    ASSUME LoadAtBoot PROVE Init => AckInv
  BY DEF Init, AckInv

\* Recovery finds every entry that ak_audit_append returned for.
LEMMA LoadAck ==
    ASSUME Faults = {}, DurabilityInv, ak_audit_load PROVE AckInv'
  <1> USE AuditAssumption DEF DurabilityInv
  <1>1. /\ ~loaded
        /\ UNCHANGED <<sync_failed, pc, myseq, acked>>
        /\ \A t \in Threads : pc[t] = "idle"
    BY DEF ak_audit_load, BatchInv, ThreadInv, TypeOK
  <1>2. (LoadFresh \/ LoadScan) /\ loaded' = TRUE /\ storage_enabled' = TRUE
    BY DEF ak_audit_load, LoadError, LoadUnavailable
  <1>3. ASSUME NEW e \in acked PROVE e.seq \in 1..flushed' /\ entries'[e.seq] = e
    <2>1. hdr /\ e.seq \in Acceptable(disk) \ {0} /\ disk[e.seq] = e
      BY <1>1 DEF AckInv
    <2>2. PICK n \in Acceptable(disk) : /\ StopsAt(disk, n) /\ flushed' = n
                                        /\ entries' = [i \in 1..n |-> disk[i]]
      BY <1>2, <2>1 DEF LoadFresh, LoadScan
    <2>3. e.seq <= n /\ e.seq \in Nat \ {0} /\ n \in Nat
      BY <2>1, <2>2, ScanReaches DEF Acceptable
    <2>4. QED
      BY <2>1, <2>2, <2>3
  <1>4. QED
    BY <1>1, <1>2, <1>3 DEF AckInv

\* A thread leaves ak_audit_sync with its own entry flushed, and returns for it.
LEMMA SyncAck ==
    ASSUME Faults = {}, DurabilityInv, NEW t \in Threads,
           Sync(t) \/ Return(t)
    PROVE  AckInv'
  <1> USE AuditAssumption DEF DurabilityInv
  <1>1. /\ pc[t] # "idle" /\ loaded /\ storage_enabled /\ ~sync_failed
        /\ myseq[t] \in Nat /\ myseq[t] <= Len(entries)
        /\ flushed \in Nat /\ Len(entries) \in Nat /\ flushed <= Len(entries)
    BY DEF Sync, SyncInMemory, SyncNothing, SyncIssue, SyncFlush, SyncFinish, Return,
       AckInv, BatchInv, TypeOK, ThreadInv, SeqInv
  <1>2. CASE SyncNothing(t)
    <2>1. /\ flushed = Len(entries) /\ ~sync_failed'
          /\ pc' = [pc EXCEPT ![t] = "anchor"]
          /\ UNCHANGED <<entries, flushed, loaded, storage_enabled, myseq, acked>>
      BY <1>2 DEF SyncNothing, mem_vars, boot_vars
    <2>2. QED
      BY <1>1, <2>1 DEF AckInv, BatchInv, TypeOK
  <1>3. CASE SyncIssue(t)
    <2>1. /\ pc' = [pc EXCEPT ![t] = "write"]
          /\ UNCHANGED <<entries, flushed, loaded, storage_enabled, myseq, acked>>
      BY <1>3 DEF SyncIssue, mem_vars, boot_vars
    <2>2. \E k : ~(k < Len(entries) - flushed)
                 /\ sync_failed' = (k < Len(entries) - flushed)
      BY <1>3 DEF SyncIssue
    <2>3. ~sync_failed'
      BY <2>2
    <2>4. QED
      BY <1>1, <2>1, <2>3 DEF AckInv, BatchInv, TypeOK
  <1>4. CASE SyncFlush(t)
    <2>1. /\ pc' = [pc EXCEPT ![t] = "flush"] /\ sync_failed' = sync_failed
          /\ UNCHANGED <<entries, flushed, loaded, storage_enabled, myseq, acked>>
      BY <1>4 DEF SyncFlush, mem_vars, boot_vars
    <2>2. QED
      BY <1>1, <2>1 DEF AckInv, BatchInv, TypeOK
  <1>5. CASE SyncFinish(t)
    <2>1. /\ pc' = [pc EXCEPT ![t] = "anchor"] /\ flushed' = Len(entries)
          /\ UNCHANGED <<entries, loaded, storage_enabled, sync_failed, myseq, acked>>
      BY <1>1, <1>5 DEF SyncFinish, boot_vars
    <2>2. \A u \in Threads : pc'[u] = "anchor" => myseq'[u] <= flushed'
      BY <1>1, <2>1 DEF AckInv, BatchInv, TypeOK, ThreadInv
    <2>3. QED
      BY <1>1, <2>1, <2>2 DEF AckInv
  <1>6. CASE Return(t)
    <2>1. /\ pc[t] = "anchor" /\ pc' = [pc EXCEPT ![t] = "idle"]
          /\ acked' = acked \cup (IF myseq[t] = 0 THEN {} ELSE {entries[myseq[t]]})
          /\ UNCHANGED <<entries, flushed, loaded, storage_enabled, sync_failed, myseq>>
      BY <1>6 DEF Return, mem_vars, io_vars, boot_vars
    <2>2. \A u \in Threads : pc'[u] = "anchor" => pc[u] = "anchor"
      BY <2>1 DEF BatchInv, TypeOK
    <2>3. myseq[t] <= flushed
      BY <2>1 DEF AckInv
    <2>4. myseq[t] # 0 => entries[myseq[t]].seq = myseq[t]
      BY <1>1 DEF BatchInv, SeqInv
    <2>5. \A e \in acked' : e.seq \in 1..flushed /\ entries[e.seq] = e
      BY <1>1, <2>1, <2>3, <2>4 DEF AckInv
    <2>6. QED
      BY <1>1, <2>1, <2>2, <2>5 DEF AckInv
  <1>7. CASE SyncInMemory(t)
    BY <1>1, <1>7 DEF SyncInMemory
  <1>8. QED
    BY <1>2, <1>3, <1>4, <1>5, <1>6, <1>7 DEF Sync

\* Every step keeps what is acknowledged within what is flushed.
LEMMA AckStep ==
    ASSUME Faults = {}, LoadAtBoot
    PROVE  DurabilityInv /\ [Next]_vars => AckInv'
  <1> SUFFICES ASSUME DurabilityInv, [Next]_vars PROVE AckInv'
    OBVIOUS
  <1> USE AuditAssumption DEF DurabilityInv
  <1>1. CASE UNCHANGED vars
    BY <1>1 DEF AckInv, vars, mem_vars, io_vars, boot_vars, disk_vars
  <1>2. CASE ak_audit_load
    BY <1>2, LoadAck
  <1>3. ASSUME NEW t \in Threads, AppendLocked(t) PROVE AckInv'
    <2>1. /\ loaded /\ pc' = [pc EXCEPT ![t] = "sync"]
          /\ myseq' = [myseq EXCEPT ![t] = head_seq + 1]
          /\ UNCHANGED <<flushed, loaded, storage_enabled, sync_failed, acked>>
      BY <1>3 DEF AppendLocked, io_vars, boot_vars
    <2>2. PICK x : entries' = Append(entries, x)
      BY <1>3 DEF AppendLocked
    <2>3. \A i \in 1..Len(entries) : entries'[i] = entries[i]
      BY <2>2 DEF BatchInv, TypeOK
    <2>4. \A u \in Threads : pc'[u] = "anchor" => pc[u] = "anchor" /\ myseq'[u] = myseq[u]
      BY <2>1 DEF BatchInv, TypeOK
    <2>5. \A e \in acked : e.seq \in 1..flushed /\ entries'[e.seq] = e
      BY <2>1, <2>3 DEF AckInv, BatchInv, SeqInv, TypeOK
    <2>6. QED
      BY <2>1, <2>4, <2>5 DEF AckInv
  <1>4. ASSUME NEW t \in Threads, AppendFull(t) PROVE AckInv'
    BY <1>4 DEF AppendFull, AckInv, mem_vars, io_vars, boot_vars, disk_vars
  <1>5. ASSUME NEW t \in Threads, ak_handle_commit(t) PROVE AckInv'
    <2>1. /\ loaded /\ pc' = [pc EXCEPT ![t] = "sync"]
          /\ myseq' = [myseq EXCEPT ![t] = 0]
          /\ UNCHANGED <<entries, flushed, loaded, storage_enabled, sync_failed, acked>>
      BY <1>5 DEF ak_handle_commit, mem_vars, io_vars, boot_vars
    <2>2. \A u \in Threads : pc'[u] = "anchor" => pc[u] = "anchor" /\ myseq'[u] = myseq[u]
      BY <2>1 DEF BatchInv, TypeOK
    <2>3. QED
      BY <2>1, <2>2 DEF AckInv
  <1>6. CASE \E t \in Threads : Sync(t) \/ Return(t)
    BY <1>6, SyncAck
  <1>7. CASE Completion
    <2>1. /\ lock \in Threads /\ pc[lock] # "idle"
          /\ UNCHANGED <<entries, flushed, loaded, storage_enabled, sync_failed,
                         pc, myseq, acked>>
      BY <1>7 DEF Completion, ak_audit_write_complete, ak_audit_flush_complete,
         mem_vars, boot_vars, BatchInv, TypeOK
    <2>2. loaded
      BY <2>1 DEF BatchInv, ThreadInv
    <2>3. QED
      BY <2>1, <2>2 DEF AckInv
  <1>8. CASE Crash
    <2>1. \A e \in acked : hdr' /\ e.seq \in Acceptable(disk') \ {0} /\ disk'[e.seq] = e
      BY <1>8, AckedOnDisk
    <2>2. /\ ~loaded' /\ ~sync_failed' /\ acked' = acked
          /\ pc' = [t \in Threads |-> "idle"]
      BY <1>8 DEF Crash
    <2>3. QED
      BY <2>1, <2>2 DEF AckInv
  <1>9. QED
    BY <1>1, <1>2, <1>3, <1>4, <1>5, <1>6, <1>7, <1>8 DEF Next

\* Every step keeps what was acknowledged on stable storage.
LEMMA DurabilityStep ==
    ASSUME Faults = {}, LoadAtBoot
    PROVE  DurabilityInv /\ [Next]_vars => DurabilityInv'
  BY BatchStep, ChainStep, AckStep DEF DurabilityInv

\* Durability holds of the empty log.
LEMMA DurabilityInit ==
    ASSUME LoadAtBoot PROVE Init => DurabilityInv
  BY BatchInit, ChainInit, AckInit DEF DurabilityInv

\* INV-4: when storage is attached at start-up and reads, writes and allocations
\* do not fail, an entry is on stable storage, where recovery accepts it, before
\* ak_audit_append returns its seq, and every later crash leaves it there.
THEOREM ReturnAfterFsync ==
    ASSUME Faults = {}, LoadAtBoot PROVE Spec => []ReturnedIsDurable
  <1>1. DurabilityInv => ReturnedIsDurable
    BY AckedOnDisk DEF ReturnedIsDurable
  <1>2. QED
    BY DurabilityInit, DurabilityStep, <1>1, PTL DEF Spec

\* Under the same assumptions ak_audit_load brings back, at every reboot, every
\* entry whose ak_audit_append ever returned.
THEOREM EntriesSurvive ==
    ASSUME Faults = {}, LoadAtBoot PROVE Spec => []EntriesPersist
  <1>1. DurabilityInv => EntriesPersist
    BY DEF DurabilityInv, BatchInv, TypeOK, SeqInv, AckInv, EntriesPersist
  <1>2. QED
    BY DurabilityInit, DurabilityStep, <1>1, PTL DEF Spec

\* Whatever fails, the invariant behind the results above holds: who is inside the log, where a batch starts
\* and ends, and which writes no fsync has covered.
THEOREM BatchesSound == Spec => []BatchInv
  BY BatchInit, BatchStep, PTL DEF Spec

\* With no failures but crashes the durability invariant of ak_audit_append and
\* ak_audit_load holds: what has returned is flushed, or recoverable.
THEOREM DurabilitySound ==
    ASSUME Faults = {}, LoadAtBoot PROVE Spec => []DurabilityInv
  BY DurabilityInit, DurabilityStep, PTL DEF Spec

-----------------------------------------------------------------------------
(* Anchors *)

\* There are no anchors at first.
LEMMA AnchorInit == Init => AnchorInv
  BY DEF Init, AnchorInv, AnchorsVerify, PrevHash

\* Steps that leave the log, its head and the anchors alone.
LEMMA AnchorQuiet ==
    ASSUME AnchorInv, UNCHANGED <<entries, head_hash, anchors, loaded>> PROVE AnchorInv'
  BY DEF AnchorInv, AnchorsVerify

\* An anchor is of one moment, and no step takes its entry away.
LEMMA AnchorStep == BatchInv /\ AnchorInv /\ [Next]_vars => AnchorInv'
  <1> SUFFICES ASSUME BatchInv, AnchorInv, [Next]_vars PROVE AnchorInv'
    OBVIOUS
  <1> USE AuditAssumption
  <1>0. /\ Len(entries) \in Nat /\ entries \in Seq(Entry)
        /\ anchors \subseteq [log_seq : Nat, log_hash : Hash] /\ loaded \in BOOLEAN
        /\ loaded => head_seq = Len(entries)
    BY DEF BatchInv, TypeOK, SeqInv
  <1>1. CASE UNCHANGED vars
    BY <1>1, AnchorQuiet DEF vars, mem_vars, boot_vars
  <1>2. CASE ak_audit_load
    <2>1. ~loaded /\ anchors' = {}
      BY <1>2 DEF ak_audit_load, AnchorInv
    <2>2. ASSUME loaded' PROVE head_hash' = PrevHash(entries', Len(entries') + 1)
      <3>1. CASE LoadScan
        <4>1. PICK n \in Acceptable(disk) : /\ entries' = [i \in 1..n |-> disk[i]]
                                            /\ head_hash' = PrevHash(disk, n + 1)
          BY <3>1 DEF LoadScan
        <4>2. n \in Nat
          BY DEF Acceptable
        <4>3. Len(entries') = n /\ \A i \in 1..n : entries'[i] = disk[i]
          BY <4>1, <4>2
        <4> QED BY <4>1, <4>2, <4>3 DEF PrevHash
      <3>2. CASE LoadFresh \/ LoadUnavailable
        <4>1. /\ UNCHANGED mem_vars /\ entries = <<>> /\ head_hash = Genesis
          BY <2>1, <3>2 DEF LoadFresh, LoadUnavailable, BatchInv, SeqInv
        <4> QED BY <4>1 DEF mem_vars, PrevHash
      <3> QED BY <1>2, <2>1, <2>2, <3>1, <3>2 DEF ak_audit_load
    <2> QED BY <2>1, <2>2 DEF AnchorInv, AnchorsVerify
  <1>3. ASSUME NEW t \in Threads, AppendLocked(t) PROVE AnchorInv'
    <2>1. PICK this : /\ entries' = Append(entries, [seq |-> head_seq + 1, data |-> stamp',
                                              prev_hash |-> head_hash, this_hash |-> this])
                      /\ head_hash' = this
      BY <1>3 DEF AppendLocked
    <2>2. loaded /\ loaded' /\ anchors' = anchors
      BY <1>3 DEF AppendLocked, boot_vars
    <2>3. /\ Len(entries') = Len(entries) + 1
          /\ \A i \in 1..Len(entries) : entries'[i] = entries[i]
          /\ entries'[Len(entries) + 1].this_hash = this
      BY <1>0, <2>1
    <2>4. head_hash' = PrevHash(entries', Len(entries') + 1)
      BY <1>0, <2>1, <2>3 DEF PrevHash
    <2>5. AnchorsVerify'
      BY <1>0, <2>2, <2>3 DEF AnchorInv, AnchorsVerify
    <2> QED BY <2>2, <2>4, <2>5 DEF AnchorInv
  <1>4. ASSUME NEW t \in Threads, AppendFull(t) \/ ak_handle_commit(t) PROVE AnchorInv'
    BY <1>4, AnchorQuiet DEF AppendFull, ak_handle_commit, mem_vars, boot_vars
  <1>5. ASSUME NEW t \in Threads, Sync(t) PROVE AnchorInv'
    BY <1>5, AnchorQuiet DEF Sync, SyncInMemory, SyncNothing, SyncIssue, SyncFlush, SyncFinish,
       mem_vars, boot_vars
  <1>6. ASSUME NEW t \in Threads, Return(t) PROVE AnchorInv'
    <2>1. /\ UNCHANGED <<entries, head_hash, loaded>> /\ loaded
          /\ anchors' \subseteq anchors \cup {[log_seq |-> head_seq, log_hash |-> head_hash]}
      BY <1>6 DEF Return, EmitAnchor, mem_vars, boot_vars, BatchInv, ThreadInv
    <2>2. ASSUME NEW a \in anchors', a.log_seq > 0
          PROVE  a.log_seq <= Len(entries) /\ entries[a.log_seq].this_hash = a.log_hash
      <3>1. CASE a \in anchors
        BY <2>2, <3>1 DEF AnchorInv, AnchorsVerify
      <3>2. CASE a = [log_seq |-> head_seq, log_hash |-> head_hash]
        BY <1>0, <2>1, <2>2, <3>2 DEF AnchorInv, PrevHash
      <3> QED BY <2>1, <3>1, <3>2
    <2>3. AnchorsVerify'
      BY <2>1, <2>2 DEF AnchorsVerify
    <2> QED BY <2>1, <2>3 DEF AnchorInv
  <1>7. CASE Completion
    BY <1>7, AnchorQuiet DEF Completion, ak_audit_write_complete, ak_audit_flush_complete,
       mem_vars, boot_vars
  <1>8. CASE Crash
    BY <1>8 DEF Crash, AnchorInv, AnchorsVerify, PrevHash
  <1> QED
    BY <1>1, <1>2, <1>3, <1>4, <1>5, <1>6, <1>7, <1>8 DEF Next

\* ak_audit_verify_anchor accepts every anchor that ak_audit_emit_anchor took since
\* start-up, whatever has failed and however far the log has moved on.
THEOREM AnchorsAlwaysVerify == Spec => []AnchorsVerify
  <1>1. BatchInv /\ AnchorInv /\ [Next]_vars => (BatchInv /\ AnchorInv)'
    BY BatchStep, AnchorStep
  <1>2. AnchorInv => AnchorsVerify
    BY DEF AnchorInv
  <1> QED
    BY BatchInit, AnchorInit, <1>1, <1>2, PTL DEF Spec

-----------------------------------------------------------------------------
(* Refinement of AuditSpec, when hashing and reading do not fail *)

\* The file is empty at first.
LEMMA StaleInit == ASSUME LoadAtBoot PROVE Init => StaleInv
  <1> SUFFICES ASSUME Init PROVE StaleInv
    OBVIOUS
  <1>1. \A s \in 1..Capacity : disk[s] = NoEntry
    BY DEF Init
  <1>2. ~loaded /\ ~hdr_dirty /\ dirty = {}
    BY DEF Init
  <1>3. 1 \in 1..Capacity
    BY AuditAssumption
  <1> QED BY <1>1, <1>2, <1>3 DEF StaleInv, FileInv

\* What a step leaves in a slot: what was there, nothing, or the log's own entry.
OwnSlot(s) == \/ disk'[s] = disk[s]
              \/ disk'[s] = NoEntry
              \/ loaded /\ s \in 1..Len(entries) /\ disk'[s] = entries[s]

\* Writes of the log's entries keep the file hashed.
LEMMA DiskHashed ==
    ASSUME BatchInv, ChainIntact, StaleInv, stamp' = stamp,
           NEW s \in 1..Capacity, OwnSlot(s), disk'[s] # NoEntry
    PROVE  /\ disk'[s].this_hash = ak_audit_compute_entry_hash(disk'[s].prev_hash, disk'[s].data)
           /\ Drawn(disk'[s].this_hash, stamp')
  <1>1. CASE disk'[s] = disk[s]
    BY <1>1 DEF StaleInv, FileInv, Drawn
  <1>2. CASE loaded /\ s \in 1..Len(entries) /\ disk'[s] = entries[s]
    BY <1>2 DEF StaleInv, FileInv, Drawn, ChainIntact, ak_audit_verify, ak_audit_verify_entry
  <1> QED BY <1>1, <1>2 DEF OwnSlot

\* The steps that change neither the log nor the file.
LEMMA StaleQuiet ==
    ASSUME StaleInv, UNCHANGED <<entries, disk, stamp, loaded, storage_enabled, hdr>>,
           dirty' # {} => hdr \/ hdr_dirty', hdr_dirty' => loaded
    PROVE  StaleInv'
  BY DEF StaleInv, FileInv, Leftover, Drawn

\* The scan ends before the first slot that does not continue the chain.
LEMMA LoadStale ==
    ASSUME "read" \notin Faults, BatchInv, StaleInv, ak_audit_load PROVE StaleInv'
  <1> USE AuditAssumption
  <1>1. /\ ~loaded /\ loaded' /\ storage_enabled' /\ (LoadFresh \/ LoadScan)
        /\ UNCHANGED <<disk, hdr, hdr_dirty, dirty, stamp>>
    BY DEF ak_audit_load, LoadError, LoadUnavailable, disk_vars
  <1>2. ASSUME LoadFresh PROVE FileInv' /\ \A s \in 1..Capacity : s <= Len(entries') + 1 => Leftover(s)'
    <2>1. entries' = <<>> /\ disk[1] = NoEntry
      <3>1. ~hdr /\ UNCHANGED mem_vars
        BY <1>2 DEF LoadFresh
      <3>2. entries = <<>>
        BY <1>1, <3>1, Zenon DEF BatchInv, SeqInv
      <3> QED BY <3>1, <3>2 DEF mem_vars, StaleInv
    <2> QED BY <1>1, <2>1 DEF StaleInv, FileInv, Leftover, Drawn
  <1>3. ASSUME LoadScan PROVE FileInv' /\ \A s \in 1..Capacity : s <= Len(entries') + 1 => Leftover(s)'
    <2>1. PICK n \in Acceptable(disk) : /\ StopsAt(disk, n)
                                        /\ entries' = [i \in 1..n |-> disk[i]]
      BY <1>3 DEF LoadScan
    <2>2. n \in 0..Capacity /\ \A i \in 1..n : disk[i] # NoEntry
      BY DEF Acceptable
    <2>3. Len(entries') = n /\ \A i \in 1..n : entries'[i] = disk[i]
      BY <2>1, <2>2
    <2>4. FileInv'
      BY <1>1, <2>2, <2>3 DEF StaleInv, FileInv, Drawn
    <2>5. ASSUME NEW s \in 1..Capacity, s <= Len(entries') + 1 PROVE Leftover(s)'
      <3>1. CASE s <= n
        BY <1>1, <2>3, <3>1 DEF Leftover
      <3>2. CASE s = n + 1
        <4>1. PrevHash(entries', s) = PrevHash(disk, s)
          BY <2>2, <2>3, <3>2 DEF PrevHash
        <4>2. disk[s] = NoEntry \/ ~ak_audit_verify_entry(disk[s], PrevHash(disk, s))
          BY <2>1, <2>2, <3>2 DEF StopsAt, Acceptable
        <4> QED BY <1>1, <4>1, <4>2 DEF Leftover, StaleInv, FileInv, ak_audit_verify_entry
      <3> QED BY <2>2, <2>3, <2>5, <3>1, <3>2
    <2> QED BY <2>4, <2>5
  <1>4. /\ ~hdr' => disk'[1] = NoEntry
        /\ dirty' # {} => hdr' \/ hdr_dirty'
    BY <1>1 DEF StaleInv
  <1>5. FileInv' /\ \A s \in 1..Capacity : s <= Len(entries') + 1 => Leftover(s)'
    BY <1>1, <1>2, <1>3
  <1> QED BY <1>1, <1>4, <1>5, Zenon DEF StaleInv

\* A new entry's content was never drawn before, so that nothing in the file
\* continues the longer log.
LEMMA AppendStale ==
    ASSUME "hash" \notin Faults, BatchInv, ChainIntact, StaleInv, NEW t \in Threads, AppendLocked(t)
    PROVE  StaleInv'
  <1> USE AuditAssumption
  <1> DEFINE this == ak_audit_compute_entry_hash(head_hash, stamp + 1)
             e == [seq |-> head_seq + 1, data |-> stamp + 1, prev_hash |-> head_hash, this_hash |-> this]
  <1>1. /\ loaded /\ stamp' = stamp + 1 /\ entries' = Append(entries, e)
        /\ UNCHANGED <<disk, hdr, hdr_dirty, dirty, loaded, storage_enabled>>
    BY DEF AppendLocked, boot_vars, disk_vars
  <1>2. /\ entries \in Seq(Entry) /\ Len(entries) \in Nat /\ stamp \in Nat
        /\ head_hash \in Seq(Nat) /\ head_hash = PrevHash(entries, Len(entries) + 1)
        /\ disk \in [1..Capacity -> Entry]
    BY <1>1 DEF BatchInv, TypeOK, ChainIntact, Hash
  <1>3. Drawn(head_hash, stamp)
    <2>1. CASE Len(entries) = 0
      <3>1. head_hash = <<>>
        BY <1>2, <2>1 DEF PrevHash, Genesis
      <3> QED BY <3>1 DEF Drawn
    <2>2. CASE Len(entries) # 0
      <3>1. Len(entries) \in 1..Len(entries) /\ head_hash = entries[Len(entries)].this_hash
        BY <1>2, <2>2 DEF PrevHash
      <3>2. \A i \in 1..Len(entries) : Drawn(entries[i].this_hash, stamp)
        BY <1>1 DEF StaleInv, FileInv
      <3> QED BY <3>1, <3>2
    <2> QED BY <2>1, <2>2
  <1>4. /\ this \in Seq(Nat) /\ Len(this) = Len(head_hash) + 1
        /\ this[Len(this)] = stamp + 1
        /\ \A j \in 1..Len(head_hash) : this[j] = head_hash[j]
    BY <1>2 DEF ak_audit_compute_entry_hash
  <1> HIDE DEF this
  <1>5. Drawn(this, stamp')
    <2>1. \A j \in 1..Len(this) : j = Len(this) \/ j \in 1..Len(head_hash)
      BY <1>2, <1>4
    <2>2. \A j \in 1..Len(head_hash) : head_hash[j] <= stamp /\ head_hash[j] \in Nat
      BY <1>2, <1>3 DEF Drawn
    <2>3. \A j \in 1..Len(this) : this[j] <= stamp + 1
      <3> SUFFICES ASSUME NEW j \in 1..Len(this) PROVE this[j] <= stamp + 1
        OBVIOUS
      <3>1. CASE j = Len(this)
        BY <1>2, <1>4, <3>1
      <3>2. CASE j \in 1..Len(head_hash)
        <4>1. this[j] = head_hash[j] /\ head_hash[j] <= stamp /\ head_hash[j] \in Nat
          BY <1>4, <2>2, <3>2
        <4> QED BY <1>2, <4>1
      <3> QED BY <2>1, <3>1, <3>2
    <2> QED BY <1>1, <2>3 DEF Drawn
  <1>6. /\ Len(entries') = Len(entries) + 1 /\ entries'[Len(entries) + 1] = e
        /\ \A i \in 1..Len(entries) : entries'[i] = entries[i]
    BY <1>1, <1>2
  <1>7. \A h \in Seq(Nat) : Drawn(h, stamp) => Drawn(h, stamp')
    BY <1>1, <1>2 DEF Drawn
  <1>8. FileInv'
    <2>1. ASSUME NEW s \in 1..Capacity, disk[s] # NoEntry
          PROVE  /\ disk[s].this_hash = ak_audit_compute_entry_hash(disk[s].prev_hash, disk[s].data)
                 /\ Drawn(disk[s].this_hash, stamp')
      BY <1>2, <1>7, <2>1 DEF StaleInv, FileInv, Entry, Hash
    <2>2. ASSUME NEW i \in 1..(Len(entries) + 1) PROVE Drawn(entries'[i].this_hash, stamp')
      <3>1. CASE i = Len(entries) + 1
        BY <1>5, <1>6, <3>1
      <3>2. CASE i \in 1..Len(entries)
        <4>1. Drawn(entries[i].this_hash, stamp) /\ entries[i].this_hash \in Seq(Nat)
          <5>1. entries[i] \in Entry
            BY <1>2, <3>2
          <5>2. entries[i].this_hash \in Seq(Nat)
            BY <5>1 DEF Entry, Hash
          <5> QED BY <1>1, <3>2, <5>2 DEF StaleInv, FileInv
        <4> QED BY <1>6, <1>7, <3>2, <4>1
      <3> QED BY <1>2, <3>1, <3>2
    <2> QED BY <1>1, <1>6, <2>1, <2>2 DEF FileInv
  <1>9. ASSUME NEW s \in 1..Capacity, s <= Len(entries') + 1 PROVE Leftover(s)'
    <2>1. CASE s <= Len(entries) + 1
      <3>1. PrevHash(entries', s) = PrevHash(entries, s)
        BY <1>2, <1>6, <2>1 DEF PrevHash
      <3>2. Leftover(s)
        BY <1>1, <2>1 DEF StaleInv
      <3> QED BY <1>1, <1>2, <1>6, <3>1, <3>2 DEF Leftover
    <2>2. CASE s = Len(entries) + 2
      <3>1. PrevHash(entries', s) = this
        BY <1>2, <1>6, <2>2 DEF PrevHash
      <3>2. ASSUME disk[s] # NoEntry, disk[s].prev_hash = this PROVE FALSE
        <4>1. disk[s].this_hash = Append(this, disk[s].data) /\ Drawn(disk[s].this_hash, stamp)
          BY <3>2 DEF StaleInv, FileInv, ak_audit_compute_entry_hash
        <4>2. disk[s].this_hash[Len(this)] = stamp + 1 /\ Len(this) \in 1..Len(disk[s].this_hash)
          BY <1>2, <1>4, <4>1
        <4> QED BY <1>2, <4>1, <4>2 DEF Drawn
      <3> QED BY <1>1, <3>1, <3>2 DEF Leftover
    <2> QED BY <1>2, <1>6, <1>9, <2>1, <2>2
  <1> QED BY <1>1, <1>8, <1>9 DEF StaleInv

\* A flush leaves no stale entry recovery would accept.
LEMMA FlushStale ==
    ASSUME BatchInv, ChainIntact, StaleInv, ak_audit_flush_complete PROVE StaleInv'
  <1> USE AuditAssumption
  <1>1. /\ UNCHANGED <<entries, stamp, loaded, storage_enabled>>
        /\ \/ UNCHANGED disk_vars
           \/ /\ hdr' = (hdr \/ hdr_dirty) /\ hdr_dirty' = FALSE
              /\ disk' = WriteBack(disk, dirty, {}) /\ dirty' = {}
    BY DEF ak_audit_flush_complete, mem_vars, boot_vars
  <1>2. CASE UNCHANGED disk_vars
    BY <1>1, <1>2, StaleQuiet DEF disk_vars, StaleInv
  <1>3. CASE /\ hdr' = (hdr \/ hdr_dirty) /\ hdr_dirty' = FALSE
             /\ disk' = WriteBack(disk, dirty, {}) /\ dirty' = {}
    <2>1. ASSUME NEW s \in 1..Capacity
          PROVE  /\ disk'[s] = disk[s] \/ (loaded /\ s \in 1..Len(entries) /\ disk'[s] = entries[s])
                 /\ disk'[s] # disk[s] => dirty # {}
      <3>1. \/ \E x \in dirty : x.slot = s /\ disk'[s] = x.entry
            \/ disk'[s] = disk[s]
        BY <1>3, WriteBackSlot
      <3>2. \A x \in dirty : loaded /\ x.slot \in 1..Len(entries) /\ x.entry = entries[x.slot]
        BY DEF BatchInv, DirtyInv, TypeOK
      <3> QED BY <3>1, <3>2
    <2>2. FileInv'
      <3>1. \A s \in 1..Capacity : disk'[s] # NoEntry =>
              /\ disk'[s].this_hash = ak_audit_compute_entry_hash(disk'[s].prev_hash, disk'[s].data)
              /\ Drawn(disk'[s].this_hash, stamp')
        BY <1>1, <2>1, DiskHashed DEF OwnSlot
      <3> QED BY <1>1, <3>1 DEF StaleInv, FileInv, Drawn
    <2>3. ASSUME loaded', NEW s \in 1..Capacity, s <= Len(entries') + 1 PROVE Leftover(s)'
      BY <1>1, <2>1, <2>3 DEF StaleInv, Leftover
    <2>4. ~hdr' => disk'[1] = NoEntry
      <3>1. 1 \in 1..Capacity
        OBVIOUS
      <3>2. ASSUME ~hdr' PROVE disk'[1] = NoEntry
        <4>1. ~hdr /\ ~hdr_dirty
          BY <1>3, <3>2
        <4>2. disk[1] = NoEntry /\ dirty = {}
          BY <4>1 DEF StaleInv
        <4> QED BY <2>1, <3>1, <4>2
      <3> QED BY <3>2
    <2> QED BY <1>1, <1>3, <2>2, <2>3, <2>4 DEF StaleInv
  <1> QED BY <1>1, <1>2, <1>3

\* Nor does a crash, whatever it left of the writes.
LEMMA CrashStale ==
    ASSUME LoadAtBoot, BatchInv, ChainIntact, StaleInv, Crash PROVE StaleInv'
  <1> USE AuditAssumption
  <1>1. /\ ~loaded' /\ ~hdr_dirty' /\ dirty' = {} /\ stamp' = stamp
    BY DEF Crash
  <1>2. \A s \in 1..Capacity : OwnSlot(s)
    BY CrashDisk DEF OwnSlot, BatchInv, TypeOK
  <1>3. FileInv'
    BY <1>1, <1>2, DiskHashed DEF FileInv
  <1>4. ASSUME ~hdr' PROVE disk'[1] = NoEntry
    <2>1. PICK landed \in SUBSET dirty, torn \in SUBSET dirty :
            /\ (\E x \in landed : x.slot = 1) => hdr'
            /\ disk' = WriteBack(disk, landed, torn)
      BY DEF Crash
    <2>2. disk'[1] = NoEntry \/ disk'[1] = disk[1]
      BY <1>4, <2>1, WriteBackSlot
    <2>3. ~hdr
      BY <1>4, CrashDisk
    <2> QED BY <2>2, <2>3 DEF StaleInv
  <1> QED BY <1>1, <1>3, <1>4 DEF StaleInv

\* Every step keeps stale entries unacceptable.
LEMMA StaleStep ==
    ASSUME LoadAtBoot, "hash" \notin Faults, "read" \notin Faults
    PROVE  RefinementInv /\ [Next]_vars => StaleInv'
  <1> SUFFICES ASSUME RefinementInv, [Next]_vars PROVE StaleInv'
    OBVIOUS
  <1> USE AuditAssumption DEF RefinementInv
  <1>1. CASE UNCHANGED <<entries, disk_vars, stamp, loaded, storage_enabled>>
    BY <1>1, StaleQuiet DEF StaleInv, disk_vars
  <1>2. CASE UNCHANGED vars \/ ak_audit_write_complete
    BY <1>1, <1>2 DEF vars, ak_audit_write_complete, mem_vars, boot_vars
  <1>3. ASSUME NEW t \in Threads, AppendFull(t) \/ ak_handle_commit(t) \/ Return(t) PROVE StaleInv'
    BY <1>1, <1>3 DEF AppendFull, ak_handle_commit, Return, mem_vars, boot_vars
  <1>4. ASSUME NEW t \in Threads, SyncInMemory(t) \/ SyncNothing(t) \/ SyncFlush(t) \/ SyncFinish(t)
        PROVE  StaleInv'
    BY <1>1, <1>4 DEF SyncInMemory, SyncNothing, SyncFlush, SyncFinish, mem_vars, boot_vars
  <1>5. ASSUME NEW t \in Threads, SyncIssue(t) PROVE StaleInv'
    <2>1. /\ hdr_dirty' = (hdr_dirty \/ file_offset = 0) /\ lock = NoThread /\ storage_enabled
          /\ UNCHANGED <<entries, disk, stamp, loaded, storage_enabled, hdr>> /\ pc[t] = "sync"
      BY <1>5 DEF SyncIssue, mem_vars, boot_vars
    <2>2. loaded
      BY <2>1 DEF BatchInv, ThreadInv
    <2>3. file_offset > 0 => hdr
      BY <2>1, <2>2 DEF BatchInv, OffsetInv
    <2>4. file_offset \in Nat
      BY DEF BatchInv, TypeOK
    <2>5. hdr \/ hdr_dirty'
      <3>1. CASE file_offset = 0
        BY <2>1, <3>1, Zenon
      <3>2. CASE file_offset > 0
        BY <2>3, <3>2
      <3> QED BY <2>4, <3>1, <3>2
    <2> QED BY <2>1, <2>2, <2>5, StaleQuiet
  <1> QED
    BY <1>2, <1>3, <1>4, <1>5, LoadStale, AppendStale, FlushStale, CrashStale
       DEF Next, Sync, Completion

\* What the refinement rests on is kept by every step.
LEMMA RefinementInvStep ==
    ASSUME LoadAtBoot, "hash" \notin Faults, "read" \notin Faults
    PROVE  RefinementInv /\ [Next]_vars => RefinementInv'
  BY BatchStep, ChainStep, StaleStep DEF RefinementInv

\* The scan of ak_audit_load stops somewhere, and at one place only.
LEMMA ScanStops ==
    ASSUME NEW d PROVE \E n \in Acceptable(d) : StopsAt(d, n)
  <1> USE AuditAssumption
  <1> DEFINE T == {k \in Nat : k \notin Acceptable(d)}
  <1>1. Capacity + 1 \in T
    BY DEF Acceptable
  <1>2. PICK k \in T : \A m \in T : k <= m
    BY <1>1, LeastNat
  <1>3. 0 \in Acceptable(d)
    BY DEF Acceptable
  <1>4. k - 1 \in Nat /\ k - 1 \notin T
    BY <1>2, <1>3
  <1> QED BY <1>2, <1>4 DEF StopsAt

\* Recovery's scan stops at one place.
LEMMA ScanStopsOnce ==
    ASSUME NEW d, NEW n, StopsAt(d, n)
    PROVE  (CHOOSE m \in Acceptable(d) : StopsAt(d, m)) = n
  <1> DEFINE c == CHOOSE m \in Acceptable(d) : StopsAt(d, m)
  <1>1. c \in Acceptable(d) /\ StopsAt(d, c)
    BY ScanStops
  <1>2. n \in Acceptable(d)
    BY DEF StopsAt
  <1> HIDE DEF c
  <1>3. c <= n /\ n <= c
    BY <1>1, <1>2, ScanReaches
  <1>4. c \in Nat /\ n \in Nat
    BY <1>1, <1>2 DEF Acceptable
  <1>5. c = n
    BY <1>3, <1>4
  <1> QED BY <1>5 DEF c

\* What ak_audit_load finds after a crash is the log up to some entry at or after
\* the last flushed one: the first slot that differs from the log ends the scan.
LEMMA CrashPrefix ==
    ASSUME RefinementInv, loaded, Crash, NEW n, StopsAt(disk', n)
    PROVE  /\ n \in Nat /\ n <= Len(entries) /\ flushed <= n
           /\ \A i \in 1..n : disk'[i] = entries[i]
  <1> USE AuditAssumption DEF RefinementInv
  <1>1. /\ n \in 0..Capacity /\ n \in Acceptable(disk')
        /\ \A i \in 1..n : disk'[i] # NoEntry /\ ak_audit_verify_entry(disk'[i], PrevHash(disk', i))
    BY DEF StopsAt, Acceptable
  <1>2. /\ Len(entries) \in Nat /\ flushed \in Nat /\ flushed <= Len(entries)
        /\ Len(entries) <= Capacity /\ storage_enabled
    BY DEF BatchInv, TypeOK, SeqInv, StaleInv
  <1> DEFINE T == {i \in 1..n : i > Len(entries) \/ disk'[i] # entries[i]}
  <1>3. T = {}
    <2> SUFFICES ASSUME T # {} PROVE FALSE
      OBVIOUS
    <2>1. T \subseteq Nat
      OBVIOUS
    <2> HIDE DEF T
    <2>2. PICK k \in T : \A m \in T : k <= m
      BY <2>1, LeastNat
    <2>3. k \in 1..n /\ (k > Len(entries) \/ disk'[k] # entries[k]) /\ k \in 1..Capacity
      BY <1>1, <2>2 DEF T
    <2>4. k <= Len(entries) + 1
      <3> SUFFICES ASSUME k > Len(entries) + 1 PROVE FALSE
        BY <1>2, <2>3
      <3>1. Len(entries) + 1 \in T
        BY <1>1, <1>2, <2>3 DEF T
      <3> QED BY <1>2, <2>2, <2>3, <3>1
    <2>5. PrevHash(disk', k) = PrevHash(entries, k)
      <3>1. k # 1 => disk'[k - 1] = entries[k - 1]
        <4>1. k # 1 => k - 1 \in 1..n /\ k - 1 \notin T
          BY <1>1, <2>2, <2>3
        <4> QED BY <4>1 DEF T
      <3> QED BY <3>1 DEF PrevHash
    <2>6. disk'[k] = disk[k]
      BY <1>1, <2>3, <2>4, <1>2, CrashDisk DEF RefinementInv
    <2>7. disk[k].prev_hash = PrevHash(entries, k) /\ disk[k] # NoEntry
      BY <1>1, <2>3, <2>5, <2>6 DEF ak_audit_verify_entry
    <2>8. Leftover(k)
      BY <2>3, <2>4 DEF StaleInv
    <2> QED BY <2>3, <2>6, <2>7, <2>8, <1>2 DEF Leftover
  <1>4. n <= Len(entries) /\ \A i \in 1..n : disk'[i] = entries[i]
    <2>1. \A i \in 1..n : i <= Len(entries) /\ disk'[i] = entries[i]
      BY <1>1, <1>2, <1>3
    <2> QED BY <1>1, <1>2, <2>1
  <1>5. flushed <= n
    <2>1. \A i \in 1..flushed : disk'[i] = entries[i]
      <3>1. \A i \in 1..flushed : disk[i] = entries[i]
        BY <1>2 DEF BatchInv, FlushedOnDisk
      <3>2. \A i \in 1..flushed : disk'[i] = disk[i]
        BY <1>2, CrashDisk
      <3> QED BY <3>1, <3>2
    <2>2. ak_audit_verify(entries)
      BY DEF ChainIntact
    <2>3. flushed \in Acceptable(disk')
      BY <1>2, <2>1, <2>2, ChainAccepted
    <2> QED BY <2>3, ScanReaches
  <1> QED BY <1>1, <1>4, <1>5

\* A crash is AuditSpec's Reboot; one before recovery changes nothing.
LEMMA CrashRefines ==
    ASSUME LoadAtBoot, RefinementInv, Crash
    PROVE  A!Reboot \/ UNCHANGED <<AbstractLog, AbstractStable>>
  <1> USE AuditAssumption DEF RefinementInv
  <1>0. ~loaded'
    BY DEF Crash
  <1>1. CASE loaded
    <2>1. /\ AbstractLog = entries /\ AbstractStable = flushed
          /\ AbstractLog' = Recoverable' /\ AbstractStable' = Len(Recoverable')
      BY <1>0, <1>1 DEF AbstractLog, AbstractStable
    <2>2. entries \in Seq(Entry) /\ flushed \in Nat /\ Len(entries) \in Nat /\ flushed <= Len(entries)
      BY DEF BatchInv, TypeOK, SeqInv
    <2>3. \E n \in flushed..Len(entries) :
            Recoverable' = SubSeq(entries, 1, n) /\ Len(Recoverable') = n
      <3>1. CASE hdr'
        <4>1. PICK n \in Acceptable(disk') : StopsAt(disk', n)
          BY ScanStops
        <4>2. Recoverable' = [i \in 1..n |-> disk'[i]]
          BY <3>1, <4>1, ScanStopsOnce DEF Recoverable
        <4>3. /\ n \in flushed..Len(entries)
              /\ \A i \in 1..n : disk'[i] = entries[i]
          BY <1>1, <2>2, <4>1, CrashPrefix
        <4>4. Recoverable' = SubSeq(entries, 1, n) /\ Len(Recoverable') = n
          BY <2>2, <4>2, <4>3
        <4> QED BY <4>3, <4>4
      <3>2. CASE ~hdr'
        <4>1. ~hdr
          BY <3>2, CrashDisk
        <4>2. ~(flushed > 0)
          BY <1>1, <4>1, FlushedHasHeader DEF StaleInv
        <4>3. Recoverable' = <<>>
          BY <3>2 DEF Recoverable
        <4>4. SubSeq(entries, 1, 0) = <<>> /\ Len(<<>>) = 0
          BY <2>2
        <4> QED BY <2>2, <4>2, <4>3, <4>4
      <3> QED BY <3>1, <3>2
    <2> QED BY <2>1, <2>3 DEF A!Reboot
  <1>2. CASE ~loaded
    <2>1. dirty = {} /\ ~hdr_dirty
      BY <1>2 DEF BatchInv, DirtyInv, StaleInv
    <2>2. disk' = disk
      BY <2>1, CrashDisk DEF BatchInv, TypeOK
    <2>3. hdr' = hdr
      <3>1. \E h \in {hdr, hdr \/ hdr_dirty} : hdr' = h
        BY DEF Crash
      <3>2. hdr \in BOOLEAN
        BY DEF BatchInv, TypeOK
      <3> QED BY <2>1, <3>1, <3>2
    <2>4. Recoverable' = Recoverable
      BY <2>2, <2>3 DEF Recoverable
    <2> QED BY <1>0, <1>2, <2>4 DEF AbstractLog, AbstractStable
  <1> QED BY <1>1, <1>2

\* Recovery reads what the crash left: nothing changes for a reader of AuditSpec.
LEMMA LoadRefines ==
    ASSUME "read" \notin Faults, RefinementInv, ak_audit_load
    PROVE  UNCHANGED <<AbstractLog, AbstractStable>>
  <1> USE AuditAssumption DEF RefinementInv
  <1>1. ~loaded /\ loaded' /\ (LoadFresh \/ LoadScan)
    BY DEF ak_audit_load, LoadError, LoadUnavailable
  <1>2. /\ AbstractLog = Recoverable /\ AbstractStable = Len(Recoverable)
        /\ AbstractLog' = entries' /\ AbstractStable' = flushed'
    BY <1>1 DEF AbstractLog, AbstractStable
  <1>3. CASE LoadScan
    <2>1. PICK n \in Acceptable(disk) : /\ StopsAt(disk, n) /\ flushed' = n
                                        /\ entries' = [i \in 1..n |-> disk[i]]
      BY <1>3 DEF LoadScan
    <2>2. Recoverable = [i \in 1..n |-> disk[i]]
      BY <1>3, <2>1, ScanStopsOnce DEF Recoverable, LoadScan
    <2>3. n \in Nat
      BY DEF Acceptable
    <2> QED BY <1>2, <2>1, <2>2, <2>3
  <1>4. CASE LoadFresh
    <2>1. ~hdr /\ UNCHANGED mem_vars
      BY <1>4 DEF LoadFresh
    <2>2. Recoverable = <<>>
      BY <2>1 DEF Recoverable
    <2>3. entries = <<>> /\ flushed <= Len(entries) /\ flushed \in Nat
      BY <1>1, <2>1 DEF BatchInv, SeqInv, TypeOK
    <2>4. entries' = <<>> /\ flushed' = 0
      BY <2>1, <2>3 DEF mem_vars
    <2> QED BY <1>2, <2>2, <2>4
  <1> QED BY <1>1, <1>3, <1>4

\* Every step of the log is a step of AuditSpec or stutters.
LEMMA StepRefines ==
    ASSUME LoadAtBoot, "hash" \notin Faults, "read" \notin Faults, RefinementInv, [Next]_vars
    PROVE  [A!Next]_(A!vars)
  <1> USE AuditAssumption DEF RefinementInv
  <1>0. /\ entries \in Seq(Entry) /\ Len(entries) \in Nat
        /\ flushed \in Nat /\ flushed <= Len(entries) /\ loaded \in BOOLEAN
    BY DEF BatchInv, TypeOK, SeqInv
  <1>1. CASE UNCHANGED <<entries, flushed, loaded, hdr, disk>>
    BY <1>1 DEF A!vars, AbstractLog, AbstractStable, Recoverable
  <1>2. CASE UNCHANGED vars \/ ak_audit_write_complete
    BY <1>1, <1>2 DEF vars, ak_audit_write_complete, mem_vars, boot_vars, disk_vars
  <1>3. ASSUME NEW t \in Threads, AppendFull(t) \/ ak_handle_commit(t) \/ Return(t)
        PROVE  [A!Next]_(A!vars)
    BY <1>1, <1>3 DEF AppendFull, ak_handle_commit, Return, mem_vars, boot_vars, disk_vars
  <1>4. ASSUME NEW t \in Threads, SyncNothing(t) \/ SyncIssue(t) \/ SyncFlush(t)
        PROVE  [A!Next]_(A!vars)
    BY <1>1, <1>4 DEF SyncNothing, SyncIssue, SyncFlush, mem_vars, boot_vars, disk_vars
  <1>5. ASSUME NEW t \in Threads, SyncInMemory(t) PROVE FALSE
    BY <1>5 DEF SyncInMemory, StaleInv, BatchInv, ThreadInv
  <1>6. CASE ak_audit_flush_complete
    <2>1. lock \in Threads /\ pc[lock] # "idle" /\ UNCHANGED <<entries, flushed, loaded>>
      BY <1>6 DEF ak_audit_flush_complete, mem_vars, boot_vars, BatchInv, TypeOK
    <2>2. loaded
      BY <2>1 DEF BatchInv, ThreadInv
    <2> QED BY <2>1, <2>2 DEF A!vars, AbstractLog, AbstractStable
  <1>7. ASSUME NEW t \in Threads, SyncFinish(t) PROVE [A!Next]_(A!vars)
    <2>1. pc[t] # "idle" /\ UNCHANGED <<entries, loaded>> /\ flushed' \in {flushed, Len(entries)}
      BY <1>7 DEF SyncFinish, boot_vars
    <2>2. loaded
      BY <2>1 DEF BatchInv, ThreadInv
    <2>3. /\ AbstractLog = entries /\ AbstractLog' = entries
          /\ AbstractStable = flushed /\ AbstractStable' = flushed'
      BY <2>1, <2>2 DEF AbstractLog, AbstractStable
    <2> QED BY <1>0, <2>1, <2>3 DEF A!Next, A!Stabilize, A!vars
  <1>8. ASSUME NEW t \in Threads, AppendLocked(t) PROVE [A!Next]_(A!vars)
    <2>1. PICK e : entries' = Append(entries, e)
      BY <1>8 DEF AppendLocked
    <2>2. loaded /\ loaded' = loaded /\ flushed' = flushed
      BY <1>8 DEF AppendLocked, boot_vars
    <2>3. /\ AbstractLog = entries /\ AbstractLog' = entries'
          /\ AbstractStable = flushed /\ AbstractStable' = flushed
      BY <2>2 DEF AbstractLog, AbstractStable
    <2>4. entries' \in Seq(Entry \cup {e})
      BY <1>0, <2>1
    <2>5. Len(entries') = Len(entries) + 1 /\ SubSeq(entries', 1, Len(entries)) = entries
      BY <1>0, <2>1, <2>4
    <2> QED BY <2>3, <2>5 DEF A!Next, A!AppendEntry
  <1>9. CASE ak_audit_load
    BY <1>9, LoadRefines DEF A!vars
  <1>10. CASE Crash
    BY <1>10, CrashRefines DEF A!Next, A!vars
  <1> QED
    BY <1>2, <1>3, <1>4, <1>5, <1>6, <1>7, <1>8, <1>9, <1>10 DEF Next, Sync, Completion

\* INV-4 as AuditSpec states it: while hashing and reading do not fail, whatever
\* writes and fsyncs fail, tear or are retried, and wherever the machine stops,
\* ak_audit_load finds a prefix of the log that contains everything flushed, and
\* an entry that was lost once never comes back.
THEOREM ImplementsSpec ==
    ASSUME LoadAtBoot, "hash" \notin Faults, "read" \notin Faults
    PROVE  Spec => ImplementsAuditSpec
  <1>1. Init => RefinementInv /\ A!Init
    <2> SUFFICES ASSUME Init PROVE A!Init
      BY BatchInit, ChainInit, StaleInit DEF RefinementInv
    <2>1. Recoverable = <<>> /\ entries = <<>> /\ flushed = 0
      BY DEF Init, Recoverable
    <2> QED BY <2>1 DEF A!Init, AbstractLog, AbstractStable
  <1>2. RefinementInv /\ [Next]_vars => [A!Next]_(A!vars)
    BY StepRefines
  <1> QED
    BY <1>1, <1>2, RefinementInvStep, PTL DEF Spec, ImplementsAuditSpec, A!Spec

-----------------------------------------------------------------------------
(* The ring buffer, the other half of ak_audit.c *)

\* Division with remainder.
LEMMA DivMod == ASSUME NEW a \in Int, NEW k \in Int, k > 0 PROVE a = (a \div k) * k + (a % k)
  BY Z3

\* Two numbers less than k apart have different remainders.
LEMMA ModApart ==
    ASSUME NEW a \in Nat, NEW b \in Nat, NEW k \in Nat \ {0}, a < b, b - a < k
    PROVE  a % k # b % k
  <1> DEFINE x == a \div k
             y == b \div k
  <1>1. x \in Int /\ y \in Int /\ a % k \in Int /\ b % k \in Int
    OBVIOUS
  <1>2. a = x * k + (a % k) /\ b = y * k + (b % k)
    BY DivMod
  <1> HIDE DEF x, y
  <1>3. ASSUME a % k = b % k PROVE FALSE
    <2>1. b - a = y * k - x * k
      BY <1>1, <1>2, <1>3
    <2>2. CASE y <= x
      <3>1. y * k <= x * k
        BY <1>1, <2>2
      <3> QED BY <1>1, <2>1, <3>1
    <2>3. CASE y >= x + 1
      <3>1. y * k >= (x + 1) * k
        BY <1>1, <2>3
      <3>2. (x + 1) * k = x * k + k
        BY <1>1
      <3> QED BY <1>1, <2>1, <3>1, <3>2
    <2> QED BY <1>1, <2>2, <2>3
  <1> QED BY <1>3

\* A word that does not wrap.
LEMMA RingWord ==
    ASSUME NEW n \in Nat, n <= MaxPush + Size PROVE Word(n) = n
  BY RingAssumption DEF Word

\* Different positions less than a ring apart are in different slots.
LEMMA RingSlot ==
    ASSUME NEW q \in Nat
    PROVE  /\ Slot(q) \in 0..(Size - 1)
           /\ \A r \in Nat : q # r /\ r - q < Size /\ q - r < Size => Slot(q) # Slot(r)
  <1>1. Size \in Nat \ {0}
    BY RingAssumption
  <1>2. q % Size \in 0..(Size - 1)
    BY <1>1
  <1>3. ASSUME NEW r \in Nat, q # r, r - q < Size, q - r < Size PROVE q % Size # r % Size
    <2>1. q < r \/ r < q
      BY <1>3
    <2> QED BY <1>1, <1>3, <2>1, ModApart
  <1> QED BY <1>2, <1>3 DEF Slot

\* RingInv while nobody has strayed.
RingSound == RingTypeOK /\ PushInv /\ SlotInv /\ PopInv /\ GotInv

\* Producer or consumer a, and no other, comes to stage s.
Moved(a, s) == ring_pc' = [ring_pc EXCEPT ![a] = s]

\* A record of got.
Handed == [pos : Nat, seq : Nat, rest : Nat, lapped : BOOLEAN]

\* The initial ring is empty.
LEMMA RingInit == ASSUME ak_ring_init PROVE RingSound
  <1> USE DEF ak_ring_init
  <1>0. \A a \in Producers \cup Consumers : ring_pc[a] = "idle"
    OBVIOUS
  <1>1. Pushers = {} /\ Claimed = {}
    BY <1>0 DEF Pushers, Claimed
  <1>2. RingTypeOK
    BY RingAssumption DEF RingTypeOK, RingEntry, NoRingEntry, PushStages, PopStages
  <1>3. PushInv /\ SlotInv /\ PopInv
    BY <1>0, <1>1 DEF PushInv, SlotInv, PopInv
  <1>4. GotInv
    BY <1>1 DEF GotInv, Positions
  <1> QED BY <1>2, <1>3, <1>4 DEF RingSound

\* The numbers of a sound ring.
LEMMA RingNumbers ==
    ASSUME RingTypeOK
    PROVE  /\ head \in Nat /\ tail \in Nat /\ tail <= head /\ head <= MaxPush
           /\ MaxPush \in Nat /\ Size \in Nat /\ Size >= 1
           /\ \A a \in Producers \cup Consumers : mine[a] \in Nat
           /\ \A p \in Producers : seen[p] \in Nat
           /\ Pushers \subseteq Producers
  BY RingAssumption DEF RingTypeOK, Pushers

\* What was handed out has a position.
LEMMA GotNumbers ==
    ASSUME RingTypeOK, NEW c \in Consumers, NEW i \in 1..Len(got[c]) PROVE got[c][i].pos \in Nat
  <1>1. got[c] \in Seq(Handed)
    BY DEF RingTypeOK, Handed
  <1>2. got[c][i] \in Handed
    BY <1>1
  <1> QED BY <1>2 DEF Handed

\* A step of a push leaves the consumers as they are: the head and the tail only grow.
LEMMA PushFrame ==
    ASSUME RingSound, NEW p \in Producers, NEW s \in PushStages, Moved(p, s),
           got' = got, entry_out' = entry_out, \A c \in Consumers : mine'[c] = mine[c],
           head' \in Nat, tail' \in Nat, head <= head', tail <= tail'
    PROVE  /\ ring_pc' \in [Producers \cup Consumers -> PushStages \cup PopStages]
           /\ \A q \in Producers : ring_pc'[q] = IF q = p THEN s ELSE ring_pc[q]
           /\ \A q \in Producers : ring_pc'[q] \in PushStages
           /\ \A c \in Consumers : ring_pc'[c] = ring_pc[c]
           /\ \A c \in Consumers : ring_pc'[c] \in PopStages
           /\ \A q \in Producers : q \in Pushers' <=> (IF q = p THEN s # "idle" ELSE q \in Pushers)
           /\ PopInv' /\ GotInv' /\ Claimed' = Claimed
  <1>0. RingTypeOK /\ PopInv /\ GotInv
    BY DEF RingSound
  <1>1. /\ ring_pc' \in [Producers \cup Consumers -> PushStages \cup PopStages]
        /\ \A q \in Producers : ring_pc'[q] = IF q = p THEN s ELSE ring_pc[q]
        /\ \A q \in Producers : ring_pc'[q] \in PushStages
    BY <1>0 DEF RingTypeOK, Moved
  <1>2. \A c \in Consumers : ring_pc'[c] = ring_pc[c] /\ ring_pc'[c] \in PopStages
    BY <1>0, RingAssumption DEF RingTypeOK, Moved
  <1>3. Claimed' = Claimed
    BY <1>2 DEF Claimed
  <1>4. \A q \in Producers : q \in Pushers' <=> (IF q = p THEN s # "idle" ELSE q \in Pushers)
    BY <1>1 DEF Pushers
  <1>5. PopInv'
    <2>1. \A c \in Consumers : mine[c] \in Nat /\ mine'[c] = mine[c]
      BY <1>0, RingNumbers
    <2>2. head \in Nat /\ tail \in Nat /\ Size \in Nat
      BY <1>0, RingNumbers
    <2>3. ASSUME NEW c \in Consumers
          PROVE  /\ ring_pc'[c] = "claim" => mine'[c] < head'
                 /\ c \in Claimed' => mine'[c] < tail'
                 /\ ring_pc'[c] = "copyrest" /\ head' <= mine'[c] + Size => entry_out'[c] = Whole(mine'[c])
      <3>1. ring_pc[c] = "claim" => mine[c] < head'
        BY <1>0, <2>1, <2>2 DEF PopInv
      <3>2. c \in Claimed => mine[c] < tail'
        BY <1>0, <2>1, <2>2 DEF PopInv
      <3>3. ring_pc[c] = "copyrest" /\ head' <= mine[c] + Size => entry_out[c] = Whole(mine[c])
        BY <1>0, <2>1, <2>2 DEF PopInv
      <3> QED BY <1>2, <1>3, <2>1, <3>1, <3>2, <3>3
    <2> QED BY <2>3 DEF PopInv, Whole
  <1>6. GotInv'
    <2>1. \A c \in Consumers : Positions(c)' = Positions(c)
      BY DEF Positions
    <2>2. ASSUME NEW c \in Consumers, NEW i \in 1..Len(got[c]) PROVE got[c][i].pos < tail'
      <3>1. got[c][i].pos \in Nat /\ tail \in Nat
        BY <1>0, RingNumbers, GotNumbers
      <3> QED BY <1>0, <3>1 DEF GotInv
    <2> QED BY <1>0, <1>3, <2>1, <2>2 DEF GotInv
  <1> QED BY <1>1, <1>2, <1>3, <1>4, <1>5, <1>6

\* A step of a pop leaves the pushes under way and the slots as they are.
LEMMA PopFrame ==
    ASSUME RingSound, NEW c \in Consumers, NEW s \in PopStages, Moved(c, s),
           head' = head, slots' = slots, seen' = seen, \A p \in Producers : mine'[p] = mine[p],
           tail' \in Nat, tail' <= head, \A p \in Pushers : tail' <= mine[p]
    PROVE  /\ ring_pc' \in [Producers \cup Consumers -> PushStages \cup PopStages]
           /\ \A p \in Producers : ring_pc'[p] = ring_pc[p]
           /\ \A p \in Producers : ring_pc'[p] \in PushStages
           /\ \A d \in Consumers : ring_pc'[d] = IF d = c THEN s ELSE ring_pc[d]
           /\ \A d \in Consumers : ring_pc'[d] \in PopStages
           /\ head' \in 0..MaxPush /\ tail' \in 0..head' /\ Pushers' = Pushers
           /\ PushInv' /\ SlotInv'
  <1>0. RingTypeOK /\ PushInv /\ SlotInv
    BY DEF RingSound
  <1>1. /\ ring_pc' \in [Producers \cup Consumers -> PushStages \cup PopStages]
        /\ \A d \in Consumers : ring_pc'[d] = IF d = c THEN s ELSE ring_pc[d]
        /\ \A d \in Consumers : ring_pc'[d] \in PopStages
    BY <1>0 DEF RingTypeOK, Moved
  <1>2. \A p \in Producers : ring_pc'[p] = ring_pc[p] /\ ring_pc'[p] \in PushStages
    BY <1>0, RingAssumption DEF RingTypeOK, Moved
  <1>3. Pushers' = Pushers
    BY <1>2 DEF Pushers
  <1>4. head' \in 0..MaxPush /\ tail' \in 0..head'
    BY <1>0 DEF RingTypeOK
  <1>5. \A p \in Pushers : p \in Producers
    BY DEF Pushers
  <1>6. PushInv'
    BY <1>0, <1>2, <1>3, <1>5 DEF PushInv, Slot
  <1>7. SlotInv'
    BY <1>0, <1>3, <1>5 DEF SlotInv, Hasty, Slot, Whole
  <1> QED BY <1>1, <1>2, <1>3, <1>4, <1>6, <1>7

\* A push claims a position: as nobody strays, none under way is a ring behind.
LEMMA PushClaimStep ==
    ASSUME RingSound, NEW p \in Producers, PushClaim(p), ~strayed' PROVE RingSound'
  <1>0. RingTypeOK /\ PushInv /\ SlotInv
    BY DEF RingSound
  <1>1. /\ ring_pc[p] = "idle" /\ head < MaxPush
        /\ mine' = [mine EXCEPT ![p] = head] /\ head' = Word(head + 1)
        /\ Moved(p, "check") /\ tail' = tail /\ slots' = slots /\ seen' = seen
        /\ entry_out' = entry_out /\ got' = got
        /\ \A q \in Pushers : ~(mine[q] + Size <= head)
    BY DEF PushClaim, Moved
  <1>2. /\ head \in Nat /\ tail \in Nat /\ tail <= head /\ MaxPush \in Nat /\ Size \in Nat /\ Size >= 1
        /\ \A a \in Producers \cup Consumers : mine[a] \in Nat
    BY <1>0, RingNumbers
  <1>3. head' = head + 1
    BY <1>1, <1>2, RingWord
  <1>4. /\ mine' \in [Producers \cup Consumers -> Nat] /\ mine'[p] = head
        /\ \A q \in Producers : q # p => mine'[q] = mine[q]
        /\ \A c \in Consumers : mine'[c] = mine[c]
    BY <1>0, <1>1, <1>2, RingAssumption DEF RingTypeOK
  <1>5. /\ ring_pc' \in [Producers \cup Consumers -> PushStages \cup PopStages]
        /\ \A q \in Producers : ring_pc'[q] = IF q = p THEN "check" ELSE ring_pc[q]
        /\ \A q \in Producers : ring_pc'[q] \in PushStages
        /\ \A c \in Consumers : ring_pc'[c] \in PopStages
        /\ \A q \in Producers : q \in Pushers' <=> (IF q = p THEN "check" # "idle" ELSE q \in Pushers)
        /\ PopInv' /\ GotInv'
    <2>1. "check" \in PushStages
      BY DEF PushStages
    <2>2. head' \in Nat /\ tail' \in Nat /\ head <= head' /\ tail <= tail'
      BY <1>1, <1>2, <1>3
    <2> QED BY <1>1, <1>4, <2>1, <2>2, PushFrame
  <1>6. RingTypeOK'
    BY <1>0, <1>1, <1>2, <1>3, <1>4, <1>5 DEF RingTypeOK
  <1>7. \A q \in Pushers' : q \in Producers /\ (q = p \/ (q # p /\ q \in Pushers))
    BY <1>5 DEF Pushers
  <1>8. \A q \in Pushers : q \in Producers /\ q # p
    BY <1>1 DEF Pushers
  <1>9. ASSUME NEW q \in Pushers'
        PROVE  /\ mine'[q] < head' /\ head' <= mine'[q] + Size /\ tail' <= mine'[q]
               /\ \A r \in Pushers' : q # r => mine'[q] # mine'[r]
               /\ ring_pc'[q] = "room" => seen'[q] + Size <= mine'[q]
               /\ ring_pc'[q] = "rest" => slots'[Slot(mine'[q])].seq = mine'[q] + 1
    <2>1. \A r \in Pushers : mine[r] \in Nat /\ mine[r] < head /\ head + 1 <= mine[r] + Size /\ tail <= mine[r]
      BY <1>0, <1>1, <1>2, <1>8 DEF PushInv
    <2>2. CASE q = p
      <3>1. ring_pc'[q] = "check"
        BY <1>5, <2>2
      <3>2. \A r \in Pushers' : q # r => mine'[q] # mine'[r]
        BY <1>2, <1>4, <1>7, <2>1, <2>2
      <3> QED BY <1>1, <1>2, <1>3, <1>4, <2>2, <3>1, <3>2
    <2>3. CASE q # p
      <3>1. q \in Pushers /\ mine'[q] = mine[q] /\ ring_pc'[q] = ring_pc[q]
        BY <1>4, <1>5, <1>7, <2>3
      <3>2. \A r \in Pushers' : q # r => mine'[q] # mine'[r]
        BY <1>0, <1>2, <1>4, <1>7, <2>1, <3>1 DEF PushInv
      <3>3. /\ ring_pc[q] = "room" => seen[q] + Size <= mine[q]
            /\ ring_pc[q] = "rest" => slots[Slot(mine[q])].seq = mine[q] + 1
        BY <1>0, <3>1 DEF PushInv
      <3> QED BY <1>1, <1>2, <1>3, <2>1, <3>1, <3>2, <3>3
    <2> QED BY <2>2, <2>3
  <1>10. PushInv'
    BY <1>9 DEF PushInv, Slot
  <1>11. ASSUME NEW q \in 0..(head' - 1), head' <= q + Size, ~Hasty(q)' PROVE slots'[Slot(q)] = Whole(q)
    <2>1. p \in Pushers' /\ \A r \in Pushers : r \in Pushers' /\ mine'[r] = mine[r]
      BY <1>4, <1>5, <1>8
    <2>2. q # head /\ ~Hasty(q)
      BY <1>4, <1>11, <2>1 DEF Hasty
    <2>3. q \in 0..(head - 1) /\ head <= q + Size
      BY <1>2, <1>3, <1>11, <2>2
    <2> QED BY <1>0, <1>1, <2>2, <2>3 DEF SlotInv
  <1>12. SlotInv'
    BY <1>11 DEF SlotInv, Slot, Whole
  <1> QED BY <1>5, <1>6, <1>10, <1>12 DEF RingSound

\* A step of push p that leaves head, its position and the slots alone.
LEMMA PushQuiet ==
    ASSUME RingSound, NEW p \in Pushers, NEW s \in PushStages \ {"idle", "rest"}, Moved(p, s),
           head' = head, mine' = mine, slots' = slots, entry_out' = entry_out, got' = got,
           tail' \in Nat, tail <= tail', tail' <= head, \A q \in Pushers : tail' <= mine[q],
           seen' \in [Producers -> Nat], \A q \in Producers : q # p => seen'[q] = seen[q],
           s = "room" => seen'[p] + Size <= mine[p]
    PROVE  RingSound'
  <1>0. RingTypeOK /\ PushInv /\ SlotInv /\ p \in Producers
    BY DEF RingSound, Pushers
  <1>1. head \in Nat /\ head <= MaxPush /\ MaxPush \in Nat
    BY <1>0, RingNumbers
  <1>2. /\ ring_pc' \in [Producers \cup Consumers -> PushStages \cup PopStages]
        /\ \A q \in Producers : ring_pc'[q] = IF q = p THEN s ELSE ring_pc[q]
        /\ \A q \in Producers : ring_pc'[q] \in PushStages
        /\ \A c \in Consumers : ring_pc'[c] \in PopStages
        /\ \A q \in Producers : q \in Pushers' <=> (IF q = p THEN s # "idle" ELSE q \in Pushers)
        /\ PopInv' /\ GotInv'
    <2>1. s \in PushStages /\ head' \in Nat /\ head <= head' /\ \A c \in Consumers : mine'[c] = mine[c]
      BY <1>1
    <2> QED BY <1>0, <2>1, PushFrame
  <1>3. Pushers' = Pushers
    BY <1>0, <1>2 DEF Pushers
  <1>4. RingTypeOK'
    BY <1>0, <1>1, <1>2 DEF RingTypeOK
  <1>5. PushInv'
    <2>1. ASSUME NEW q \in Pushers
          PROVE  /\ mine[q] < head /\ head <= mine[q] + Size /\ tail' <= mine[q]
                 /\ \A r \in Pushers : q # r => mine[q] # mine[r]
                 /\ ring_pc'[q] = "room" => seen'[q] + Size <= mine[q]
                 /\ ring_pc'[q] = "rest" => slots[Slot(mine[q])].seq = mine[q] + 1
      <3>0. q \in Producers
        BY DEF Pushers
      <3>1. CASE q = p
        BY <1>0, <1>2, <3>0, <3>1 DEF PushInv
      <3>2. CASE q # p
        BY <1>0, <1>2, <3>0, <3>2 DEF PushInv
      <3> QED BY <3>1, <3>2
    <2> QED BY <1>3, <2>1 DEF PushInv, Slot
  <1>6. SlotInv'
    BY <1>0, <1>3 DEF SlotInv, Hasty, Slot, Whole
  <1> QED BY <1>2, <1>4, <1>5, <1>6 DEF RingSound

\* The tail is not beyond the position of the push, so that the difference does not
\* wrap: the ring is found full only if it is.
LEMMA PushCheckStep ==
    ASSUME RingSound, NEW p \in Producers, PushCheck(p) PROVE RingSound'
  <1>0. RingTypeOK /\ PushInv /\ p \in Pushers
    BY DEF RingSound, PushCheck, Pushers
  <1>1. /\ seen' = [seen EXCEPT ![p] = tail]
        /\ head' = head /\ tail' = tail /\ slots' = slots /\ mine' = mine
        /\ entry_out' = entry_out /\ got' = got
    BY DEF PushCheck
  <1>2. /\ head \in Nat /\ tail \in Nat /\ tail <= head /\ head <= MaxPush /\ MaxPush \in Nat
        /\ Size \in Nat /\ mine[p] \in Nat
    BY <1>0, RingNumbers
  <1>3. mine[p] < head /\ tail <= mine[p] /\ \A q \in Pushers : tail <= mine[q]
    BY <1>0 DEF PushInv
  <1>4. mine[p] - tail \in Nat /\ Word(mine[p] - tail) = mine[p] - tail
    BY <1>2, <1>3, RingWord
  <1>5. PICK s \in {"room", "fill"} : Moved(p, s) /\ (s = "room" => mine[p] - tail >= Size)
    BY <1>4 DEF PushCheck, IsFull, Moved
  <1>6. s \in PushStages \ {"idle", "rest"}
    BY DEF PushStages
  <1>7. seen' \in [Producers -> Nat] /\ seen'[p] = tail /\ \A q \in Producers : q # p => seen'[q] = seen[q]
    BY <1>0, <1>1, <1>2 DEF RingTypeOK
  <1>8. s = "room" => seen'[p] + Size <= mine[p]
    BY <1>2, <1>5, <1>7
  <1> QED BY <1>0, <1>1, <1>2, <1>3, <1>5, <1>6, <1>7, <1>8, PushQuiet

\* Room is made up to a position that no push under way is behind.
LEMMA RoomTail ==
    ASSUME RingSound, NEW p \in Pushers, ring_pc[p] = "room"
    PROVE  /\ RoomFor(mine[p]) = mine[p] - Size + 1 /\ RoomFor(mine[p]) \in Nat
           /\ tail = seen[p] => tail < RoomFor(mine[p])
           /\ RoomFor(mine[p]) <= head /\ \A q \in Pushers : RoomFor(mine[p]) <= mine[q]
  <1>0. RingTypeOK /\ PushInv /\ p \in Producers
    BY DEF RingSound, Pushers
  <1>1. /\ head \in Nat /\ tail \in Nat /\ tail <= head /\ head <= MaxPush /\ MaxPush \in Nat
        /\ Size \in Nat /\ Size >= 1 /\ mine[p] \in Nat /\ seen[p] \in Nat
    BY <1>0, RingNumbers
  <1>2. mine[p] < head /\ seen[p] + Size <= mine[p]
    BY <1>0 DEF PushInv
  <1>3. mine[p] - Size + 1 \in Nat /\ mine[p] - Size + 1 <= MaxPush + Size
    BY <1>1, <1>2
  <1>4. RoomFor(mine[p]) = mine[p] - Size + 1
    BY <1>3, RingWord DEF RoomFor
  <1>5. \A q \in Pushers : mine[q] \in Nat /\ head <= mine[q] + Size
    BY <1>0, RingNumbers DEF PushInv, Pushers
  <1> QED BY <1>1, <1>2, <1>3, <1>4, <1>5

\* Moving the tail passes no push under way.
LEMMA PushMakeRoomStep ==
    ASSUME RingSound, NEW p \in Producers, PushMakeRoom(p) PROVE RingSound'
  <1>0. RingTypeOK /\ PushInv /\ p \in Pushers /\ ring_pc[p] = "room"
    BY DEF RingSound, PushMakeRoom, Pushers
  <1>1. /\ tail' = IF tail = seen[p] THEN RoomFor(mine[p]) ELSE tail
        /\ Moved(p, "fill") /\ head' = head /\ slots' = slots /\ mine' = mine
        /\ entry_out' = entry_out /\ got' = got /\ seen' = seen
    BY DEF PushMakeRoom, Moved
  <1>2. head \in Nat /\ tail \in Nat /\ tail <= head
    BY <1>0, RingNumbers
  <1>3. /\ tail' \in Nat /\ tail <= tail' /\ tail' <= head
        /\ \A q \in Pushers : tail' <= mine[q]
    <2>1. CASE tail = seen[p]
      BY <1>0, <1>1, <1>2, <2>1, RoomTail
    <2>2. CASE tail # seen[p]
      BY <1>0, <1>1, <1>2, <2>2 DEF PushInv
    <2> QED BY <2>1, <2>2
  <1>4. "fill" \in PushStages \ {"idle", "rest"} /\ seen' \in [Producers -> Nat]
    BY <1>0, <1>1 DEF PushStages, RingTypeOK
  <1> QED BY <1>0, <1>1, <1>3, <1>4, PushQuiet

\* The two halves of an entry are written to the slot of the push, and to no other.
LEMMA SlotWritten ==
    ASSUME slots \in [0..(Size - 1) -> RingEntry], NEW q \in Nat, NEW v \in Nat,
           \/ slots' = [slots EXCEPT ![Slot(q)].seq = v]
           \/ slots' = [slots EXCEPT ![Slot(q)].rest = v]
    PROVE  /\ slots' \in [0..(Size - 1) -> RingEntry]
           /\ \A i \in 0..(Size - 1) : i # Slot(q) => slots'[i] = slots[i]
           /\ slots' = [slots EXCEPT ![Slot(q)].seq = v] => slots'[Slot(q)].seq = v
           /\ slots' = [slots EXCEPT ![Slot(q)].rest = v] =>
                slots'[Slot(q)] = [seq |-> slots[Slot(q)].seq, rest |-> v]
  <1>1. Slot(q) \in 0..(Size - 1)
    BY RingSlot
  <1>2. slots[Slot(q)] \in RingEntry
    BY <1>1
  <1>3. CASE slots' = [slots EXCEPT ![Slot(q)].seq = v]
    <2> DEFINE e == [slots[Slot(q)] EXCEPT !.seq = v]
    <2>1. e \in RingEntry /\ e.seq = v /\ slots' = [slots EXCEPT ![Slot(q)] = e]
      BY <1>2, <1>3 DEF RingEntry
    <2>2. slots'[Slot(q)] = e
      BY <1>1, <2>1
    <2>3. ASSUME slots' = [slots EXCEPT ![Slot(q)].rest = v]
          PROVE  slots'[Slot(q)] = [seq |-> slots[Slot(q)].seq, rest |-> v]
      <3>1. slots'[Slot(q)] = [slots[Slot(q)] EXCEPT !.rest = v]
        BY <1>1, <2>3
      <3> QED BY <1>2, <3>1 DEF RingEntry
    <2> HIDE DEF e
    <2> QED BY <1>1, <2>1, <2>2, <2>3
  <1>4. CASE slots' = [slots EXCEPT ![Slot(q)].rest = v]
    <2> DEFINE e == [slots[Slot(q)] EXCEPT !.rest = v]
    <2>1. /\ e \in RingEntry /\ slots' = [slots EXCEPT ![Slot(q)] = e]
          /\ e = [seq |-> slots[Slot(q)].seq, rest |-> v]
      BY <1>2, <1>4 DEF RingEntry
    <2>2. slots'[Slot(q)] = e
      BY <1>1, <2>1
    <2>3. ASSUME slots' = [slots EXCEPT ![Slot(q)].seq = v] PROVE slots'[Slot(q)].seq = v
      <3>1. slots'[Slot(q)] = [slots[Slot(q)] EXCEPT !.seq = v]
        BY <1>1, <2>3
      <3> QED BY <1>2, <3>1 DEF RingEntry
    <2> HIDE DEF e
    <2> QED BY <1>1, <2>1, <2>2, <2>3
  <1> QED BY <1>3, <1>4

\* Push p writes its slot: every other position of the last Size keeps its own.
LEMMA PushWrites ==
    ASSUME RingSound, NEW p \in Pushers, NEW s \in {"rest", "idle"}, Moved(p, s),
           head' = head, tail' = tail, mine' = mine, seen' = seen, entry_out' = entry_out, got' = got,
           slots' \in [0..(Size - 1) -> RingEntry],
           \A i \in 0..(Size - 1) : i # Slot(mine[p]) => slots'[i] = slots[i],
           s = "rest" => slots'[Slot(mine[p])].seq = mine[p] + 1,
           s = "idle" => slots'[Slot(mine[p])] = Whole(mine[p])
    PROVE  RingSound'
  <1>0. RingTypeOK /\ PushInv /\ SlotInv /\ p \in Producers
    BY DEF RingSound, Pushers
  <1>1. head \in Nat /\ tail \in Nat /\ tail <= head /\ head <= MaxPush /\ MaxPush \in Nat /\ Size \in Nat
    BY <1>0, RingNumbers
  <1>2. s \in PushStages
    BY DEF PushStages
  <1>3. /\ ring_pc' \in [Producers \cup Consumers -> PushStages \cup PopStages]
        /\ \A q \in Producers : ring_pc'[q] = IF q = p THEN s ELSE ring_pc[q]
        /\ \A q \in Producers : ring_pc'[q] \in PushStages
        /\ \A c \in Consumers : ring_pc'[c] \in PopStages
        /\ \A q \in Producers : q \in Pushers' <=> (IF q = p THEN s # "idle" ELSE q \in Pushers)
        /\ PopInv' /\ GotInv'
    <2>1. /\ head' \in Nat /\ head <= head' /\ tail' \in Nat /\ tail <= tail'
          /\ \A c \in Consumers : mine'[c] = mine[c]
      BY <1>1
    <2> QED BY <1>0, <1>2, <2>1, PushFrame
  <1>4. RingTypeOK'
    BY <1>0, <1>3 DEF RingTypeOK
  <1>5. ASSUME NEW q \in Nat, q < head, head <= q + Size, q # mine[p] PROVE slots'[Slot(q)] = slots[Slot(q)]
    <2>1. mine[p] \in Nat /\ mine[p] < head /\ head <= mine[p] + Size
      BY <1>0, RingNumbers DEF PushInv
    <2>2. Slot(q) \in 0..(Size - 1) /\ Slot(q) # Slot(mine[p])
      <3>1. mine[p] - q < Size /\ q - mine[p] < Size
        BY <1>1, <1>5, <2>1
      <3> QED BY <1>5, <2>1, <3>1, RingSlot
    <2> QED BY <2>2
  <1>6. \A q \in Pushers' : q \in Pushers /\ q \in Producers /\ (q = p => s = "rest")
    BY <1>3 DEF Pushers
  <1>7. PushInv'
    <2>1. ASSUME NEW q \in Pushers'
          PROVE  /\ mine[q] < head /\ head <= mine[q] + Size /\ tail <= mine[q]
                 /\ \A r \in Pushers' : q # r => mine[q] # mine[r]
                 /\ ring_pc'[q] = "room" => seen[q] + Size <= mine[q]
                 /\ ring_pc'[q] = "rest" => slots'[Slot(mine[q])].seq = mine[q] + 1
      <3>1. CASE q = p
        BY <1>0, <1>3, <1>6, <3>1 DEF PushInv
      <3>2. CASE q # p
        <4>1. mine[q] \in Nat /\ mine[q] < head /\ head <= mine[q] + Size /\ mine[q] # mine[p]
          BY <1>0, <1>6, <3>2, RingNumbers DEF PushInv
        <4>2. slots'[Slot(mine[q])] = slots[Slot(mine[q])]
          BY <1>5, <4>1
        <4>3. ring_pc'[q] = ring_pc[q] /\ q \in Pushers
          BY <1>3, <1>6, <3>2
        <4> QED BY <1>0, <1>6, <4>1, <4>2, <4>3 DEF PushInv
      <3> QED BY <3>1, <3>2
    <2> QED BY <2>1 DEF PushInv, Slot
  <1>8. ASSUME NEW q \in 0..(head - 1), head <= q + Size, ~Hasty(q)' PROVE slots'[Slot(q)] = Whole(q)
    <2>1. CASE q = mine[p]
      <3>1. p \notin Pushers'
        BY <1>8, <2>1 DEF Hasty
      <3>2. s = "idle"
        BY <1>0, <1>3, <3>1
      <3> QED BY <2>1, <3>2
    <2>2. CASE q # mine[p]
      <3>1. ASSUME NEW r \in Pushers, mine[r] = q PROVE FALSE
        <4>1. r \in Pushers'
          BY <1>3, <2>2, <3>1 DEF Pushers
        <4> QED BY <1>8, <3>1, <4>1 DEF Hasty
      <3>2. ~Hasty(q)
        BY <3>1 DEF Hasty
      <3>3. q \in Nat /\ q < head
        BY <1>1
      <3> QED BY <1>0, <1>5, <1>8, <2>2, <3>2, <3>3 DEF SlotInv
    <2> QED BY <2>1, <2>2
  <1>9. SlotInv'
    BY <1>8 DEF SlotInv, Slot, Whole
  <1> QED BY <1>3, <1>4, <1>7, <1>9 DEF RingSound

\* The two halves of the entry are written in turn.
LEMMA PushFillStep ==
    ASSUME RingSound, NEW p \in Producers, PushFill(p) \/ PushFillRest(p) PROVE RingSound'
  <1>0. RingTypeOK /\ PushInv /\ p \in Pushers
    BY DEF RingSound, PushFill, PushFillRest, Pushers
  <1>1. /\ head \in Nat /\ head <= MaxPush /\ MaxPush \in Nat /\ Size \in Nat /\ Size >= 1
        /\ mine[p] \in Nat /\ mine[p] < head
    BY <1>0, RingNumbers DEF PushInv
  <1>2. Word(mine[p] + 1) = mine[p] + 1 /\ mine[p] + 1 \in Nat
    BY <1>1, RingWord
  <1>3. slots \in [0..(Size - 1) -> RingEntry]
    BY <1>0 DEF RingTypeOK
  <1>4. CASE PushFill(p)
    <2>1. /\ slots' = [slots EXCEPT ![Slot(mine[p])].seq = mine[p] + 1] /\ Moved(p, "rest")
          /\ head' = head /\ tail' = tail /\ mine' = mine /\ seen' = seen
          /\ entry_out' = entry_out /\ got' = got
      BY <1>2, <1>4 DEF PushFill, Moved
    <2>2. /\ slots' \in [0..(Size - 1) -> RingEntry]
          /\ \A i \in 0..(Size - 1) : i # Slot(mine[p]) => slots'[i] = slots[i]
          /\ slots'[Slot(mine[p])].seq = mine[p] + 1
      BY <1>1, <1>2, <1>3, <2>1, SlotWritten
    <2> QED BY <1>0, <2>1, <2>2, PushWrites
  <1>5. CASE PushFillRest(p)
    <2>1. /\ slots' = [slots EXCEPT ![Slot(mine[p])].rest = mine[p] + 1] /\ Moved(p, "idle")
          /\ head' = head /\ tail' = tail /\ mine' = mine /\ seen' = seen
          /\ entry_out' = entry_out /\ got' = got
      BY <1>2, <1>5 DEF PushFillRest, Moved
    <2>2. slots[Slot(mine[p])].seq = mine[p] + 1
      BY <1>0, <1>5 DEF PushInv, PushFillRest
    <2>3. /\ slots' \in [0..(Size - 1) -> RingEntry]
          /\ \A i \in 0..(Size - 1) : i # Slot(mine[p]) => slots'[i] = slots[i]
          /\ slots'[Slot(mine[p])] = [seq |-> slots[Slot(mine[p])].seq, rest |-> mine[p] + 1]
      BY <1>1, <1>2, <1>3, <2>1, SlotWritten
    <2>4. slots'[Slot(mine[p])] = Whole(mine[p])
      BY <2>2, <2>3 DEF Whole
    <2> QED BY <1>0, <2>1, <2>3, <2>4, PushWrites
  <1> QED BY <1>4, <1>5

\* A step of pop c that claims nothing: its tail is read, its head is read, or its
\* compare-and-swap fails.
LEMMA PopQuiet ==
    ASSUME RingSound, NEW c \in Consumers \ Claimed, NEW s \in {"idle", "head", "claim"}, Moved(c, s),
           head' = head, tail' = tail, slots' = slots, seen' = seen, entry_out' = entry_out, got' = got,
           mine' \in [Producers \cup Consumers -> Nat],
           \A a \in Producers \cup Consumers : a # c => mine'[a] = mine[a],
           s = "claim" => mine'[c] < head
    PROVE  RingSound'
  <1>0. RingTypeOK /\ PushInv /\ PopInv /\ GotInv
    BY DEF RingSound
  <1>1. \A p \in Producers : p # c /\ mine'[p] = mine[p]
    BY RingAssumption
  <1>2. /\ ring_pc' \in [Producers \cup Consumers -> PushStages \cup PopStages]
        /\ \A p \in Producers : ring_pc'[p] \in PushStages
        /\ \A d \in Consumers : ring_pc'[d] = IF d = c THEN s ELSE ring_pc[d]
        /\ \A d \in Consumers : ring_pc'[d] \in PopStages
        /\ head' \in 0..MaxPush /\ tail' \in 0..head'
        /\ PushInv' /\ SlotInv'
    <2>1. s \in PopStages
      BY DEF PopStages
    <2>2. tail' \in Nat /\ tail' <= head /\ \A p \in Pushers : tail' <= mine[p]
      BY <1>0, RingNumbers DEF PushInv
    <2> QED BY <1>1, <2>1, <2>2, PopFrame
  <1>3. RingTypeOK'
    BY <1>0, <1>2 DEF RingTypeOK
  <1>4. Claimed' = Claimed
    BY <1>2 DEF Claimed
  <1>5. \A d \in Claimed : d \in Consumers /\ mine'[d] = mine[d]
    BY DEF Claimed
  <1>6. PopInv'
    <2>1. ASSUME NEW d \in Consumers
          PROVE  /\ ring_pc'[d] = "claim" => mine'[d] < head
                 /\ d \in Claimed => mine'[d] < tail
                 /\ ring_pc'[d] = "copyrest" /\ head <= mine'[d] + Size => entry_out[d] = Whole(mine'[d])
      <3>1. CASE d = c
        BY <1>2, <3>1
      <3>2. CASE d # c
        BY <1>0, <1>2, <3>2 DEF PopInv
      <3> QED BY <3>1, <3>2
    <2> QED BY <1>4, <2>1 DEF PopInv, Whole
  <1>7. GotInv'
    <2>1. \A d \in Consumers : Positions(d)' = Positions(d)
      BY DEF Positions
    <2> QED BY <1>0, <1>4, <1>5, <2>1 DEF GotInv
  <1> QED BY <1>2, <1>3, <1>6, <1>7 DEF RingSound

\* The steps of a pop up to its compare-and-swap, when that fails.
LEMMA PopLookStep ==
    ASSUME RingSound, NEW c \in Consumers,
           PopTail(c) \/ PopHead(c) \/ (PopClaim(c) /\ tail # mine[c])
    PROVE  RingSound'
  <1>0. RingTypeOK /\ PopInv
    BY DEF RingSound
  <1>1. /\ head \in Nat /\ tail \in Nat /\ tail <= head /\ mine[c] \in Nat
        /\ mine \in [Producers \cup Consumers -> Nat]
    BY <1>0, RingNumbers DEF RingTypeOK
  <1>2. c \in Consumers \ Claimed
    BY DEF Claimed, PopTail, PopHead, PopClaim
  <1>3. CASE PopTail(c)
    <2>1. /\ mine' = [mine EXCEPT ![c] = tail] /\ Moved(c, "head")
          /\ head' = head /\ tail' = tail /\ slots' = slots /\ seen' = seen
          /\ entry_out' = entry_out /\ got' = got
      BY <1>3 DEF PopTail, Moved
    <2>2. /\ mine' \in [Producers \cup Consumers -> Nat]
          /\ \A a \in Producers \cup Consumers : a # c => mine'[a] = mine[a]
      BY <1>1, <2>1
    <2> QED BY <1>2, <2>1, <2>2, PopQuiet
  <1>4. CASE PopHead(c)
    <2>1. /\ mine' = mine
          /\ head' = head /\ tail' = tail /\ slots' = slots /\ seen' = seen
          /\ entry_out' = entry_out /\ got' = got
      BY <1>4 DEF PopHead
    <2>2. PICK s \in {"idle", "claim"} : Moved(c, s) /\ (s = "claim" => mine[c] < head)
      <3>1. CASE mine[c] >= head
        BY <1>4, <3>1 DEF PopHead, Moved
      <3>2. CASE mine[c] < head
        <4>1. ~(mine[c] >= head)
          BY <1>1, <3>2
        <4> QED BY <1>4, <3>2, <4>1 DEF PopHead, Moved
      <3> QED BY <1>1, <3>1, <3>2
    <2> QED BY <1>1, <1>2, <2>1, <2>2, PopQuiet
  <1>5. CASE PopClaim(c) /\ tail # mine[c]
    <2>1. /\ mine' = mine /\ Moved(c, "idle")
          /\ head' = head /\ tail' = tail /\ slots' = slots /\ seen' = seen
          /\ entry_out' = entry_out /\ got' = got
      BY <1>5 DEF PopClaim, Moved
    <2> QED BY <1>1, <1>2, <2>1, PopQuiet
  <1> QED BY <1>3, <1>4, <1>5

\* The compare-and-swap takes the first position there is, and it is nobody else's.
LEMMA PopClaimStep ==
    ASSUME RingSound, NEW c \in Consumers, PopClaim(c), tail = mine[c], ~strayed'
    PROVE  RingSound'
  <1>0. RingTypeOK /\ PushInv /\ PopInv /\ GotInv
    BY DEF RingSound
  <1>1. /\ ring_pc[c] = "claim" /\ tail' = Word(tail + 1) /\ Moved(c, "copy") /\ ~Hasty(tail)
        /\ head' = head /\ slots' = slots /\ mine' = mine /\ seen' = seen
        /\ entry_out' = entry_out /\ got' = got
    BY DEF PopClaim, Moved
  <1>2. /\ head \in Nat /\ tail \in Nat /\ tail <= head /\ head <= MaxPush /\ MaxPush \in Nat
        /\ Size \in Nat /\ Size >= 1 /\ \A a \in Producers \cup Consumers : mine[a] \in Nat
    BY <1>0, RingNumbers
  <1>3. mine[c] < head /\ tail' = tail + 1
    <2>1. mine[c] < head
      BY <1>0, <1>1 DEF PopInv
    <2> QED BY <1>1, <1>2, <2>1, RingWord
  <1>4. tail' \in Nat /\ tail' <= head /\ \A p \in Pushers : tail' <= mine[p]
    <2>1. \A p \in Pushers : mine[p] \in Nat /\ tail <= mine[p] /\ mine[p] # tail
      BY <1>0, <1>1, <1>2 DEF PushInv, Hasty, Pushers
    <2> QED BY <1>2, <1>3, <2>1
  <1>5. /\ ring_pc' \in [Producers \cup Consumers -> PushStages \cup PopStages]
        /\ \A p \in Producers : ring_pc'[p] \in PushStages
        /\ \A d \in Consumers : ring_pc'[d] = IF d = c THEN "copy" ELSE ring_pc[d]
        /\ \A d \in Consumers : ring_pc'[d] \in PopStages
        /\ head' \in 0..MaxPush /\ tail' \in 0..head'
        /\ PushInv' /\ SlotInv'
    <2>1. "copy" \in PopStages
      BY DEF PopStages
    <2> QED BY <1>1, <1>4, <2>1, PopFrame
  <1>6. RingTypeOK'
    BY <1>0, <1>1, <1>5 DEF RingTypeOK
  <1>7. \A d \in Consumers : d \in Claimed' <=> d = c \/ d \in Claimed
    BY <1>5 DEF Claimed
  <1>8. PopInv'
    <2>1. ASSUME NEW d \in Consumers
          PROVE  /\ ring_pc'[d] = "claim" => mine[d] < head
                 /\ d \in Claimed' => mine[d] < tail'
                 /\ ring_pc'[d] = "copyrest" /\ head <= mine[d] + Size => entry_out[d] = Whole(mine[d])
      <3>1. CASE d = c
        BY <1>2, <1>3, <1>5, <3>1
      <3>2. CASE d # c
        BY <1>0, <1>2, <1>3, <1>5, <1>7, <3>2 DEF PopInv
      <3> QED BY <3>1, <3>2
    <2> QED BY <1>1, <2>1 DEF PopInv, Whole
  <1>9. GotInv'
    <2>1. \A d \in Consumers : Positions(d)' = Positions(d)
      BY <1>1 DEF Positions
    <2>2. \A d \in Consumers : \A i \in 1..Len(got[d]) : got[d][i].pos \in Nat /\ got[d][i].pos < tail
      BY <1>0, GotNumbers DEF GotInv
    <2>3. \A d \in Consumers : tail \notin Positions(d)
      BY <1>2, <2>2 DEF Positions
    <2>4. \A d \in Claimed : d \in Consumers /\ mine[d] \in Nat /\ mine[d] < tail
      BY <1>0, <1>2 DEF PopInv, Claimed
    <2>5. ASSUME NEW d \in Consumers, NEW i \in 1..Len(got[d])
          PROVE  /\ got[d][i].pos < tail'
                 /\ ~got[d][i].lapped => /\ got[d][i].seq = got[d][i].pos + 1
                                         /\ got[d][i].rest = got[d][i].pos + 1
                 /\ d \in Claimed' => got[d][i].pos < mine[d]
                 /\ i > 1 => got[d][i - 1].pos < got[d][i].pos
      <3>1. got[d][i].pos < tail'
        BY <1>2, <1>3, <2>2
      <3>2. d \in Claimed' => got[d][i].pos < mine[d]
        BY <1>0, <1>7, <2>2 DEF GotInv
      <3> QED BY <1>0, <3>1, <3>2 DEF GotInv
    <2>6. ASSUME NEW d \in Consumers, NEW e \in Consumers, d # e
          PROVE  /\ Positions(d) \cap Positions(e) = {}
                 /\ d \in Claimed' => mine[d] \notin Positions(e)
                 /\ d \in Claimed' /\ e \in Claimed' => mine[d] # mine[e]
      <3>1. Positions(d) \cap Positions(e) = {}
        BY <1>0, <2>6 DEF GotInv
      <3>2. d \in Claimed' => mine[d] \notin Positions(e)
        BY <1>0, <1>7, <2>3, <2>6 DEF GotInv
      <3>3. d \in Claimed' /\ e \in Claimed' => mine[d] # mine[e]
        BY <1>0, <1>2, <1>7, <2>4, <2>6 DEF GotInv
      <3> QED BY <3>1, <3>2, <3>3
    <2> QED BY <1>1, <2>1, <2>5, <2>6 DEF GotInv
  <1> QED BY <1>5, <1>6, <1>8, <1>9 DEF RingSound

\* The claimed position is before the tail, so its push is over: what is copied is
\* whole unless the slot was claimed again.
LEMMA ClaimedWhole ==
    ASSUME RingSound, NEW c \in Claimed, head <= mine[c] + Size
    PROVE  slots[Slot(mine[c])] = Whole(mine[c])
  <1>0. RingTypeOK /\ PushInv /\ SlotInv /\ PopInv /\ c \in Consumers
    BY DEF RingSound, Claimed
  <1>1. /\ head \in Nat /\ tail \in Nat /\ tail <= head
        /\ \A a \in Producers \cup Consumers : mine[a] \in Nat
    BY <1>0, RingNumbers
  <1>2. mine[c] < tail
    BY <1>0 DEF PopInv
  <1>3. mine[c] \in 0..(head - 1)
    BY <1>0, <1>1, <1>2
  <1>4. \A p \in Pushers : mine[p] \in Nat /\ tail <= mine[p]
    BY <1>0, <1>1 DEF PushInv, Pushers
  <1>5. ~Hasty(mine[c])
    BY <1>0, <1>1, <1>2, <1>4 DEF Hasty
  <1> QED BY <1>0, <1>3, <1>5 DEF SlotInv

\* The first half of the copy.
LEMMA PopCopyStep ==
    ASSUME RingSound, NEW c \in Consumers, PopCopy(c) PROVE RingSound'
  <1>0. RingTypeOK /\ PushInv /\ PopInv /\ GotInv
    BY DEF RingSound
  <1>1. /\ ring_pc[c] = "copy" /\ Moved(c, "copyrest")
        /\ entry_out' = [entry_out EXCEPT ![c] = slots[Slot(mine[c])]]
        /\ head' = head /\ tail' = tail /\ slots' = slots /\ mine' = mine /\ seen' = seen /\ got' = got
    BY DEF PopCopy, Moved
  <1>2. mine[c] \in Nat /\ tail \in Nat /\ tail <= head
    BY <1>0, RingNumbers
  <1>3. slots[Slot(mine[c])] \in RingEntry
    BY <1>0, <1>2, RingSlot DEF RingTypeOK
  <1>4. /\ entry_out' \in [Consumers -> RingEntry] /\ entry_out'[c] = slots[Slot(mine[c])]
        /\ \A d \in Consumers : d # c => entry_out'[d] = entry_out[d]
    BY <1>0, <1>1, <1>3 DEF RingTypeOK
  <1>5. /\ ring_pc' \in [Producers \cup Consumers -> PushStages \cup PopStages]
        /\ \A p \in Producers : ring_pc'[p] \in PushStages
        /\ \A d \in Consumers : ring_pc'[d] = IF d = c THEN "copyrest" ELSE ring_pc[d]
        /\ \A d \in Consumers : ring_pc'[d] \in PopStages
        /\ head' \in 0..MaxPush /\ tail' \in 0..head'
        /\ PushInv' /\ SlotInv'
    <2>1. "copyrest" \in PopStages
      BY DEF PopStages
    <2>2. \A p \in Pushers : tail' <= mine[p]
      BY <1>0, <1>1 DEF PushInv
    <2> QED BY <1>1, <1>2, <2>1, <2>2, PopFrame
  <1>6. RingTypeOK'
    BY <1>0, <1>1, <1>4, <1>5 DEF RingTypeOK
  <1>7. Claimed' = Claimed /\ c \in Claimed
    BY <1>1, <1>5 DEF Claimed
  <1>8. PopInv'
    <2>1. ASSUME NEW d \in Consumers
          PROVE  /\ ring_pc'[d] = "claim" => mine[d] < head
                 /\ d \in Claimed => mine[d] < tail
                 /\ ring_pc'[d] = "copyrest" /\ head <= mine[d] + Size => entry_out'[d] = Whole(mine[d])
      <3>1. CASE d = c
        BY <1>0, <1>4, <1>5, <1>7, <3>1, ClaimedWhole DEF PopInv
      <3>2. CASE d # c
        BY <1>0, <1>4, <1>5, <3>2 DEF PopInv
      <3> QED BY <3>1, <3>2
    <2> QED BY <1>1, <1>7, <2>1 DEF PopInv, Whole
  <1>9. GotInv'
    <2>1. \A d \in Consumers : Positions(d)' = Positions(d)
      BY <1>1 DEF Positions
    <2> QED BY <1>0, <1>1, <1>7, <2>1 DEF GotInv
  <1> QED BY <1>5, <1>6, <1>8, <1>9 DEF RingSound

\* The second half: the entry is handed out.
LEMMA PopCopyRestStep ==
    ASSUME RingSound, NEW c \in Consumers, PopCopyRest(c) PROVE RingSound'
  <1>0. RingTypeOK /\ PushInv /\ PopInv /\ GotInv
    BY DEF RingSound
  <1> DEFINE r == [pos |-> mine[c], seq |-> entry_out[c].seq, rest |-> slots[Slot(mine[c])].rest,
                   lapped |-> head > mine[c] + Size]
  <1>1. /\ ring_pc[c] = "copyrest" /\ Moved(c, "idle")
        /\ got' = [got EXCEPT ![c] = Append(@, r)]
        /\ head' = head /\ tail' = tail /\ slots' = slots /\ mine' = mine /\ seen' = seen
        /\ entry_out' = entry_out
    BY DEF PopCopyRest, Moved
  <1>2. mine[c] \in Nat /\ tail \in Nat /\ head \in Nat /\ Size \in Nat /\ tail <= head
    BY <1>0, RingNumbers
  <1>3. c \in Claimed
    BY <1>1 DEF Claimed
  <1>4. r \in Handed
    <2>1. slots[Slot(mine[c])] \in RingEntry /\ entry_out[c] \in RingEntry
      BY <1>0, <1>2, RingSlot DEF RingTypeOK
    <2>2. slots[Slot(mine[c])].rest \in Nat /\ entry_out[c].seq \in Nat
      BY <2>1 DEF RingEntry
    <2>3. (head > mine[c] + Size) \in BOOLEAN
      OBVIOUS
    <2> QED BY <1>2, <2>2, <2>3 DEF Handed
  <1>5. r.pos = mine[c] /\ (~r.lapped => r.seq = r.pos + 1 /\ r.rest = r.pos + 1)
    <2>1. r.pos = mine[c] /\ r.seq = entry_out[c].seq /\ r.rest = slots[Slot(mine[c])].rest
      OBVIOUS
    <2>2. r.lapped <=> head > mine[c] + Size
      BY Zenon
    <2>3. ASSUME head <= mine[c] + Size
          PROVE  entry_out[c].seq = mine[c] + 1 /\ slots[Slot(mine[c])].rest = mine[c] + 1
      <3>1. slots[Slot(mine[c])] = Whole(mine[c])
        BY <1>3, <2>3, ClaimedWhole
      <3>2. entry_out[c] = Whole(mine[c])
        BY <1>0, <1>1, <2>3 DEF PopInv
      <3> QED BY <3>1, <3>2 DEF Whole
    <2> HIDE DEF r
    <2> QED BY <1>2, <2>1, <2>2, <2>3
  <1> HIDE DEF r
  <1>6. /\ ring_pc' \in [Producers \cup Consumers -> PushStages \cup PopStages]
        /\ \A p \in Producers : ring_pc'[p] \in PushStages
        /\ \A d \in Consumers : ring_pc'[d] = IF d = c THEN "idle" ELSE ring_pc[d]
        /\ \A d \in Consumers : ring_pc'[d] \in PopStages
        /\ head' \in 0..MaxPush /\ tail' \in 0..head'
        /\ PushInv' /\ SlotInv'
    <2>1. "idle" \in PopStages
      BY DEF PopStages
    <2>2. \A p \in Pushers : tail' <= mine[p]
      BY <1>0, <1>1 DEF PushInv
    <2> QED BY <1>1, <1>2, <2>1, <2>2, PopFrame
  <1>7. /\ got' \in [Consumers -> Seq(Handed)]
        /\ \A d \in Consumers : d # c => got'[d] = got[d]
        /\ got'[c] = Append(got[c], r)
    <2>1. got \in [Consumers -> Seq(Handed)]
      BY <1>0 DEF RingTypeOK, Handed
    <2>2. Append(got[c], r) \in Seq(Handed)
      BY <1>4, <2>1
    <2> QED BY <1>1, <2>1, <2>2
  <1>8. RingTypeOK'
    BY <1>0, <1>1, <1>6, <1>7 DEF RingTypeOK, Handed
  <1>9. \A d \in Consumers : d \in Claimed' <=> d # c /\ d \in Claimed
    BY <1>6 DEF Claimed
  <1>10. PopInv'
    <2>1. ASSUME NEW d \in Consumers
          PROVE  /\ ring_pc'[d] = "claim" => mine[d] < head
                 /\ d \in Claimed' => mine[d] < tail
                 /\ ring_pc'[d] = "copyrest" /\ head <= mine[d] + Size => entry_out[d] = Whole(mine[d])
      <3>1. CASE d = c
        BY <1>6, <1>9, <3>1
      <3>2. CASE d # c
        BY <1>0, <1>6, <1>9, <3>2 DEF PopInv
      <3> QED BY <3>1, <3>2
    <2> QED BY <1>1, <2>1 DEF PopInv, Whole
  <1>11. GotInv'
    <2>1. /\ Len(got'[c]) = Len(got[c]) + 1 /\ Len(got[c]) \in Nat
          /\ \A i \in 1..Len(got[c]) : got'[c][i] = got[c][i]
          /\ got'[c][Len(got[c]) + 1] = r
      <3>1. got[c] \in Seq(Handed)
        BY <1>0 DEF RingTypeOK, Handed
      <3> QED BY <1>4, <1>7, <3>1
    <2>2. Positions(c)' = Positions(c) \cup {mine[c]}
      <3>1. \A x \in Positions(c)' : x \in Positions(c) \cup {mine[c]}
        <4>1. TAKE x \in Positions(c)'
        <4>2. PICK i \in 1..Len(got'[c]) : x = got'[c][i].pos
          BY <4>1 DEF Positions
        <4>3. CASE i <= Len(got[c])
          <5>1. i \in 1..Len(got[c]) /\ x = got[c][i].pos
            BY <2>1, <4>2, <4>3
          <5> QED BY <5>1 DEF Positions
        <4>4. CASE i > Len(got[c])
          <5>1. got'[c][i] = r
            BY <2>1, <4>2, <4>4
          <5> QED BY <1>5, <4>2, <5>1
        <4> QED BY <2>1, <4>3, <4>4
      <3>2. \A x \in Positions(c) : x \in Positions(c)'
        BY <2>1 DEF Positions
      <3>3. mine[c] \in Positions(c)'
        BY <1>5, <2>1 DEF Positions
      <3> QED BY <3>1, <3>2, <3>3
    <2>3. \A d \in Consumers : d # c => Positions(d)' = Positions(d)
      BY <1>7 DEF Positions
    <2>4. mine[c] < tail
      BY <1>0, <1>3 DEF PopInv
    <2>5. ASSUME NEW d \in Consumers, NEW i \in 1..Len(got'[d])
          PROVE  /\ got'[d][i].pos < tail
                 /\ ~got'[d][i].lapped => /\ got'[d][i].seq = got'[d][i].pos + 1
                                          /\ got'[d][i].rest = got'[d][i].pos + 1
                 /\ d \in Claimed' => got'[d][i].pos < mine[d]
                 /\ i > 1 => got'[d][i - 1].pos < got'[d][i].pos
      <3>1. CASE d # c
        BY <1>0, <1>7, <1>9, <3>1 DEF GotInv
      <3>2. CASE d = c /\ i <= Len(got[c])
        <4>1. i \in 1..Len(got[c]) /\ got'[c][i] = got[c][i]
          BY <2>1, <3>2
        <4>2. i > 1 => i - 1 \in 1..Len(got[c]) /\ got'[c][i - 1] = got[c][i - 1]
          BY <2>1, <4>1
        <4> QED BY <1>0, <1>9, <3>2, <4>1, <4>2 DEF GotInv
      <3>3. CASE d = c /\ i > Len(got[c])
        <4>1. i = Len(got[c]) + 1 /\ got'[c][i] = r
          BY <2>1, <3>3
        <4>2. i > 1 => i - 1 \in 1..Len(got[c]) /\ got'[c][i - 1] = got[c][i - 1]
          BY <2>1, <4>1
        <4>3. i > 1 => got'[c][i - 1].pos < mine[c]
          BY <1>0, <1>3, <4>2 DEF GotInv
        <4> QED BY <1>5, <1>9, <2>4, <3>3, <4>1, <4>3
      <3> QED BY <2>1, <3>1, <3>2, <3>3
    <2>6. ASSUME NEW d \in Consumers, NEW e \in Consumers, d # e
          PROVE  /\ Positions(d)' \cap Positions(e)' = {}
                 /\ d \in Claimed' => mine[d] \notin Positions(e)'
                 /\ d \in Claimed' /\ e \in Claimed' => mine[d] # mine[e]
      <3>1. /\ Positions(d) \cap Positions(e) = {}
            /\ d \in Claimed => mine[d] \notin Positions(e)
            /\ e \in Claimed => mine[e] \notin Positions(d)
            /\ d \in Claimed /\ e \in Claimed => mine[d] # mine[e]
        BY <1>0, <2>6 DEF GotInv
      <3>2. CASE d = c
        BY <1>3, <1>9, <2>2, <2>3, <2>6, <3>1, <3>2
      <3>3. CASE e = c
        BY <1>3, <1>9, <2>2, <2>3, <2>6, <3>1, <3>3
      <3>4. CASE d # c /\ e # c
        BY <1>9, <2>3, <3>1, <3>4
      <3> QED BY <3>2, <3>3, <3>4
    <2> QED BY <1>1, <2>5, <2>6 DEF GotInv
  <1> QED BY <1>6, <1>8, <1>10, <1>11 DEF RingSound

\* Every step keeps the ring sound until somebody strays.
LEMMA RingStep == ASSUME RingInv, [RingNext]_ring_vars PROVE RingInv'
  <1> SUFFICES ASSUME ~strayed' PROVE RingSound'
    BY DEF RingInv, RingSound
  <1>1. CASE UNCHANGED ring_vars
    <2>1. /\ head' = head /\ tail' = tail /\ slots' = slots /\ ring_pc' = ring_pc /\ mine' = mine
          /\ seen' = seen /\ entry_out' = entry_out /\ got' = got /\ strayed' = strayed
      BY <1>1 DEF ring_vars
    <2>2. RingTypeOK /\ PushInv /\ SlotInv /\ PopInv /\ GotInv
      BY <2>1 DEF RingInv
    <2>3. RingTypeOK' /\ PushInv' /\ SlotInv' /\ PopInv'
      BY <2>1, <2>2 DEF RingTypeOK, PushInv, SlotInv, PopInv, Pushers, Claimed, Hasty, Slot, Whole
    <2>4. GotInv'
      <3>1. Claimed' = Claimed /\ \A c \in Consumers : Positions(c)' = Positions(c)
        BY <2>1 DEF Claimed, Positions
      <3> QED BY <2>1, <2>2, <3>1 DEF GotInv
    <2> QED BY <2>3, <2>4 DEF RingSound
  <1>2. ASSUME NEW p \in Producers, Push(p) PROVE RingSound'
    <2>1. ~strayed
      BY <1>2 DEF Push, PushClaim, PushCheck, PushMakeRoom, PushFill, PushFillRest
    <2>2. RingSound
      BY <2>1 DEF RingInv, RingSound
    <2> QED BY <1>2, <2>2, PushClaimStep, PushCheckStep, PushMakeRoomStep, PushFillStep DEF Push
  <1>3. ASSUME NEW c \in Consumers, Pop(c) PROVE RingSound'
    <2>1. ~strayed
      BY <1>3 DEF Pop, PopTail, PopHead, PopClaim, PopCopy, PopCopyRest
    <2>2. RingSound
      BY <2>1 DEF RingInv, RingSound
    <2> QED BY <1>3, <2>2, PopLookStep, PopClaimStep, PopCopyStep, PopCopyRestStep DEF Pop
  <1> QED BY <1>1, <1>2, <1>3 DEF RingNext

\* With any number of producers and consumers, in any interleaving: as long as nobody
\* has claimed a position whose push was not over, ak_ring_pop has handed out every
\* position at most once, to each consumer in push order, and whole unless the slot
\* was claimed again during the copy.
THEOREM RingPopsSound == RingSpec => []PopsSound
  <1>1. ak_ring_init => RingInv
    BY RingInit DEF RingInv, RingSound
  <1>2. RingInv /\ [RingNext]_ring_vars => RingInv'
    BY RingStep
  <1>3. RingInv => PopsSound
    <2> SUFFICES ASSUME RingInv, ~strayed
                 PROVE  /\ \A c \in Consumers : \A i \in 1..Len(got[c]) :
                            /\ got[c][i].pos \in 0..(head - 1)
                            /\ ~got[c][i].lapped => /\ got[c][i].seq = got[c][i].pos + 1
                                                    /\ got[c][i].rest = got[c][i].pos + 1
                            /\ i > 1 => got[c][i - 1].pos < got[c][i].pos
                        /\ \A c, d \in Consumers : c # d => Positions(c) \cap Positions(d) = {}
      BY DEF PopsSound
    <2>1. RingTypeOK /\ GotInv
      BY DEF RingInv
    <2>2. ASSUME NEW c \in Consumers, NEW i \in 1..Len(got[c]) PROVE got[c][i].pos \in 0..(head - 1)
      <3>1. got[c][i].pos \in Nat /\ tail \in Nat /\ head \in Nat /\ tail <= head
        BY <2>1, RingNumbers, GotNumbers
      <3>2. got[c][i].pos < tail
        BY <2>1 DEF GotInv
      <3> QED BY <3>1, <3>2
    <2> QED BY <2>1, <2>2 DEF GotInv
  <1> QED BY <1>1, <1>2, <1>3, PTL DEF RingSpec
=============================================================================
