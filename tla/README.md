# Authority Kernel: TLA+ specification

TLA+ models of the authority kernel (`src/agentic/` of the repository, built on
the Nanos unikernel), checked with TLC on small instances and, where the claim
matters most, proved with TLAPS for every instance.  Paths below are relative to
the repository root; `ak_*.c` files are in `src/agentic/`.

## 1. The system

An agent's system call (numbers from 1024) enters `ak_syscall_handler`, becomes
a request of the root context and goes through the six stages of `ak_dispatch`:
validation, anti-replay, capability, policy and budget, execution, audit.  Only
the 22 files in `SRCS-agentic` of the platform Makefiles are part of the kernel;
the other `ak_*.c` files are not built and are left aside.

| Component | State | Operations | Interacts with | Hard behaviour |
|---|---|---|---|---|
| Audit log (`ak_audit.c`) | segments of hash-chained entries, head seq and hash, per-entry flushed mark, anchors, file offset, counters of the running batch | init, load, append, sync, write/flush completions, emit_anchor, verify, query | appended to by every request; file system below; capability revocations are logged in it | two appenders, batches that fail half-way and are retried, crash before fsync, torn and reordered writes, stale entries in the file, memory shortage, segment limit, spinning with the lock held |
| Ring buffer (`ak_audit.c`) | slots, head, tail, counters | push, pop, peek, drain, stats | pushed by network enforcement, drained by monitors | lock-free: claim, look, move tail and fill are separate; unsigned wrap; overwrite |
| Budget (`ak_budget.c`) | used and limit per resource, u64, spinlock | check, commit, reserve, release, consume, set_limit, history, breakdown | checked by policy and by handlers, charged by handlers and inference | check and commit apart; saturation; failures after the check |
| Dispatch and context (`ak_syscall.c`) | run_id, last_seq, tracker, policy, capabilities, registry of agents | dispatch, new_run, grant, revoke, spawn, crash and timeout handlers, 19 handlers | all others | no lock on the context; requests in flight while capabilities are revoked and runs begin |
| Sequence tracker (`ak_ipc.c`) | highest_seen, expected_next, window bitmap | create, check | stage 2 | unlocked read-modify-write, reordering, new runs |
| Rate limiter (`ak_capability.c`) | table of fixed-window counters | check, sweep, reset | capability scope check | clock read before the lock, full table, unsigned time differences |
| Capabilities (`ak_capability.c`) | keys, revocation table | create, delegate, verify, validate, export, import, revoke, rotate, reload | stage 3, WASM host calls | TTL against revocation retention, rotation, reload after reboot |
| Policy (`ak_policy.c`) | rules, signed boot policy | load, evaluate, check_tool/domain/flow | stage 4 | error codes the caller does not expect |
| Heap (`ak_heap.c`) | versioned objects, their history, counters, pointer generator, transactions | alloc, read, write (compare-and-swap), delete, batch, purge, snapshot, restore | handlers, state sync | conflicting writers, a batch that validates without the lock, purges, restores around tombstones |
| HTTPS transport (`ak_transport.c`, `klib/ak_https.c`) and inference (`ak_inference.c`) | latches: done, abandoned, status, lock; the context's `infer_handle` | request, complete, issue, poll | klib's `net_http_req` calls back on another CPU | a deadline against a late completion; who frees the latch |
| State sync (`ak_state.c`) and virtio proxy (`ak_virtio_proxy.c`) | dirty list and bitmap, anchors, the line channel; the files of the host | mark_dirty, sync, commit, shutdown, emit_anchor, hydrate | heap above, the host's akproxy daemon below | puts that fail with the record old, new or cut, restart at any point, answers of earlier requests |
| Inboxes and registry (`ak_syscall.c`), approval, WASM, network enforcement | queues, approvals with expiry | send, recv, spawn | handlers | unlocked lists |

What makes each correct: the log verifies, holds what was acknowledged and never
brings back what was lost; the ring hands out whole entries once and accounts for
the others; a budget is not exceeded and charged once per operation; a request
executes at most once, in its own run, under a capability that is not revoked; a
token is not admitted more often than its rate; a revoked capability stays revoked
and a live one verifies; no heap update is lost; every outbound request is answered
once and its latch freed once; what is not stored is known to be dirty.  PROJECT.json lists under
`hazards` the lines at which each of these could go wrong.

## 2. Modules

| Module | Models |
|---|---|
| `AuditSpec` | what the log promises: it grows, has a stable prefix, a reboot cuts it behind that prefix |
| `AuditLog` | `ak_audit.c` without the ring; refines `AuditSpec` |
| `AuditRing` | `ak_ring_*` at the grain of the atomic accesses |
| `AuditLogProof` | theorems on `AuditLog` and `AuditRing` |
| `Budget` | the tracker and the requests charged to it |
| `BudgetProof` | theorems on `Budget` |
| `RateLimit` | `ak_rate_limit_check` |
| `RateLimitProof` | theorems on `RateLimit` |
| `Dispatch` | `ak_dispatch` for one context, the sequence tracker, revocation |
| `DispatchProof` | theorems on `Dispatch` |
| `Transport` | `ak_transport.c` and its users: the synchronous request, `infer_issue` and `infer_poll` |
| `TransportProof` | theorems on `Transport` |
| `Heap` | `ak_heap.c` and the batches of `ak_handle_batch` |
| `HeapProof` | theorems on `Heap` |
| `Capability` | keys, TTL, delegation and revocation of `ak_capability.c` against the clock |
| `CapabilityProof` | theorems on `Capability` |
| `StateSync` | `ak_state.c` over the proxy's channel, the heap's users above and the host below |
| `StateSyncProof` | theorems on `StateSync` |
| `MC*` | sets of model values for the instances in the `.cfg` files |

Definitions keep the names of the C functions when a definition is a whole
function; when a function gives up a lock, waits, or reads unlocked state twice,
it is split at that point and `pc` says where each thread is.  Operators marked
"Mutant" are plausible bugs of the definition that follows them; nothing in a
specification uses them.

### AuditLog
A hash is the history it commits to (a sequence of contents), so equal hashes
mean equal histories; contents are numbers drawn once, since timestamps make no two
entries alike.  Offsets count slots.  The segments are one sequence with a
`Capacity` (`AK_LOG_SEGMENT_SIZE * AK_LOG_MAX_SEGMENTS`).  `AppendLocked` is
`ak_audit_append` up to its unlock; `SyncIssue`, the completions, `SyncFlush` and
`SyncFinish` are `ak_audit_sync`, between whose steps completions arrive in any
order; `Return` is the rest of append (anchor, return).  `acked` records what
append returned for.  `AppendFull` is the segment limit or no memory for a segment.

Of the page cache (`src/kernel/pagecache.c`) the model has what the log can meet:
writes not covered by an fsync land, tear or vanish independently (`WriteBack`, at
any time, and at a crash); the header and slot 1 share the first
sector and the header is written to it first.  Start-up calls `ak_audit_load`
before agents run (constant `LoadAtBoot`; the kernel itself does not, see
section 3), and after an error calls it again or reboots.  `Faults`
chooses what may fail: "io" (writes and fsync), "alloc" (memory in sync and for
anchors), "hash" (memory for an entry's canonical form), "read" (recovery reads, its
memory, opening the file).

### AuditRing
Positions wrap at `WordMod`; an entry is written and copied in two halves, which
is enough to see a torn one.  Pushes and pops interleave freely.  The history
variable `strayed` says that a position was claimed, by a pop or by a tail that
was moved, before its push was over: from there on the ring has no guarantee left
(section 3).  `got` records with each entry whether its slot had been claimed again
(`lapped`).  The ring's names carry a prefix of their own (`ring_pc`, `slots`,
`RingSpec`), so that `AuditLogProof` can extend both modules of `ak_audit.c`.

### Budget
Tracker operations are atomic (they hold `tracker->lock`); the policy's check,
the handler's check, the execution and each commit are separate steps.  `work`
counts what operations that were done have cost, independently of the tracker;
`unchecked` what batches, which nobody checks, were charged; `gratis` the part of
the work that is not charged (a call that is answered without a response object, the
tokens of `infer_issue`) and `forfeit` what failed operations are charged (error
responses, failed spawns).  Limits are constant (`ak_budget_set_limit` has no caller).
"reserved" is the reserve and release protocol that `ak_budget.c` offers and no handler uses.

### RateLimit
One limit and window for all tokens.  `ReadClock` is the clock read before the
lock, `Check` what is done under it, by any number of threads.  `admitted` is a history
of admissions; `stale` has the tokens of which a window was closed or opened with a
reading that an admission or the window itself had overtaken.

### Dispatch
One context, any number of threads.  `++last_seq` and `ak_seq_tracker_check` are a load and a store
each.  The tracker's bitmap is left out: both outcomes of reading it return
`AK_E_REPLAY`.  A capability is its token id and run, or `AnyRun` when its run_id is
zero; TTLs pass, and scope, signature and rate may refuse in addition.  The capabilities
a request can use are the one it carries, the root one or a delegated one, so any in
`caps`.  `ak_context_new_run` takes two steps (the new run_id, then the new tracker, or the old one when
memory is short) and may come while requests are between any two stages.  Revocations of
capabilities and runs may find no memory, and the sweep drops ids no live capability has.
`overtaken` is set when the tracker is used out of turn (`OutOfTurn`): two threads
between its test and its update, or a new run that replaces it under requests it has let
through or is about to check.  Stage 6 is `AuditLog`; here a request ends by going
back to "idle".

### Transport
A latch is shared by its caller and its completion; taking the lock, filling the
latch and setting `done` are one step, the unlock another, since `done` is read
without the lock.  Waiting is left by `SeeDone` or at any time by `Deadline`.
The handlers of `infer_issue` and `infer_poll` are split where they read or write
`ctx->infer_handle`, which no lock protects, and any thread may be a poller.  The
request ends as `klib/net_utils.c` ends it: with a callback at any time, or without
one when the host name does not resolve (`Unresolved`, `net_http_dns_cb`).  `Owners`
counts the parties that will free a latch, `misused` the latches touched after that;
`overlap` says that two inference calls have been under way at once, and a latch of
`infer_issue` is `Contested` from then on; a latch given up whose completion was
dropped is `Leaked`.

### Heap
The value of an object is the set of patches it is made of, so a lost or doubled
update is visible.  `acked` records each patch whose operation returned success, with the
version it was made for; `applied` those the objects are made of, `undone` those that a reboot or a
restore took out, so that nothing acknowledged is forgotten.  Operations hold
`heap_lock` and are one action each; memory may be short for the saved version, which
leaves a gap in the history, for a new object, also inside a commit, and for a restored one.
`CommitValidate` looks at the objects without the lock, `CommitApply` calls one
operation at a time and ignores its result, as `ak_heap_txn_commit` does.  Snapshot,
reboot and restore are actions of their own, in any order: a restore meets an empty heap
or one in use.  `rewound` has the objects with a history that a restore has replaced,
`dangling` the lists that a purge with `keep_count` 0 has left pointing to freed
entries.  The clock matters for tombstones only.

### Capability
Secrets are numbers drawn once; a MAC verifies under the secret that made it, and secrets
made from the boot seed (`seeded`) are the same one.  Time
is scaled: `Rotation`, `Grace` and `MaxTtl` are small numbers, and `WordMod` stands
for 2^64 so that unsigned differences wrap.  `ak_key_rotate` is split at its clock
read, and delegation lets time pass between its checks and the signature.  A revocation
is logged whether or not there is memory for its entry in the table; `lost` has the ids
that found none.  `Reboot`
starts the monotonic clock over, imports the exported keys (unless two live ones have one
kid, which the import refuses) or makes a new one, and
reloads those revocations it has memory for, with the times the log has.  Rate limiting
is `RateLimit`.

### StateSync
The heap is the value (object, version, tombstone) of each pointer.  The channel is
a queue of answers: `SyncPut` is the request and what the host does with it, `SyncAck` the
reading of the next line.  The host writes with `os.WriteFile`
(`tools/akproxy/main.go:369`), which truncates first: a write that fails leaves the record
as it was, new, or cut, and hydration takes a cut record for none (`Written`).  A
restart may come between any two steps.  `promised` records what commits were answered
durable.  Constants switch on further faults: `Index` (collisions of `ptr_to_index`),
`Concurrent` (writes during a sync), `AllocFails` (no memory for a line), `GetFails`
(hydration reads fail); the run has all of them.  `escaped` has the pointers with a change that the
dirty list may have missed, `missed` those of stored objects that hydration did not
bring back, `ruined` what was promised of a record that is gone.  The backend is virtio:
the others are refused by the code.  Nothing in the kernel calls `ak_state_*` yet; the
model assumes the use its functions are made for, that whoever changes an object
marks it dirty.

## 3. Runs
Passing runs:

| Run | Shows |
|---|---|
| `AuditLog_io` | 2 threads, 3 entries, 2 crashes, any write or fsync failing: types, chain, offsets, watermark, anchors, and the refinement of `AuditSpec` |
| `AuditLog_faults` | 2 threads, 3 requests to a log of 2 entries, 2 crashes; also partial batches from memory shortage, and recovery with read errors, memory shortage or no storage (the log is then in memory only, as it is in the kernel today); under fairness: the batch invariant, chain, anchors, and the lock is always released |
| `AuditLog_live` | no faults, 4 entries, 2 crashes: acknowledged entries are durable and recovered; every entry is flushed in the end |
| `AuditRing_one` | 1 producer, 2 consumers interleaving freely, ring of 2, 5 pushes (it overflows): until the ring strays, order, wholeness and statistics |
| `Budget_mixed` | 3 threads, every kind of request, u64 of 3 bits: the overshoot of calls, allocations and spawns is below the number of threads; reservations never pass a limit; counters saturate; operations are charged once, with the exceptions counted |
| `RateLimit_two` | 2 threads, 3 tokens, table of 2, a window of 2: table bounds; rate over every span of a window until a stale reading meets a window |
| `Dispatch_two` | 2 threads, 3 requests stamped by the kernel or with any run and seq, new runs under requests in flight, grants, expiry, revocations and sweeps: at most once until the tracker is used out of turn |
| `Transport_owner` | 2 threads that wait and poll, 2 latches, completions at any time or never: each latch has one owner and is freed once, each request is answered once, but for `Contested` and `Leaked` ones; under fairness waits end, and latches given up are freed once their completion comes |
| `Heap_restore` | writers against a batch, purges, and three snapshots, reboots or restores in any order, memory short at will: no lost update, faithful history, right counts |
| `Capability_time` | 2 key slots, 2 capabilities, a short boot and a long one, memory short for revocations at will: a capability of this boot never validates once its revocation found memory, a live one always verifies |
| `StateSync_faults` | 3 pointers of which two share a bit, 3 changes, also during a sync, 2 syncs, 2 restarts, every fault: what is not stored is dirty, no stored object is overtaken, completed syncs are durable, for all that did not escape |

Several of these properties end with a history variable (`strayed`, `stale`,
`overtaken`, `overlap`, `rewound`, `escaped`, ...).  Each names one thing the code does
not guard against, is set by the step at which it happens, whatever comes of it, and
restricts no action: the interleaving is in the run, and the property says that nothing
else goes wrong.  What does go wrong then is in the table of claims below.  The
run of the ring stops exploring once the ring has strayed (`CONSTRAINT NotStrayed`),
which is sound because straying lasts and both properties end with it.

A run that shows a disagreement between the code and what it says of itself (a
finding in PROJECT.json, with the quotation):

| Run | Shows |
|---|---|
| `AuditLog_inv4` | append returns after a failed sync: `ReturnedIsDurable` is violated |

Further claims of the code's own comments and documents are stated in the modules and
are violated in the same way.  Each has a configuration: `tlc -config <file>.cfg
MC<Module>` shows a counterexample.  A `*_claims.cfg` lists several claims under the same
constants; TLC stops at the first, and with that line removed shows the next.

| Claim | Configuration | What happens, where, and what the repository says |
|---|---|---|
| `EntriesPersist` | `AuditLog_boot` | The kernel's own start-up, which calls ak_audit_init and never ak_audit_load: entries that were acknowledged are not in the log after a reboot. `ak_audit.c:241`: nothing in the kernel calls ak_audit_load, so that after a reboot the log starts empty in memory; `ak_audit.c:26` says "Entries persist across reboots and recover on startup" |
| `ChainIntact` | `AuditLog_hash` | Memory for an entry's canonical form runs out: the entry is appended with a zero hash and the chain no longer verifies. `ak_audit.c:536`: when the canonical form cannot be allocated the entry keeps a zero hash and is appended all the same; `ak_syscall.c:514` says "Each committed transition appends a log entry whose hash chain validates from genesis to head." |
| `EveryAnswerLogged` | `AuditLog_unlogged` | At the segment limit a request is answered without an entry. `ak_audit.c:624`: ak_audit_append answers AK_E_LOG_FULL, ak_log_operation and ak_dispatch do not look at it, and the request is answered; `docs/architecture/authority-kernel.md:101` says "appends an entry to the hash-chained audit log for every dispatched request — successes and denials alike" |
| `PopsWholeOnce` | `AuditRing_claims` | A pop while its entry is being pushed hands out half of it. `ak_audit.c:1568`: head moves before the slot is filled and a pop copies without a sign that the push is over: it hands out a slot that is half written; `ak_audit.c:1482` says "Single-producer multi-consumer ring buffer using atomic operations." |
| `EmptyMeansEmpty` | `AuditRing_claims` | A pop between a push's claim and its look at the tail: the tail wraps past the head, and the ring answers empty from then on. `ak_audit.c:1514`: slot - tail wraps when a pop has passed slot, the push takes the ring for full and sets the tail to slot - SIZE + 1, a word near 2^64; `ak_audit.h:319` says "Returns: true if entry was returned, false if ring empty." |
| `HardLimit` | `Budget_claims` | Two threads pass the check of the last tool call before either commits. `ak_syscall.c:1484`: check, execution and commit are apart, and two threads pass the check together; `docs/security/invariants.md:97` says "commits are atomic so concurrent operations cannot race past it" |
| `OnlySuccessCharged` | `Budget_claims` | A tool that answers with an error is charged. `ak_syscall.c:1489`: ak_handle_call commits whenever ak_wasm_execute_tool returned a response, be it an error response; `ak_syscall.c:1491` says "FIX(BUG-053): Only commit budget on successful execution" |
| `TokensCharged` | `Budget_claims` | An inference issued asynchronously is checked and executed, and its tokens are charged by nobody. `ak_inference.c:2183`: neither ak_handle_infer_issue nor ak_handle_infer_poll commits the tokens of the request; `docs/security/invariants.md:92` says "POST: current' = current + c        (atomic commit)" |
| `RateNeverExceeded` | `RateLimit_stale` | A thread that read the clock before another one opened a window sees a difference that wraps, and opens the window again. `ak_capability.c:1023`: now_ms is read before the lock, and now_ms - window_start_ms is unsigned: a reading older than the window closes it; `docs/security/invariants.md:72` says "Rate limit not exceeded" |
| `ReplaysFail` | `Dispatch_claims` | Two threads draw one seq and are both past the tracker's test before either updates it: two requests with one run_id and seq execute. `ak_syscall.c:2451`: ++last_seq and ak_seq_tracker_check are a load and a store without a lock; `docs/architecture/authority-kernel.md:80` says "This makes replays of a captured request fail closed." |
| `RefusedWasSeen` | `Dispatch_claims` | A request stamped first and checked second is refused as a replay though the tracker has never let it through. `ak_ipc.c:756`: a seq at most highest_seen is answered AK_E_REPLAY whether or not it was seen; `ak_ipc.h:268` says "AK_E_REPLAY     - Sequence already seen" |
| `RevokedRunStops` | `Dispatch_claims` | A run is revoked, and its capabilities still let requests through. `ak_capability.c:719`: ak_capability_validate looks up the token id only; `ak_capability.c:875` says "validation checks both the specific capability AND its run_id against the revocation table" |
| `OnlyAllowedExecute` | `Dispatch_claims` | ak_policy_evaluate answers AK_E_TAINT, and the request executes. `ak_syscall.c:425`: ak_dispatch turns back two of ak_policy_evaluate's errors and goes on with the others; `docs/architecture/index.md:104` says "any failure short-circuits to audit and returns an error before the effect executes." |
| `NeverTouchedAfterFree` | `Transport_claims` | The caller sees done and frees the latch before the completion has released its lock. `ak_transport.c:212`: done is set before the unlock and read without the lock, so that the completion unlocks a freed latch; `ak_transport.c:233` says "Completion has filled the latch and will not touch it again." |
| `FreedOnce` | `Transport_claims` | Two threads of an agent poll one infer_handle and both free its latch. `ak_inference.c:2235`: ctx->infer_handle is read, reaped and cleared without a lock; `ak_transport.c:55` says "Exactly one side frees the latch" |
| `LatchReclaimed` | `Transport_claims` | A request times out and its host name does not resolve: nobody frees its latch. `klib/net_utils.c:55`: net_http_dns_cb without an address neither calls the handler nor frees the request; `klib/ak_https.c:81` says "net_http_req invokes this exactly once" |
| `BatchAllOrNothing` | `Heap_claims` | A batch is answered success though an operation was refused after its validation. `ak_heap.c:2419`: ak_heap_txn_commit validates without the lock and ignores what the operations return; `ak_heap.h:292` says "All buffered operations are applied or none are." |
| `ListsWhole` | `Heap_claims` | A purge that keeps 0 versions leaves a list that points to freed entries. `ak_heap.c:1582`: with keep_count 0 the entries are freed and hist->head still points to the first; `ak_heap.h:216` says "Purge old versions (keeping last N)." |
| `ReadVersionRight` | `Heap_claims` | After a restore into a heap in use a version number is made again, and reading it returns what was overwritten. `ak_heap.c:1870`: a restore rewinds an object's version and leaves the later history in place; `ak_heap.h:125` says "Get historical version of object." |
| `TombstonesKept` | `Heap_claims` | An object deleted after the purge has read the clock is purged at once. `ak_heap.c:1615`: now is read before the lock and the age is unsigned: a tombstone younger than now is taken for very old; `ak_heap.h:223` says "Purge deleted objects older than threshold." |
| `RevocationImmediate` | `Capability_claims` | A revocation the table has no memory for is logged, and the capability still validates. `ak_capability.c:819`: ak_revocation_insert_locked gives up without an entry, and ak_revocation_add reports nothing; `ak_capability.h:247` says "SECURITY: Revocation is immediate and persistent." and `ak_capability.h:248` "Token becomes invalid for all future requests." |
| `RevocationSurvives` | `Capability_claims` | A revocation reloaded after a reboot has a time of the earlier boot and is swept while an imported key still verifies its capability. `ak_capability.c:774`: the sweep compares times of two boots of the monotonic clock; `ak_capability.h:219` says "Immediate revocation with persistence (survives restart)." and `ak_capability.c:768` "Bounds table growth without ever un-revoking a live token." |
| `ChildExpiresFirst` | `Capability_claims` | Time passes between the delegation's checks and the signature: the child outlives its parent. `ak_capability.c:575`: the TTL is checked against the parent's remaining TTL at one clock read and starts at a later one; `ak_capability.c:574` says "TTL cannot exceed parent's remaining TTL" |
| `DelegationAttenuates` | `Capability_claims` | A child with no methods listed may use all, also those its parent does not list. `ak_capability.c:590`: an empty list of methods passes the subset check and means all methods; `ak_capability.h:146` says "child.scope ⊆ parent.scope" |
| `LiveKeysRecent` | `Capability_recent` | Imported keys but the active one get one creation time, and the one replaced need not be the oldest. `ak_capability.c:293`: the slot replaced is the first of the oldest by creation time, which an import does not keep; `ak_capability.c:312` says "keys are always the AK_MAX_KEYS most recent counter values" |
| `CleanIsStored` | `StateSync_race` | A write between the serialization of an object and its answer is marked clean unsaved. `ak_state.c:530`: an object is serialized, sent and marked clean in three steps, and a change in between sets a bit that is set already; `ak_state.h:277` says "Objects are only marked clean after the backend acknowledged them." |
| `CleanIsStored` | `StateSync_unread` | An answer left unread for want of memory is taken for that of the next request. `ak_virtio_proxy.c:427`: virtio_read_line returns before it has read the line, and ids are not compared: the next failing put is taken for acknowledged; `ak_state.c:546` says "Only objects actually acknowledged by the backend are marked clean; failed objects stay dirty for the next sync attempt." |
| `CleanIsStored` | `StateSync_shared` | Two pointers share a bit of the bitmap, and the second is never listed. `ak_state.c:418`: ak_state_mark_dirty takes a pointer whose bit is set for one that is listed; `ak_state.h:236` says "Mark object as dirty (needs sync)." |
| `NothingOvertaken` | `StateSync_claims` | Hydration skips an object it cannot read, and its pointer is given to a new one. `ak_state.c:334`: an object that cannot be got is skipped, the generator does not move past it, and hydration goes on as a success; `ak_state.h:203` says "restore state from previous VM instance" |
| `StoredForGood` | `StateSync_claims` | A later put of a stored object fails after the host has cut its file: what a completed sync stored is gone. `tools/akproxy/main.go:369`: os.WriteFile truncates the file and then writes it, so that a write that fails destroys the record of an earlier, completed sync; `ak_state.c:482` says "Do NOT report AK_SYNC_COMPLETED, which callers read as \"durable\"." |
| `CommitDurable` | `StateSync_claims` | A commit that stored some of its objects is answered durable:true. `ak_state.c:1148`: AK_SYNC_PARTIAL is answered durable like AK_SYNC_COMPLETED; `ak_state.c:1138` says "callers cannot mistake an in-memory-only commit for durable persistence." |
| `AnchorsKept` | `StateSync_claims` | After a restart the anchors are numbered from 1 again and overwrite those of the boot before. `ak_state.c:250`: anchor_sequence starts at 0 in each boot, and an anchor is stored under its number; `ak_state.c:620` says "Tamper-evidence for history comes from the prev_anchor chain" |
| `EntriesPersist` | `AuditLog_live` with `Faults <- ReadFaults` | A read error in recovery (`ak_audit.c:349`) cuts the log, and `ak_audit_load` returns 0. |
| `KeysServe` | `Capability_time` with `Threads <- Two`, `MaxCaps = 1`, `MaxDelay = 1` | A stale `now_ms` wraps the difference (`ak_capability.c:270`), and keys rotate too early. |
| `KeysServe` | `Capability_recent` with `KidMod = 3` | An imported key outlives a reboot, the counter goes on, and a new key gets its kid. With 4 slots and a u8 it takes more than a hundred reboots, each after rotations and with an import; `ak_capability.c:313` says "their u8 kids are distinct". |

**Bounds.**  Two threads are enough for every pairwise interleaving; the budget
uses three because its bound depends on their number.  Three entries with two
crashes give a flushed, an issued and a lost entry and a stale one left behind by
the first crash.  Where the model would otherwise run for ever (requests, crashes,
clock, ids) the bound is a constant named `Max...` in a guard (`Latches` and
`Uptime` are bounds too).  Five pushes into a ring of two lap it twice.  Two latches
are a request that timed out and one being answered, or one in `infer_handle` with
another beside it.  In `Heap_restore` two patches and a batch of one operation make a
conflicting write, and three restarts a snapshot, a reboot or later changes, and a
restore; `Heap_claims` has longer batches.  The two boots of `Capability_time` are
long enough that keys are replaced while live and after they expired, and that the
second outlasts `Retain`, so that the sweep does drop entries.  In `StateSync_faults`
three changes and two syncs give an object that is stored, changed, failed to store,
restarted and stored again, or cut.  The
runs of `Budget`, `RateLimit`, `Transport`, `Heap`, `Capability` and `StateSync` switch
deadlock checking off: with the bounds used up there is nothing to do.  In `AuditRing`, `AuditLog` and `Dispatch` a step is always
possible and the check stays on.

**Symmetry** is used for threads, consumers and tokens in runs without liveness properties.

**Fairness.**  `AuditLog`: weak fairness of completions (the file system
answers), of a thread that is inside sync or between sync and its return (the
scheduler runs it; sync does not block on agents), and of start-up.  Nothing is
assumed of agents: no thread must append, commit or retry, so a failed batch
may stay unflushed for ever, and `EventuallyFlushed` is stated without faults.
`Transport`: weak fairness of a thread inside `ak_https_request`, which spins on a
deadline and is never blocked for long, and of the unlock of a completion that has
begun.  That a request comes to an end in the network stack is not assumed:
`RequestReturns` holds without, and `AbandonedFreed` has it (`Delivery`) as its
antecedent, where coming to an end includes the request that is dropped because its name does not
resolve; `DeliverySpec`, for the claim `LatchReclaimed`, has it as its fairness.

## 4. Theorems

Each theorem is proved for every value of the constants that satisfies the module's
named assumption: any set of threads, any sizes, limits, windows and numbers of requests,
crashes and entries.  Where a theorem has a further hypothesis, it is one that TLC shows
to be needed: without it the property is false of the code (section 3).  No theorem
restricts how threads, pushes and pops, pollers, restores or syncs interleave.  Every inductive
invariant was checked by TLC on its component's run before it was proved.

| Theorem | Property | Hypothesis | Rests on |
|---|---|---|---|
| `AuditLogProof!TypeCorrect` | `TypeOK` |  | `BatchInv` |
| `AuditLogProof!OffsetsMatch` | `OffsetMatchesWatermark` |  | `BatchInv` |
| `AuditLogProof!WatermarkSound` | `FlushedOnDisk` |  | `BatchInv` |
| `AuditLogProof!ChainAlwaysVerifies` | `ChainIntact` | "hash" not in `Faults` | `BatchInv` |
| `AuditLogProof!ReturnAfterFsync` | `ReturnedIsDurable` | no faults, `LoadAtBoot` | `DurabilityInv` |
| `AuditLogProof!EntriesSurvive` | `EntriesPersist` | no faults, `LoadAtBoot` | `DurabilityInv` |
| `AuditLogProof!BatchesSound` | `BatchInv` |  | itself |
| `AuditLogProof!DurabilitySound` | `DurabilityInv` | no faults, `LoadAtBoot` | itself |
| `AuditLogProof!AnchorsAlwaysVerify` | `AnchorsVerify` |  | `BatchInv`, `AnchorInv` |
| `AuditLogProof!ImplementsSpec` | `ImplementsAuditSpec` | "hash" and "read" not in `Faults`, `LoadAtBoot` | `BatchInv`, `ChainIntact`, `StaleInv` |
| `AuditLogProof!RingPopsSound` | `PopsSound` |  | `RingInv` |
| `DispatchProof!NeverReplayed` | `AtMostOnce` |  | `ReplayInv` |
| `TransportProof!LatchFreedOnce` | `LatchOwned` |  | `OwnerInv` |
| `TransportProof!RequestAnsweredOnce` | `AnsweredOnce` |  | `OwnerInv` |
| `RateLimitProof!TableBounded` | `TableOK` |  | `TableInv` |
| `RateLimitProof!RateLimitHolds` | `RateBounded` |  | `RateInv` |
| `CapabilityProof!RevocationSound` | `RevokedStaysDead` |  | `RevocationInv` |
| `CapabilityProof!KeysSound` | `KeysServe` | `OneRotator`, `KidsSuffice` | `RevocationInv`, `KeyInv` |
| `HeapProof!UpdatesNeverLost` | `NoLostUpdate` |  | `UpdateInv` |
| `HeapProof!HistoryAlwaysFaithful` | `HistoryFaithful` |  | `UpdateInv`, `HistoryInv` |
| `HeapProof!CountsAlwaysAccurate` | `CountsAccurate` |  | `UpdateInv`, `CountInv` |
| `StateSyncProof!DirtyTracked` | `DirtyCovers` |  | `StateInv` |
| `StateSyncProof!HeapNeverBehind` | `HeapAheadOfStore` |  | `StateInv` |
| `StateSyncProof!CompletedDurable` | `CompletedIsDurable` |  | `StateInv` |
| `BudgetProof!CountersTyped` | `TypeOK` |  | `BudgetInv` |
| `BudgetProof!OvershootAlwaysBounded` | `OvershootBounded` |  | `BudgetInv` |
| `BudgetProof!ReservationsExact` | `ReservedWithinLimit` |  | `BudgetInv` |
| `BudgetProof!ChargesExact` | `ChargedOnce` |  | `BudgetInv` |

**AuditLog.**  `OffsetMatchesWatermark` alone is not inductive: one has to know where the
running batch began (`OffsetInv`), that each unsynced write is of an unflushed entry at
its own slot (`DirtyInv`), that only the lock's holder is in a batch (`ThreadInv`) and
that seq is position in memory and in the file (`SeqInv`).  Together they are `BatchInv`.
`DurabilityInv` adds that a thread past sync has its entry flushed (`AckInv`).  An anchor
verifies later because it was taken of the head (`AnchorInv`) and entries never change.

The refinement maps AuditSpec's log to what is in memory or, before recovery, to what
recovery will find, and its stable prefix to what is flushed.  Append, flush and crash are its
steps, the others stutter.  The hard step is the crash: what an earlier one left behind
in the file must not join the log again.  `StaleInv` says why it cannot: a leftover's
previous hash commits to contents that the log at that position does not have, since
contents are drawn once.  That recovery's scan stops at one place only is the
least-number principle (`NatLessThanWellFounded`), cited as a fact about one set.

**AuditRing.**  `RingInv`, for any numbers of producers and consumers: while nobody has
strayed, the pushes under way are of different positions among the last `Size`, none of
them behind the tail (`PushInv`), so the last `Size` positions are whole in their slots
once pushed (`SlotInv`), and a consumer that has claimed a position copies a whole entry
unless the head has gone a ring past it (`PopInv`).  What was handed out lies before the
tail, and positions still being copied are nobody else's (`GotInv`).  One fact carries
it: two positions less than a ring apart are in different slots (`ModApart`, from division
with remainder).  `Accounting` is stated for one producer, which the ring is documented
for: with two, one that was overtaken by a whole ring finishes writing into a slot that is
another entry's by then (`ak_audit.c:1524`).  It is checked by TLC only.

**Dispatch.**  `ReplayInv`: until the tracker is used out of turn it is level with the
requests it let through in the context's run and in the run of every request it is yet to
check, and one request at most is past its test, ahead of it (`TrackerInv`); requests past the
tracker are recorded, not executed yet and each one thread's (`InFlightInv`).  New runs
are covered because a run_id is drawn once (`IdInv`): a tracker that starts at zero is
level with a run of which nothing was let through.  Racing `++last_seq` needs no
invariant: equal seqs are what the tracker is for.

**Transport.**  `OwnerInv` says of every latch how far it has come (`LatchInv`), that a
caller of `ak_https_request` has its latch to itself (`SyncInv`), that until two inference calls
overlap so has the thread inside one (`InferInv`), and that `infer_handle` is then a live
latch nobody else holds (`HandleInv`).  The number of owners is 1 exactly because these
exclude each other.  Nothing limits the number of pollers; that synchronous requests
are untouched by contested ones is because the two kinds of latches never mix (`polled`).

**RateLimit.**  A span of a window can meet two windows of the table, so a bound of two
limits needs to know when earlier admissions came: all but the last `Limit` of them were
a window before the current one opened (`BeforeWindow`).  Time going on, an expiry, and a
sweep of an expired entry keep it, and so does a late reading, unless it is older than
the window it closes or than an admission before the window it opens: exactly then the
token joins `stale`.

**Capability.**  A sweep drops a revocation when it is older than `MaxTtl + Rotation`;
what it was of has then expired, because a capability is revoked after it was issued
(`RevocationInv`).  A revocation from an earlier boot is not of a capability of this one,
and one that found no memory is in `lost` until it is repeated.

`KeysServe` needs to know the order of the keys.  Let f be the secret that was active at
boot.  A live key is imported (before f) or was made in this boot (from f on), and a
later one of the latter was created later, so whatever expires or is replaced does so in
that order, and imported keys go first: from each live key on, all keys of this boot are
live (`LiveInv`).  By the pigeonhole principle (`FS_PigeonHole`) a boot then adds fewer
than `MaxKeys` to the distance between the newest and the oldest live key (`Spread`), and
kids less than `KidMod` apart are distinct (`KidsSuffice`: `(MaxBoots + 1) * (MaxKeys - 1)
< KidMod`).  A capability's key is there until it expires or, again by counting slots, has
`MaxKeys` successors (`CapInv`).  `OneRotator`: one thread at a time is in `ak_key_rotate`.

**Heap.**  `UpdateInv`: an object's value is the set of the patches applied to it,
each at a version of its own, both in the heap and in the snapshot (`Belong`), and what
was acknowledged is applied or undone.
`HistoryInv`: the history of a pointer that is neither `rewound` nor `dangling` runs
from its current version down, with gaps where memory was short, and each entry has the
value of its version.  The counters are cardinalities of sets of dead
objects and of history cells, so that what a purge subtracts is the size of what it frees.

**StateSync.**  `StateInv` joins the dirty list (`TrackInv`), the pointers (`PtrInv`), the
answer on the channel (`SentInv`) and what a sync has stored so far (`SyncInv`): as
many as were counted synced are stored, still on their way or escaped, so a sync that
counts all has stored all it tracked.  An answer that is taken for another request's, a
change between serialization and answer, and a bit that was set already put their
pointer in `escaped` at that step; a record that is cut puts what was promised of it
in `ruined`.

**Budget.**  A thread enters the flight by a check that found room for one unit, so at
that moment the total with all threads in flight is below limit plus threads; later a
commit moves one unit from the flight to the counter.  `DueInv` is what links the two:
what a thread is charged is what its operation was checked for.  A reservation is checked and added at
once, and its thread is not in flight.  Sums over the threads are numbers of pairs
(thread, unit), so that each step changes them by what one thread owes: a counter is what
was done and is no longer due, less `gratis` and with `forfeit`, and what is reserved (`ChargeInv`).  Since what is due was
done, a release never meets a counter smaller than it gives back.  A tool call may be
both committed and reserved, and a release from a total that has saturated loses
count: `ChargedOnce` says so (`CountsExactly`), and a limit below U64Max by the number of threads excludes it.

Only model-checked:

* the liveness properties (`LockReleased`, `EventuallyFlushed`, `RequestReturns`,
  `AbandonedFreed`): the prover has no fairness;
* `Accounting` of the ring.

## 5. Not modelled, and the plan

Not modelled: code outside the kernel build; cryptography, compression, parsing
and the WASM interpreter (pure computation on bytes); the Nanos base, klibs, SDK
and tools, which are most of the repository's lines and not this system's logic, but for
what the kernel meets of them (write-back and fsync, `net_http_req`, the daemon's files).
Of the kernel's own files: the inboxes and the agent registry, whose lock is
initialised and never taken; approvals and `ak_policy`'s parsing and matching; the
proxy's HTTP, TCP and LLM requests, which use the modelled channel in the same way;
segments in `AuditLog`.

Runs are few, one per question.  Next, in this order:

1. `Inbox`: send and recv with their failure paths; `Approval`.
2. `Policy`: pattern matching and flow rules as operators, against reference
   definitions.
