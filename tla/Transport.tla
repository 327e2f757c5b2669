------------------------------ MODULE Transport ------------------------------
(***************************************************************************)
(* ak_transport.c with the two users of it: the synchronous                 *)
(* ak_https_request, which spins on a latch until the completion or a        *)
(* deadline, and ak_handle_infer_issue / ak_handle_infer_poll, which keep    *)
(* the latch in ctx->infer_handle between system calls.  The klib's          *)
(* ak_https_do hands a request to net_http_req, which calls back at any      *)
(* time, on the run loop of any CPU, or drops the request when the host name *)
(* turns out not to resolve.                                                 *)
(*                                                                           *)
(* A latch is freed by the caller or, when the caller gave up, by the        *)
(* completion; the lock decides which.  `done' is read without the lock.     *)
(* A request's body, headers and host are not modelled: an answer is one of  *)
(* the outcomes a caller can tell apart.                                     *)
(***************************************************************************)
EXTENDS Naturals, Sequences, FiniteSets

CONSTANTS Threads,
          Pollers,   \* the threads of the agent that use infer_issue and infer_poll
          Latches,   \* bound: latches allocated in a behaviour (no address is reused)
          NoLatch

ASSUME TransportAssumption ==
    /\ Pollers \subseteq Threads /\ NoLatch \notin Latches
    /\ Threads \cap {"completion", "context"} = {}   \* the names of the other owners

VARIABLES
    registered,    \* ak_https_transport # 0
    frees,         \* each latch: how often it was deallocated
    allocated,     \* latches handed out
    locked,        \* each latch: its spin lock is held across steps
    done, abandoned, status,
    completion,    \* each latch: "none", "pending", "unlocking", "over" or "lost"
    infer_handle,  \* ctx->infer_handle
    pc, latch,     \* each thread: where it is, and the latch it works on
    told,          \* each latch: what its callers were told, in order
    misused,       \* latches touched after they were freed
    polled,        \* latches issued by infer_issue
    overlap        \* have two calls of infer_issue and infer_poll overlapped?

latch_vars == <<frees, allocated, locked, done, abandoned, status, completion>>
history_vars == <<polled, overlap>>
vars == <<registered, latch_vars, infer_handle, pc, latch, told, misused, history_vars>>

Statuses == {"ok", "connect", "internal"}
Live(l) == l \in allocated /\ frees[l] = 0

Init ==
    /\ registered = FALSE /\ infer_handle = NoLatch
    /\ allocated = {} /\ misused = {} /\ polled = {} /\ overlap = FALSE
    /\ frees = [l \in Latches |-> 0]
    /\ locked = [l \in Latches |-> FALSE]
    /\ done = [l \in Latches |-> FALSE] /\ abandoned = [l \in Latches |-> FALSE]
    /\ status = [l \in Latches |-> "none"]
    /\ completion = [l \in Latches |-> "none"]
    /\ told = [l \in Latches |-> <<>>]
    /\ pc = [t \in Threads |-> "idle"] /\ latch = [t \in Threads |-> NoLatch]

\* Inside a call of infer_issue or infer_poll.
InferStages == {"issue", "keep", "pollreap", "forget"}

Goto(t, stage) == pc' = [pc EXCEPT ![t] = stage]
Touch(l) == misused' = IF Live(l) THEN misused ELSE misused \cup {l}
Free(l) == frees' = [frees EXCEPT ![l] = @ + 1]
Tell(l, answer) == told' = [told EXCEPT ![l] = Append(@, answer)]
Enter(t) ==
    overlap' = (overlap \/ \E u \in Threads : u # t /\ pc[u] \in InferStages)

\* The klib is loaded; without it every request fails at once.
ak_transport_register_https ==
    /\ ~registered /\ registered' = TRUE
    /\ UNCHANGED <<latch_vars, infer_handle, pc, latch, told, misused, history_vars>>

-----------------------------------------------------------------------------
(* The completion side: ak_https_vh, at most once for every request issued *)

\* net_http_dns_cb without an address: nothing is freed and nobody is called.
Unresolved(l) ==
    /\ completion[l] = "pending"
    /\ completion' = [completion EXCEPT ![l] = "lost"]
    /\ UNCHANGED <<registered, frees, allocated, locked, done, abandoned, status, infer_handle,
                   pc, latch, told, misused, history_vars>>

\* Mutant: the completion does not look at abandoned.
CompleteAlways(l) ==
    /\ completion[l] = "pending" /\ ~locked[l]
    /\ Touch(l)
    /\ done' = [done EXCEPT ![l] = TRUE]
    /\ \E s \in Statuses : status' = [status EXCEPT ![l] = s]
    /\ locked' = [locked EXCEPT ![l] = TRUE]
    /\ completion' = [completion EXCEPT ![l] = "unlocking"]
    /\ UNCHANGED <<registered, frees, allocated, abandoned, infer_handle, pc, latch, told, history_vars>>

\* ak_https_complete_ok or _fail: takes the lock, fills the latch and sets
\* done; the unlock is a step of its own (CompleteUnlock).  A body that cannot
\* be copied is reported as an internal failure.  An abandoned latch is freed.
Complete(l) ==
    /\ completion[l] = "pending" /\ ~locked[l]
    /\ Touch(l)
    /\ \/ /\ abandoned[l]
          /\ Free(l)
          /\ completion' = [completion EXCEPT ![l] = "over"]
          /\ UNCHANGED <<locked, done, status>>
       \/ /\ ~abandoned[l]
          /\ done' = [done EXCEPT ![l] = TRUE]
          /\ \E s \in Statuses : status' = [status EXCEPT ![l] = s]
          /\ locked' = [locked EXCEPT ![l] = TRUE]
          /\ completion' = [completion EXCEPT ![l] = "unlocking"]
          /\ UNCHANGED frees
    /\ UNCHANGED <<registered, allocated, abandoned, infer_handle, pc, latch, told, history_vars>>

\* Mutant: a path that leaves the lock held.
CompleteHolding(l) ==
    /\ completion[l] = "unlocking"
    /\ Touch(l)
    /\ completion' = [completion EXCEPT ![l] = "over"]
    /\ UNCHANGED <<registered, frees, allocated, locked, done, abandoned, status, infer_handle,
                   pc, latch, told, history_vars>>

\* memory_barrier(); spin_unlock(&latch->lock)
CompleteUnlock(l) ==
    /\ completion[l] = "unlocking"
    /\ Touch(l)
    /\ locked' = [locked EXCEPT ![l] = FALSE]
    /\ completion' = [completion EXCEPT ![l] = "over"]
    /\ UNCHANGED <<registered, frees, allocated, done, abandoned, status, infer_handle,
                   pc, latch, told, history_vars>>

-----------------------------------------------------------------------------
(* Issuing *)

\* A fresh latch is handed to the transport.  When memory is short or the
\* transport refuses, the latch is freed again and nothing is left of the call.
IssueLatch(l) ==
    /\ registered
    /\ l \in Latches \ allocated
    /\ allocated' = allocated \cup {l}
    /\ completion' = [completion EXCEPT ![l] = "pending"]
    /\ UNCHANGED <<frees, locked, done, abandoned, status>>

\* ak_https_request up to the wait.
Request(t) ==
    /\ pc[t] = "idle"
    /\ \E l \in Latches : IssueLatch(l) /\ latch' = [latch EXCEPT ![t] = l]
    /\ Goto(t, "wait")
    /\ UNCHANGED <<registered, infer_handle, told, misused, history_vars>>

-----------------------------------------------------------------------------
(* ak_https_request: the wait and what follows *)

\* while (!latch->done): left because done is set.
SeeDone(t) ==
    /\ pc[t] = "wait" /\ done[latch[t]]
    /\ Touch(latch[t])
    /\ Goto(t, "reap")
    /\ UNCHANGED <<registered, latch_vars, infer_handle, latch, told, history_vars>>

\* The deadline has passed before done was seen.
Deadline(t) ==
    /\ pc[t] = "wait"
    /\ Goto(t, "expired")
    /\ UNCHANGED <<registered, latch_vars, infer_handle, latch, told, misused, history_vars>>

\* Mutant: done is not looked at again under the lock.
ExpireUnchecked(t) ==
    LET l == latch[t] IN
    /\ pc[t] = "expired" /\ ~locked[l]
    /\ Touch(l)
    /\ abandoned' = [abandoned EXCEPT ![l] = TRUE]
    /\ Tell(l, "timeout") /\ Goto(t, "idle")
    /\ latch' = [latch EXCEPT ![t] = NoLatch]
    /\ UNCHANGED <<registered, frees, allocated, locked, done, status, completion, infer_handle, history_vars>>

\* The re-check under the lock: abandon the latch, or take the answer after all.
Expire(t) ==
    LET l == latch[t] IN
    /\ pc[t] = "expired" /\ ~locked[l]
    /\ Touch(l)
    /\ \/ /\ ~done[l]
          /\ abandoned' = [abandoned EXCEPT ![l] = TRUE]
          /\ Tell(l, "timeout") /\ Goto(t, "idle")
          /\ latch' = [latch EXCEPT ![t] = NoLatch]
       \/ /\ done[l]
          /\ Goto(t, "reap")
          /\ UNCHANGED <<abandoned, latch, told>>
    /\ UNCHANGED <<registered, frees, allocated, locked, done, status, completion, infer_handle, history_vars>>

\* Status and response are read, the latch is freed, without the lock.
Reap(t) ==
    LET l == latch[t] IN
    /\ pc[t] = "reap"
    /\ Touch(l) /\ Free(l) /\ Tell(l, status[l])
    /\ Goto(t, "idle") /\ latch' = [latch EXCEPT ![t] = NoLatch]
    /\ UNCHANGED <<registered, allocated, locked, done, abandoned, status, completion, infer_handle, history_vars>>

-----------------------------------------------------------------------------
(* ak_handle_infer_issue and ak_handle_infer_poll *)

\* One request in flight: otherwise the call is refused.
InferIssue(t) ==
    /\ t \in Pollers /\ pc[t] = "idle" /\ registered
    /\ infer_handle = NoLatch
    /\ Goto(t, "issue") /\ Enter(t)
    /\ UNCHANGED <<registered, latch_vars, infer_handle, latch, told, misused, polled>>

\* ak_https_issue
InferSend(t) ==
    /\ pc[t] = "issue"
    /\ \/ /\ \E l \in Latches : /\ IssueLatch(l) /\ latch' = [latch EXCEPT ![t] = l]
                                /\ polled' = polled \cup {l}
          /\ Goto(t, "keep")
       \/ \* no memory, or refused: AK_E_LLM_CONNECTION_FAILED
          /\ Goto(t, "idle")
          /\ UNCHANGED <<latch_vars, latch, polled>>
    /\ UNCHANGED <<registered, infer_handle, told, misused, overlap>>

\* ctx->infer_handle = hnd
InferKeep(t) ==
    /\ pc[t] = "keep"
    /\ infer_handle' = latch[t]
    /\ Goto(t, "idle") /\ latch' = [latch EXCEPT ![t] = NoLatch]
    /\ UNCHANGED <<registered, latch_vars, told, misused, history_vars>>

\* Mutant: a poll that does not wait for done.
PollReady(l) == TRUE

PollDone(l) == done[l]

\* ak_https_poll reads done; -EAGAIN leaves everything as it was.
InferPoll(t) ==
    /\ t \in Pollers /\ pc[t] = "idle"
    /\ infer_handle # NoLatch /\ PollDone(infer_handle)
    /\ Touch(infer_handle)
    /\ latch' = [latch EXCEPT ![t] = infer_handle]
    /\ Goto(t, "pollreap") /\ Enter(t)
    /\ UNCHANGED <<registered, latch_vars, infer_handle, told, polled>>

\* ... takes status and response, frees the latch ...
InferReap(t) ==
    LET l == latch[t] IN
    /\ pc[t] = "pollreap"
    /\ Touch(l) /\ Free(l) /\ Tell(l, status[l])
    /\ Goto(t, "forget")
    /\ UNCHANGED <<registered, allocated, locked, done, abandoned, status, completion,
                   infer_handle, latch, history_vars>>

\* ... and the handler clears ctx->infer_handle.
InferForget(t) ==
    /\ pc[t] = "forget"
    /\ infer_handle' = NoLatch
    /\ Goto(t, "idle") /\ latch' = [latch EXCEPT ![t] = NoLatch]
    /\ UNCHANGED <<registered, latch_vars, told, misused, history_vars>>

-----------------------------------------------------------------------------
Waiting(t) == SeeDone(t) \/ Deadline(t) \/ Expire(t) \/ Reap(t)
Inferring(t) ==
    InferIssue(t) \/ InferSend(t) \/ InferKeep(t) \/ InferPoll(t) \/ InferReap(t) \/ InferForget(t)

Next ==
    \/ ak_transport_register_https
    \/ \E l \in Latches : Unresolved(l) \/ Complete(l) \/ CompleteUnlock(l)
    \/ \E t \in Threads : Request(t) \/ Waiting(t) \/ Inferring(t)

Spec == Init /\ [][Next]_vars

\* A waiting thread runs on, its deadline included, and a CPU that holds a
\* latch's lock gets to release it.
Fairness ==
    /\ \A t \in Threads : WF_vars(Waiting(t))
    /\ \A l \in Latches : WF_vars(CompleteUnlock(l))

\* The network stack comes to an end with every request, one way or the other.
Delivery == \A l \in Latches : WF_vars(Complete(l) \/ Unresolved(l))

LiveSpec == Spec /\ Fairness
DeliverySpec == LiveSpec /\ Delivery

-----------------------------------------------------------------------------
(* Properties *)

\* The parties that are responsible for freeing latch l.
Owners(l) ==
    {t \in Threads : latch[t] = l /\ pc[t] \in {"wait", "expired", "reap", "keep", "pollreap"}}
    \cup (IF abandoned[l] /\ completion[l] = "pending" THEN {"completion"} ELSE {})
    \cup (IF infer_handle = l /\ \A t \in Threads : ~(latch[t] = l /\ pc[t] \in {"pollreap", "forget"})
          THEN {"context"} ELSE {})

\* Given up by its caller for a completion that will not come.
Leaked(l) == abandoned[l] /\ completion[l] = "lost"

\* Inference calls of two threads have overlapped: the latches in ctx->infer_handle
\* may have been lost or taken twice.
Contested(l) == overlap /\ l \in polled

\* ak_transport.c, "exactly one side frees the latch": a latch that is in use
\* has exactly one party that will free it, one that was freed has none and was
\* freed once, and a completion still to come finds its latch in use.  This
\* holds of every latch of ak_https_request, whatever other threads do, and of
\* the latches of infer_issue until two inference calls overlap.
LatchOwned ==
    \A l \in allocated : ~Contested(l) =>
        /\ frees[l] <= 1
        /\ Cardinality(Owners(l)) = IF Leaked(l) THEN 0 ELSE 1 - frees[l]
        /\ completion[l] = "pending" => Live(l)

\* Every such request is answered once: with what its completion delivered, or
\* with a timeout, and then its answer goes to nobody.
AnsweredOnce ==
    \A l \in Latches : ~Contested(l) =>
        /\ Len(told[l]) <= 1
        /\ told[l] # <<>> => told[l][1] = IF abandoned[l] THEN "timeout" ELSE status[l]
        /\ told[l] # <<>> => told[l][1] # "none"
        /\ ~(done[l] /\ abandoned[l])

\* "Exactly one side frees the latch", whoever polls: no latch is freed twice.
FreedOnce == \A l \in Latches : frees[l] <= 1

\* "Completion has filled the latch and will not touch it again": no latch is
\* touched once freed.
NeverTouchedAfterFree == misused = {}

\* ak_https_request returns, whether or not the completion ever comes.
RequestReturns == \A t \in Threads : pc[t] = "wait" ~> pc[t] = "idle"

\* If the network stack comes to an end with every request, each latch given up
\* at the deadline is freed, or is one whose host name did not resolve.
AbandonedFreed ==
    Delivery => \A l \in Latches : abandoned[l] ~> frees[l] = 1 \/ completion[l] = "lost"

\* A caller that gives up "leaves the latch for the completion side to free", and
\* net_http_req invokes the handler "exactly once": the latch is freed.
LatchReclaimed == \A l \in Latches : abandoned[l] ~> frees[l] = 1

-----------------------------------------------------------------------------
(* The inductive invariant behind LatchOwned and AnsweredOnce, for any number *)
(* of threads that wait and that poll.                                       *)

SyncStages == {"wait", "expired", "reap"}
Holding == SyncStages \cup {"keep", "pollreap"}
Answers == Statuses \cup {"none", "timeout"}

\* Every variable keeps its type.
TypeOK ==
    /\ registered \in BOOLEAN /\ overlap \in BOOLEAN
    /\ allocated \subseteq Latches /\ polled \subseteq allocated
    /\ frees \in [Latches -> Nat]
    /\ locked \in [Latches -> BOOLEAN] /\ done \in [Latches -> BOOLEAN]
    /\ abandoned \in [Latches -> BOOLEAN] /\ status \in [Latches -> Answers]
    /\ completion \in [Latches -> {"none", "pending", "unlocking", "over", "lost"}]
    /\ infer_handle \in Latches \cup {NoLatch}
    /\ pc \in [Threads -> Holding \cup {"idle", "issue", "forget"}]
    /\ latch \in [Threads -> Latches \cup {NoLatch}]
    /\ told \in [Latches -> Seq(Answers)]

\* A latch, from its allocation to its completion: done and abandoned exclude
\* each other, and the lock is held between done and its release only.
LatchInv(l) ==
    /\ frees[l] <= 1 /\ ~(done[l] /\ abandoned[l])
    /\ l \notin allocated => completion[l] = "none"
    /\ completion[l] = "none" => l \notin allocated /\ told[l] = <<>> /\ ~abandoned[l] /\ frees[l] = 0
    /\ completion[l] \in {"none", "pending", "lost"} => ~done[l] /\ frees[l] = 0
    /\ completion[l] \in {"unlocking", "over"} => done[l] \/ abandoned[l]
    /\ locked[l] => completion[l] = "unlocking"
    /\ done[l] => status[l] \in Statuses
    /\ abandoned[l] => told[l] = <<"timeout">> /\ (frees[l] = 0 => completion[l] \in {"pending", "lost"})
    /\ ~abandoned[l] => told[l] = IF frees[l] = 0 THEN <<>> ELSE <<status[l]>>

\* A caller of ak_https_request has its latch to itself, and it is no latch of
\* infer_issue.
SyncInv(t) ==
    /\ pc[t] \in {"idle", "issue"} => latch[t] = NoLatch
    /\ pc[t] \in SyncStages =>
        /\ latch[t] \in allocated \ polled /\ frees[latch[t]] = 0 /\ ~abandoned[latch[t]]
        /\ \A u \in Threads : pc[u] \in SyncStages /\ latch[u] = latch[t] => u = t
    /\ pc[t] = "reap" => done[latch[t]]
    /\ pc[t] \in {"keep", "pollreap", "forget"} => latch[t] \in polled

\* Until inference calls overlap, so has the thread that is in one.
InferInv(t) ==
    /\ pc[t] \in InferStages => \A u \in Threads : pc[u] \in InferStages => u = t
    /\ pc[t] \in {"keep", "pollreap"} => frees[latch[t]] = 0 /\ ~abandoned[latch[t]]
    /\ pc[t] = "pollreap" => done[latch[t]]
    /\ pc[t] = "forget" => frees[latch[t]] = 1
    /\ pc[t] \in {"issue", "keep"} => infer_handle = NoLatch
    /\ pc[t] \in {"pollreap", "forget"} => infer_handle = latch[t]

\* ctx->infer_handle is a latch of its own, live until it is reaped.
HandleInv ==
    infer_handle # NoLatch =>
        /\ ~abandoned[infer_handle]
        /\ (\A t \in Threads : pc[t] # "forget") => frees[infer_handle] = 0

\* A live latch is held by a thread, by the context, or by a completion to come.
HeldInv ==
    \A l \in allocated : ~Contested(l) /\ frees[l] = 0 =>
        \/ abandoned[l]
        \/ infer_handle = l /\ \A t \in Threads : pc[t] # "forget"
        \/ \E t \in Threads : pc[t] \in Holding /\ latch[t] = l

OwnerInv ==
    /\ TypeOK /\ HeldInv
    /\ infer_handle \in polled \cup {NoLatch}
    /\ \A l \in Latches : ~Contested(l) => LatchInv(l)
    /\ \A t \in Threads : SyncInv(t)
    /\ ~overlap => HandleInv /\ \A t \in Threads : InferInv(t)
=============================================================================
