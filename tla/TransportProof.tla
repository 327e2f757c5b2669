--------------------------- MODULE TransportProof ---------------------------
(***************************************************************************)
(* Proofs about Transport.tla for any number of threads, pollers and         *)
(* latches.  The argument is OwnerInv: done and abandoned exclude each other  *)
(* because both are decided under the lock, a caller that waits has its latch *)
(* to itself, and so has an inference call until another one overlaps it.    *)
(***************************************************************************)
EXTENDS Transport, FiniteSetTheorems, TLAPS

\* A new transport: no latch, nobody waiting.
LEMMA OwnerInit == Init => OwnerInv
  <1> SUFFICES ASSUME Init PROVE OwnerInv
    OBVIOUS
  <1> USE TransportAssumption DEF Init, SyncStages, Holding, InferStages, Answers, Statuses
  <1>1. TypeOK
    <2>1. told \in [Latches -> Seq(Answers)]
      OBVIOUS
    <2>2. registered \in BOOLEAN /\ overlap \in BOOLEAN
      OBVIOUS
    <2> QED BY <2>1, <2>2 DEF TypeOK
  <1>2. HandleInv /\ HeldInv
    BY DEF HandleInv, HeldInv
  <1>3. \A l \in Latches : LatchInv(l)
    BY DEF LatchInv
  <1>4. \A t \in Threads : SyncInv(t) /\ InferInv(t)
    BY DEF SyncInv, InferInv
  <1> QED BY <1>1, <1>2, <1>3, <1>4 DEF OwnerInv

\* Answers told to callers are answers.
LEMMA TellType ==
    ASSUME NEW T \in [Latches -> Seq(Answers)], NEW l, NEW a, l \in Latches => a \in Answers
    PROVE  [T EXCEPT ![l] = Append(@, a)] \in [Latches -> Seq(Answers)]
  <1>1. l \in Latches => Append(T[l], a) \in Seq(Answers)
    OBVIOUS
  <1> QED BY <1>1

\* Counting a free keeps a count.
LEMMA FreeType ==
    ASSUME NEW F \in [Latches -> Nat], NEW l
    PROVE  [F EXCEPT ![l] = @ + 1] \in [Latches -> Nat]
  <1>1. l \in Latches => F[l] + 1 \in Nat
    OBVIOUS
  <1> QED BY <1>1

\* Every step keeps the types.
LEMMA TypeStep == TypeOK /\ [Next]_vars => TypeOK'
  <1> SUFFICES ASSUME TypeOK, [Next]_vars PROVE TypeOK'
    OBVIOUS
  <1> USE TransportAssumption DEF TypeOK, Goto, Touch, Free, Tell, latch_vars, history_vars, SyncStages, Holding, Answers, Statuses
  <1>1. CASE ak_transport_register_https
    BY <1>1 DEF ak_transport_register_https
  <1>2. ASSUME NEW l \in Latches, Complete(l) PROVE TypeOK'
    <2>1. \/ frees' = [frees EXCEPT ![l] = @ + 1] /\ UNCHANGED <<locked, done, status>>
          \/ /\ done' = [done EXCEPT ![l] = TRUE] /\ locked' = [locked EXCEPT ![l] = TRUE]
             /\ \E s \in Statuses : status' = [status EXCEPT ![l] = s]
             /\ UNCHANGED frees
      BY <1>2 DEF Complete
    <2>2. \E c \in {"over", "unlocking"} : completion' = [completion EXCEPT ![l] = c]
      BY <1>2 DEF Complete
    <2>3. UNCHANGED <<registered, allocated, abandoned, infer_handle, pc, latch, told, polled, overlap>>
      BY <1>2 DEF Complete
    <2>4. /\ frees' \in [Latches -> Nat]
          /\ completion' \in [Latches -> {"none", "pending", "unlocking", "over", "lost"}]
      <3>1. frees' \in [Latches -> Nat]
        <4>1. [frees EXCEPT ![l] = @ + 1] \in [Latches -> Nat]
          BY FreeType
        <4> QED BY <2>1, <4>1, Zenon
      <3> QED BY <2>2, <3>1
    <2>5. done' \in [Latches -> BOOLEAN] /\ locked' \in [Latches -> BOOLEAN]
      BY <2>1
    <2>6. status' \in [Latches -> Answers]
      BY <2>1
    <2> QED BY <2>3, <2>4, <2>5, <2>6
  <1>16. ASSUME NEW l \in Latches, Unresolved(l) PROVE TypeOK'
    BY <1>16 DEF Unresolved
  <1>3. ASSUME NEW l \in Latches, CompleteUnlock(l) PROVE TypeOK'
    BY <1>3 DEF CompleteUnlock
  <1>4. ASSUME NEW t \in Threads, Request(t) PROVE TypeOK'
    BY <1>4 DEF Request, IssueLatch
  <1>5. ASSUME NEW t \in Threads, SeeDone(t) PROVE TypeOK'
    BY <1>5 DEF SeeDone
  <1>6. ASSUME NEW t \in Threads, Deadline(t) PROVE TypeOK'
    BY <1>6 DEF Deadline
  <1>7. ASSUME NEW t \in Threads, Expire(t) PROVE TypeOK'
    <2>1. \/ /\ abandoned' = [abandoned EXCEPT ![latch[t]] = TRUE]
             /\ told' = [told EXCEPT ![latch[t]] = Append(@, "timeout")]
             /\ pc' = [pc EXCEPT ![t] = "idle"] /\ latch' = [latch EXCEPT ![t] = NoLatch]
          \/ pc' = [pc EXCEPT ![t] = "reap"] /\ UNCHANGED <<abandoned, latch, told>>
      BY <1>7 DEF Expire
    <2>2. UNCHANGED <<registered, frees, allocated, locked, done, status, completion, infer_handle, polled, overlap>>
      BY <1>7 DEF Expire
    <2>3. told' \in [Latches -> Seq(Answers)]
      <3>1. [told EXCEPT ![latch[t]] = Append(@, "timeout")] \in [Latches -> Seq(Answers)]
        BY TellType
      <3> QED BY <2>1, <3>1
    <2>4. abandoned' \in [Latches -> BOOLEAN]
      BY <2>1
    <2> QED BY <2>1, <2>2, <2>3, <2>4
  <1>8. ASSUME NEW t \in Threads, Reap(t) PROVE TypeOK'
    <2>1. /\ frees' = [frees EXCEPT ![latch[t]] = @ + 1]
          /\ told' = [told EXCEPT ![latch[t]] = Append(@, status[latch[t]])]
          /\ pc' = [pc EXCEPT ![t] = "idle"] /\ latch' = [latch EXCEPT ![t] = NoLatch]
          /\ UNCHANGED <<registered, allocated, locked, done, abandoned, status, completion, infer_handle, polled, overlap>>
      BY <1>8 DEF Reap
    <2>2. told' \in [Latches -> Seq(Answers)]
      <3>1. latch[t] \in Latches => status[latch[t]] \in Answers
        OBVIOUS
      <3>2. [told EXCEPT ![latch[t]] = Append(@, status[latch[t]])] \in [Latches -> Seq(Answers)]
        BY <3>1, TellType
      <3> QED BY <2>1, <3>2
    <2>3. frees' \in [Latches -> Nat]
      BY <2>1, FreeType
    <2> QED BY <2>1, <2>2, <2>3
  <1>9. ASSUME NEW t \in Threads, InferIssue(t) PROVE TypeOK'
    <2>1. overlap' \in BOOLEAN
      BY <1>9, Zenon DEF InferIssue, Enter
    <2> QED BY <1>9, <2>1 DEF InferIssue
  <1>10. ASSUME NEW t \in Threads, InferSend(t) PROVE TypeOK'
    <2>1. CASE pc' = [pc EXCEPT ![t] = "idle"] /\ UNCHANGED <<latch_vars, latch, polled>>
      BY <1>10, <2>1 DEF InferSend
    <2>2. CASE \E l \in Latches : /\ IssueLatch(l) /\ latch' = [latch EXCEPT ![t] = l]
                                   /\ polled' = polled \cup {l}
      <3>1. PICK l \in Latches : /\ IssueLatch(l) /\ latch' = [latch EXCEPT ![t] = l]
                                 /\ polled' = polled \cup {l}
        BY <2>2
      <3>2. pc' = [pc EXCEPT ![t] = "keep"] \/ pc' = [pc EXCEPT ![t] = "idle"]
        BY <1>10 DEF InferSend
      <3>3. UNCHANGED <<registered, infer_handle, told, overlap>>
        BY <1>10 DEF InferSend
      <3>4. allocated' \subseteq Latches /\ polled' \subseteq allocated'
        BY <3>1 DEF IssueLatch
      <3> QED BY <3>1, <3>2, <3>3, <3>4 DEF IssueLatch
    <2> QED BY <1>10, <2>1, <2>2 DEF InferSend
  <1>11. ASSUME NEW t \in Threads, InferKeep(t) PROVE TypeOK'
    BY <1>11 DEF InferKeep
  <1>12. ASSUME NEW t \in Threads, InferPoll(t) PROVE TypeOK'
    <2>1. overlap' \in BOOLEAN
      BY <1>12, Zenon DEF InferPoll, Enter
    <2> QED BY <1>12, <2>1 DEF InferPoll
  <1>13. ASSUME NEW t \in Threads, InferReap(t) PROVE TypeOK'
    <2>1. /\ frees' = [frees EXCEPT ![latch[t]] = @ + 1]
          /\ told' = [told EXCEPT ![latch[t]] = Append(@, status[latch[t]])]
          /\ pc' = [pc EXCEPT ![t] = "forget"] /\ latch' = latch
          /\ UNCHANGED <<registered, allocated, locked, done, abandoned, status, completion, infer_handle, polled, overlap>>
      BY <1>13 DEF InferReap
    <2>2. told' \in [Latches -> Seq(Answers)]
      <3>1. latch[t] \in Latches => status[latch[t]] \in Answers
        OBVIOUS
      <3>2. [told EXCEPT ![latch[t]] = Append(@, status[latch[t]])] \in [Latches -> Seq(Answers)]
        BY <3>1, TellType
      <3> QED BY <2>1, <3>2
    <2>3. frees' \in [Latches -> Nat]
      BY <2>1, FreeType
    <2> QED BY <2>1, <2>2, <2>3
  <1>14. ASSUME NEW t \in Threads, InferForget(t) PROVE TypeOK'
    BY <1>14 DEF InferForget
  <1>15. CASE UNCHANGED vars
    BY <1>15 DEF vars
  <1> QED
    BY <1>1, <1>2, <1>3, <1>4, <1>5, <1>6, <1>7, <1>8, <1>9, <1>10, <1>11, <1>12, <1>13, <1>14, <1>15, <1>16
       DEF Next, Waiting, Inferring

-----------------------------------------------------------------------------
(* OwnerInv, one step per action *)

\* What OwnerInv says of the latches and of the threads outside inference calls.
LatchesOK == \A l \in Latches : ~Contested(l) => LatchInv(l)
SyncOK == \A t \in Threads : SyncInv(t)
InferOK == ~overlap => HandleInv /\ \A t \in Threads : InferInv(t)
HandleOK == infer_handle \in polled \cup {NoLatch}

\* OwnerInv by its parts.
LEMMA OwnerParts == OwnerInv <=> TypeOK /\ HeldInv /\ HandleOK /\ LatchesOK /\ SyncOK /\ InferOK
  BY DEF OwnerInv, LatchesOK, SyncOK, InferOK, HandleOK

\* A step in which no latch is freed or given up, the handle stays, nobody enters or
\* leaves "forget", and a latch that is new has a thread that holds it.
LEMMA HeldKept ==
    ASSUME HeldInv, UNCHANGED <<infer_handle, frees, abandoned>>, allocated \subseteq allocated',
           polled \subseteq polled', overlap => overlap',
           \A u \in Threads : pc[u] \in Holding => pc'[u] \in Holding /\ latch'[u] = latch[u],
           \A u \in Threads : pc'[u] = "forget" => pc[u] = "forget",
           \A m \in allocated' \ allocated : \E u \in Threads : pc'[u] \in Holding /\ latch'[u] = m
    PROVE  HeldInv'
  <1>1. ASSUME NEW m \in allocated', ~Contested(m)', frees'[m] = 0
        PROVE  \/ abandoned'[m]
               \/ infer_handle' = m /\ \A t \in Threads : pc'[t] # "forget"
               \/ \E t \in Threads : pc'[t] \in Holding /\ latch'[t] = m
    <2>1. CASE m \notin allocated
      BY <2>1
    <2>2. CASE m \in allocated
      <3>0. ~Contested(m)
        BY <1>1 DEF Contested
      <3>1. \/ abandoned[m]
            \/ infer_handle = m /\ \A t \in Threads : pc[t] # "forget"
            \/ \E t \in Threads : pc[t] \in Holding /\ latch[t] = m
        BY <1>1, <2>2, <3>0 DEF HeldInv
      <3>2. ASSUME NEW t \in Threads, pc[t] \in Holding, latch[t] = m
            PROVE  \E u \in Threads : pc'[u] \in Holding /\ latch'[u] = m
        BY <3>2
      <3> QED BY <3>1, <3>2
    <2> QED BY <2>1, <2>2
  <1> QED BY <1>1 DEF HeldInv, Contested

\* A completion changes one latch, and not whether it is held.
LEMMA CompletionStep ==
    ASSUME OwnerInv, TypeOK', NEW l \in Latches, l \in allocated,
           UNCHANGED <<allocated, abandoned, infer_handle, pc, latch, told, polled, overlap>>,
           \A m \in Latches : m # l => UNCHANGED <<frees[m], done[m], locked[m], status[m], completion[m]>>,
           done[l] => done'[l], frees'[l] # frees[l] => abandoned[l],
           ~Contested(l) => LatchInv(l)'
    PROVE  OwnerInv'
  <1>0. TypeOK /\ HeldInv /\ HandleOK /\ LatchesOK /\ SyncOK /\ InferOK
    BY OwnerParts
  <1>1. \A m : Contested(m)' <=> Contested(m)
    BY DEF Contested
  <1>2. LatchesOK'
    <2>1. ASSUME NEW m \in Latches, ~Contested(m), m # l PROVE LatchInv(m)'
      BY <1>0, <2>1 DEF LatchesOK, LatchInv
    <2> QED BY <1>1, <2>1 DEF LatchesOK
  <1>3. SyncOK'
    <2>1. ASSUME NEW t \in Threads, pc[t] \in SyncStages
          PROVE  frees'[latch[t]] = 0 /\ (done[latch[t]] => done'[latch[t]])
      <3>1. latch[t] \in Latches /\ frees[latch[t]] = 0 /\ ~abandoned[latch[t]]
        BY <1>0, <2>1 DEF SyncOK, SyncInv, TypeOK
      <3> QED BY <3>1
    <2>2. \A t \in Threads : pc[t] = "reap" => pc[t] \in SyncStages
      BY DEF SyncStages
    <2> QED BY <1>0, <2>1, <2>2 DEF SyncOK, SyncInv
  <1>4. HeldInv'
    <2>1. ASSUME NEW m \in allocated, ~Contested(m), frees'[m] = 0, ~abandoned[m] PROVE frees[m] = 0
      BY <1>0, <2>1 DEF TypeOK
    <2> QED BY <1>0, <1>1, <2>1 DEF HeldInv
  <1>5. ASSUME ~overlap PROVE HandleInv' /\ \A t \in Threads : InferInv(t)'
    <2>1. HandleInv /\ \A t \in Threads : InferInv(t)
      BY <1>0, <1>5 DEF InferOK
    <2>2. infer_handle # NoLatch => infer_handle \in Latches /\ frees'[infer_handle] = frees[infer_handle]
      BY <1>0, <2>1 DEF HandleInv, TypeOK
    <2>3. HandleInv'
      BY <2>1, <2>2 DEF HandleInv
    <2>4. ASSUME NEW t \in Threads PROVE InferInv(t)'
      <3>1. pc[t] \in {"keep", "pollreap"} => latch[t] \in Latches /\ frees'[latch[t]] = frees[latch[t]]
        BY <1>0, <2>1 DEF InferInv, SyncOK, SyncInv, TypeOK
      <3>2. pc[t] = "pollreap" => done'[latch[t]]
        BY <1>0, <2>1, <3>1 DEF InferInv
      <3>3. pc[t] = "forget" => frees'[latch[t]] = 1
        BY <1>0, <2>1, <2>2, TransportAssumption DEF InferInv, SyncOK, SyncInv, TypeOK
      <3> QED BY <2>1, <3>1, <3>2, <3>3 DEF InferInv
    <2> QED BY <2>3, <2>4
  <1>6. HandleOK'
    BY <1>0 DEF HandleOK
  <1>7. InferOK'
    BY <1>5 DEF InferOK
  <1> QED BY <1>2, <1>3, <1>4, <1>6, <1>7, OwnerParts DEF OwnerInv, HandleOK, LatchesOK, SyncOK, InferOK

\* Every step of a completion keeps OwnerInv.
LEMMA CompletionsKeep ==
    ASSUME OwnerInv, TypeOK', NEW l \in Latches, Unresolved(l) \/ Complete(l) \/ CompleteUnlock(l)
    PROVE  OwnerInv'
  <1>0. TypeOK /\ (~Contested(l) => LatchInv(l))
    BY DEF OwnerInv
  <1>a. l \in allocated
    <2>1. completion[l] # "none"
      BY DEF Unresolved, Complete, CompleteUnlock
    <2>2. CASE Contested(l)
      BY <1>0, <2>2 DEF Contested, TypeOK
    <2> QED BY <1>0, <2>1, <2>2 DEF LatchInv
  <1>1. CASE Unresolved(l)
    <2>1. /\ completion[l] = "pending" /\ completion' = [completion EXCEPT ![l] = "lost"]
          /\ UNCHANGED <<frees, allocated, locked, done, abandoned, status, infer_handle,
                         pc, latch, told, polled, overlap>>
      BY <1>1 DEF Unresolved, history_vars
    <2>2. ~Contested(l) => LatchInv(l)'
      BY <1>0, <2>1 DEF LatchInv, TypeOK
    <2>3. \A m \in Latches : m # l => UNCHANGED <<frees[m], done[m], locked[m], status[m], completion[m]>>
      BY <1>0, <2>1 DEF TypeOK
    <2> QED BY <1>a, <2>1, <2>2, <2>3, CompletionStep
  <1>2. CASE CompleteUnlock(l)
    <2>1. /\ completion[l] = "unlocking" /\ locked' = [locked EXCEPT ![l] = FALSE]
          /\ completion' = [completion EXCEPT ![l] = "over"]
          /\ UNCHANGED <<frees, allocated, done, abandoned, status, infer_handle, pc, latch, told,
                         polled, overlap>>
      BY <1>2 DEF CompleteUnlock, history_vars
    <2>2. ~Contested(l) => LatchInv(l)'
      BY <1>0, <2>1 DEF LatchInv, TypeOK
    <2>3. \A m \in Latches : m # l => UNCHANGED <<frees[m], done[m], locked[m], status[m], completion[m]>>
      BY <1>0, <2>1 DEF TypeOK
    <2> QED BY <1>a, <2>1, <2>2, <2>3, CompletionStep
  <1>3. CASE Complete(l)
    <2>0. /\ completion[l] = "pending"
          /\ UNCHANGED <<allocated, abandoned, infer_handle, pc, latch, told, polled, overlap>>
      BY <1>3 DEF Complete, history_vars
    <2>1. CASE /\ abandoned[l] /\ frees' = [frees EXCEPT ![l] = @ + 1]
               /\ completion' = [completion EXCEPT ![l] = "over"] /\ UNCHANGED <<locked, done, status>>
      <3>1. ~Contested(l) => LatchInv(l)'
        BY <1>0, <2>0, <2>1 DEF LatchInv, TypeOK
      <3>2. \A m \in Latches : m # l => UNCHANGED <<frees[m], done[m], locked[m], status[m], completion[m]>>
        BY <1>0, <2>0, <2>1 DEF TypeOK
      <3> QED BY <1>a, <2>0, <2>1, <3>1, <3>2, CompletionStep
    <2>2. CASE /\ ~abandoned[l] /\ done' = [done EXCEPT ![l] = TRUE]
               /\ \E s \in Statuses : status' = [status EXCEPT ![l] = s]
               /\ locked' = [locked EXCEPT ![l] = TRUE]
               /\ completion' = [completion EXCEPT ![l] = "unlocking"] /\ UNCHANGED frees
      <3>1. ~Contested(l) => LatchInv(l)'
        BY <1>0, <2>0, <2>2 DEF LatchInv, TypeOK
      <3>2. \A m \in Latches : m # l => UNCHANGED <<frees[m], done[m], locked[m], status[m], completion[m]>>
        BY <1>0, <2>0, <2>2 DEF TypeOK
      <3>3. done'[l]
        BY <1>0, <2>2 DEF TypeOK
      <3> QED BY <1>a, <2>0, <2>2, <3>1, <3>2, <3>3, CompletionStep
    <2> QED BY <1>3, <2>1, <2>2 DEF Complete, Free
  <1> QED BY <1>1, <1>2, <1>3

\* A caller takes its answer, or is told of the deadline: latch l has no party but the
\* thread, and afterwards either nobody or its completion.
LEMMA SettleStep ==
    ASSUME OwnerInv, TypeOK', NEW t \in Threads, pc[t] \in SyncStages, NEW l, latch[t] = l,
           pc' = [pc EXCEPT ![t] = "idle"], latch' = [latch EXCEPT ![t] = NoLatch],
           UNCHANGED <<allocated, infer_handle, polled, overlap, done>>,
           \A m \in Latches : m # l =>
               UNCHANGED <<frees[m], abandoned[m], locked[m], status[m], completion[m], told[m]>>,
           frees'[l] # 0 \/ abandoned'[l],
           LatchInv(l)'
    PROVE  OwnerInv'
  <1>0. TypeOK /\ HeldInv /\ HandleOK /\ LatchesOK /\ SyncOK /\ InferOK
    BY OwnerParts
  <1>1. \A m : Contested(m)' <=> Contested(m)
    BY DEF Contested
  <1>2. /\ l \in Latches /\ l \in allocated /\ l \notin polled /\ l # NoLatch
        /\ \A u \in Threads : pc[u] \in SyncStages /\ latch[u] = l => u = t
    BY <1>0, TransportAssumption DEF SyncOK, SyncInv, TypeOK
  <1>3. \A u \in Threads : u # t => pc'[u] = pc[u] /\ latch'[u] = latch[u]
    BY <1>0 DEF TypeOK
  <1>4. pc'[t] = "idle" /\ latch'[t] = NoLatch
    BY <1>0 DEF TypeOK
  <1>5. infer_handle # l /\ \A u \in Threads : pc[u] \in {"keep", "pollreap", "forget"} => latch[u] # l
    BY <1>0, <1>2 DEF HandleOK, SyncOK, SyncInv
  <1>6. LatchesOK'
    <2>1. ASSUME NEW m \in Latches, ~Contested(m), m # l PROVE LatchInv(m)'
      BY <1>0, <2>1 DEF LatchesOK, LatchInv
    <2> QED BY <1>1, <2>1 DEF LatchesOK
  <1>7. SyncOK'
    <2>1. ASSUME NEW u \in Threads PROVE SyncInv(u)'
      <3>1. CASE u = t
        BY <1>4, <3>1 DEF SyncInv, SyncStages
      <3>2. CASE u # t
        <4>1. SyncInv(u) /\ pc'[u] = pc[u] /\ latch'[u] = latch[u]
          BY <1>0, <1>3, <3>2 DEF SyncOK
        <4>2. pc[u] \in SyncStages => latch[u] \in Latches /\ latch[u] # l
          BY <1>0, <1>2, <3>2, <4>1 DEF SyncInv, TypeOK
        <4>3. pc[u] \in SyncStages => frees'[latch[u]] = frees[latch[u]] /\ abandoned'[latch[u]] = abandoned[latch[u]]
          BY <4>2
        <4>4. \A v \in Threads : pc'[v] \in SyncStages => v # t /\ pc'[v] = pc[v] /\ latch'[v] = latch[v]
          BY <1>3, <1>4 DEF SyncStages
        <4> QED BY <4>1, <4>3, <4>4 DEF SyncInv
      <3> QED BY <3>1, <3>2
    <2> QED BY <2>1 DEF SyncOK
  <1>8. HeldInv'
    <2>1. ASSUME NEW m \in allocated, ~Contested(m), frees'[m] = 0
          PROVE  \/ abandoned'[m]
                 \/ infer_handle' = m /\ \A u \in Threads : pc'[u] # "forget"
                 \/ \E u \in Threads : pc'[u] \in Holding /\ latch'[u] = m
      <3>1. CASE m = l
        BY <2>1, <3>1
      <3>2. CASE m # l
        <4>1. frees[m] = 0 /\ abandoned'[m] = abandoned[m]
          BY <1>0, <2>1, <3>2 DEF TypeOK
        <4>2. \/ abandoned[m]
              \/ infer_handle = m /\ \A u \in Threads : pc[u] # "forget"
              \/ \E u \in Threads : pc[u] \in Holding /\ latch[u] = m
          BY <1>0, <2>1, <4>1 DEF HeldInv
        <4>3. ASSUME NEW u \in Threads, pc[u] \in Holding, latch[u] = m
              PROVE  \E v \in Threads : pc'[v] \in Holding /\ latch'[v] = m
          BY <1>3, <3>2, <4>3
        <4>4. (\A u \in Threads : pc[u] # "forget") => (\A u \in Threads : pc'[u] # "forget")
          BY <1>3, <1>4
        <4> QED BY <4>1, <4>2, <4>3, <4>4
      <3> QED BY <3>1, <3>2
    <2> QED BY <1>1, <2>1 DEF HeldInv
  <1>9. ASSUME ~overlap PROVE HandleInv' /\ \A u \in Threads : InferInv(u)'
    <2>1. HandleInv /\ \A u \in Threads : InferInv(u)
      BY <1>0, <1>9 DEF InferOK
    <2>2. \A m \in Latches : m # l => frees'[m] = frees[m] /\ abandoned'[m] = abandoned[m]
      OBVIOUS
    <2>3. \A u \in Threads : pc[u] = "forget" <=> pc'[u] = "forget"
      BY <1>3, <1>4 DEF SyncStages
    <2>4. HandleInv'
      BY <1>0, <1>5, <2>1, <2>2, <2>3 DEF HandleInv, TypeOK
    <2>5. ASSUME NEW u \in Threads PROVE InferInv(u)'
      <3>1. CASE u = t
        BY <1>4, <3>1 DEF InferInv, InferStages
      <3>2. CASE u # t
        <4>1. InferInv(u) /\ SyncInv(u) /\ pc'[u] = pc[u] /\ latch'[u] = latch[u]
          BY <1>0, <1>3, <2>1, <3>2 DEF SyncOK
        <4>2. pc[u] \in {"keep", "pollreap", "forget"} => latch[u] \in Latches /\ latch[u] # l
          BY <1>0, <1>5, <4>1 DEF SyncInv, TypeOK
        <4>3. pc[u] \in {"keep", "pollreap", "forget"} =>
                frees'[latch[u]] = frees[latch[u]] /\ abandoned'[latch[u]] = abandoned[latch[u]]
          BY <2>2, <4>2
        <4>4. \A v \in Threads : pc'[v] \in InferStages => pc[v] \in InferStages
          BY <1>3, <1>4 DEF InferStages
        <4> QED BY <4>1, <4>3, <4>4 DEF InferInv
      <3> QED BY <3>1, <3>2
    <2> QED BY <2>4, <2>5
  <1>10. HandleOK' /\ InferOK'
    BY <1>0, <1>9 DEF HandleOK, InferOK
  <1> QED BY <1>6, <1>7, <1>8, <1>10 DEF OwnerInv, HandleOK, LatchesOK, SyncOK, InferOK

\* ak_https_request: a fresh latch, and the wait for it.
LEMMA WaitKeeps ==
    ASSUME OwnerInv, TypeOK', NEW t \in Threads, Request(t) \/ Waiting(t) PROVE OwnerInv'
  <1>0. TypeOK /\ HeldInv /\ HandleOK /\ LatchesOK /\ SyncOK /\ InferOK
    BY OwnerParts
  <1>1. CASE Request(t)
    <2>1. PICK l \in Latches : IssueLatch(l) /\ latch' = [latch EXCEPT ![t] = l]
      BY <1>1 DEF Request
    <2>2. /\ l \notin allocated /\ allocated' = allocated \cup {l}
          /\ completion' = [completion EXCEPT ![l] = "pending"]
          /\ UNCHANGED <<frees, locked, done, abandoned, status, infer_handle, told, polled, overlap>>
          /\ pc[t] = "idle" /\ pc' = [pc EXCEPT ![t] = "wait"]
      BY <1>1, <2>1 DEF IssueLatch, Request, Goto, history_vars
    <2>3. \A m : Contested(m)' <=> Contested(m)
      BY <2>2 DEF Contested
    <2>4. ~Contested(l) /\ l \notin polled
      BY <1>0, <2>2 DEF Contested, TypeOK
    <2>5. completion[l] = "none" /\ frees[l] = 0 /\ ~done[l] /\ ~abandoned[l] /\ told[l] = <<>>
      BY <1>0, <2>2, <2>4 DEF LatchesOK, LatchInv
    <2>6. LatchesOK'
      BY <1>0, <2>2, <2>3, <2>5 DEF LatchesOK, TypeOK, LatchInv
    <2>7. /\ \A u \in Threads : u # t => pc'[u] = pc[u] /\ latch'[u] = latch[u]
          /\ pc'[t] = "wait" /\ latch'[t] = l
      BY <1>0, <2>1, <2>2 DEF TypeOK
    <2>8. SyncOK'
      BY <1>0, <2>2, <2>4, <2>5, <2>7 DEF SyncOK, SyncInv, SyncStages
    <2>9. HeldInv'
      <3>1. \A u \in Threads : pc[u] \in Holding => pc'[u] \in Holding /\ latch'[u] = latch[u]
        BY <2>2, <2>7 DEF Holding, SyncStages
      <3>2. \A u \in Threads : pc'[u] = "forget" => pc[u] = "forget"
        BY <2>7
      <3>3. \A m \in allocated' \ allocated : \E u \in Threads : pc'[u] \in Holding /\ latch'[u] = m
        BY <2>2, <2>7 DEF Holding, SyncStages
      <3> QED BY <1>0, <2>2, <3>1, <3>2, <3>3, HeldKept
    <2>10. ASSUME ~overlap PROVE HandleInv' /\ \A u \in Threads : InferInv(u)'
      <3>1. HandleInv /\ \A u \in Threads : InferInv(u)
        BY <1>0, <2>10 DEF InferOK
      <3>2. HandleInv'
        BY <2>2, <2>7, <3>1 DEF HandleInv
      <3>3. \A u \in Threads : InferInv(u)'
        BY <2>2, <2>7, <3>1 DEF InferInv, InferStages
      <3> QED BY <3>2, <3>3
    <2>11. HandleOK' /\ InferOK'
      BY <1>0, <2>2, <2>10 DEF HandleOK, InferOK
    <2> QED BY <2>6, <2>8, <2>9, <2>11 DEF OwnerInv, HandleOK, LatchesOK, SyncOK, InferOK
  <1>2. CASE SeeDone(t) \/ Deadline(t) \/ (Expire(t) /\ done[latch[t]])
    <2>1. PICK s \in {"reap", "expired"} :
            /\ pc[t] \in {"wait", "expired"} /\ pc' = [pc EXCEPT ![t] = s]
            /\ s = "reap" => done[latch[t]]
            /\ UNCHANGED <<frees, allocated, locked, done, abandoned, status, completion, infer_handle,
                           latch, told, polled, overlap>>
      BY <1>2 DEF SeeDone, Deadline, Expire, Goto, latch_vars, history_vars
    <2>2. \A m : Contested(m)' <=> Contested(m)
      BY <2>1 DEF Contested
    <2>3. LatchesOK'
      BY <1>0, <2>1, <2>2 DEF LatchesOK, LatchInv
    <2>4. (\A u \in Threads : u # t => pc'[u] = pc[u]) /\ pc'[t] = s
      BY <1>0, <2>1 DEF TypeOK
    <2>5. SyncOK'
      BY <1>0, <2>1, <2>4 DEF SyncOK, SyncInv, SyncStages
    <2>6. HeldInv'
      <3>1. \A u \in Threads : pc[u] \in Holding => pc'[u] \in Holding /\ latch'[u] = latch[u]
        BY <2>1, <2>4 DEF Holding, SyncStages
      <3>2. \A u \in Threads : pc'[u] = "forget" => pc[u] = "forget"
        BY <2>1, <2>4
      <3> QED BY <1>0, <2>1, <3>1, <3>2, HeldKept
    <2>7. ASSUME ~overlap PROVE HandleInv' /\ \A u \in Threads : InferInv(u)'
      <3>1. HandleInv /\ \A u \in Threads : InferInv(u)
        BY <1>0, <2>7 DEF InferOK
      <3>2. HandleInv'
        BY <2>1, <2>4, <3>1 DEF HandleInv
      <3>3. \A u \in Threads : InferInv(u)'
        BY <2>1, <2>4, <3>1 DEF InferInv, InferStages
      <3> QED BY <3>2, <3>3
    <2>8. HandleOK' /\ InferOK'
      BY <1>0, <2>1, <2>7 DEF HandleOK, InferOK
    <2> QED BY <2>3, <2>5, <2>6, <2>8 DEF OwnerInv, HandleOK, LatchesOK, SyncOK, InferOK
  <1>3. ASSUME pc[t] \in SyncStages
        PROVE  /\ latch[t] \in Latches /\ latch[t] \in allocated /\ frees[latch[t]] = 0
               /\ ~abandoned[latch[t]] /\ LatchInv(latch[t]) /\ told[latch[t]] = <<>>
    <2>1. /\ latch[t] \in Latches /\ latch[t] \in allocated /\ latch[t] \notin polled
          /\ frees[latch[t]] = 0 /\ ~abandoned[latch[t]]
      BY <1>0, <1>3 DEF SyncOK, SyncInv, TypeOK
    <2>2. LatchInv(latch[t])
      BY <1>0, <2>1 DEF LatchesOK, Contested
    <2> QED BY <2>1, <2>2 DEF LatchInv
  <1>4. CASE Expire(t) /\ ~done[latch[t]]
    <2>0. PICK l : l = latch[t]
      OBVIOUS
    <2>1. /\ pc[t] = "expired" /\ ~locked[l]
          /\ abandoned' = [abandoned EXCEPT ![l] = TRUE]
          /\ told' = [told EXCEPT ![l] = Append(@, "timeout")]
          /\ pc' = [pc EXCEPT ![t] = "idle"] /\ latch' = [latch EXCEPT ![t] = NoLatch]
          /\ UNCHANGED <<frees, allocated, locked, done, status, completion, infer_handle, polled, overlap>>
      BY <1>4, <2>0 DEF Expire, Goto, Tell, history_vars
    <2>2. pc[t] \in SyncStages
      BY <2>1 DEF SyncStages
    <2>3. /\ l \in Latches /\ l \in allocated /\ frees[l] = 0 /\ ~abandoned[l]
          /\ LatchInv(l) /\ told[l] = <<>> /\ ~done[l]
      BY <1>3, <1>4, <2>0, <2>2
    <2>4. told' = [told EXCEPT ![l] = <<"timeout">>]
      BY <2>1, <2>3
    <2>5. LatchInv(l)'
      BY <1>0, <2>1, <2>3, <2>4 DEF TypeOK, LatchInv
    <2>6. abandoned'[l]
      BY <1>0, <2>1, <2>3 DEF TypeOK
    <2>7. \A m \in Latches : m # l =>
            UNCHANGED <<frees[m], abandoned[m], locked[m], status[m], completion[m], told[m]>>
      BY <1>0, <2>1, <2>3, <2>4 DEF TypeOK
    <2> QED BY <2>0, <2>1, <2>2, <2>5, <2>6, <2>7, SettleStep
  <1>5. CASE Reap(t)
    <2>0. PICK l : l = latch[t]
      OBVIOUS
    <2>1. /\ pc[t] = "reap" /\ frees' = [frees EXCEPT ![l] = @ + 1]
          /\ told' = [told EXCEPT ![l] = Append(@, status[l])]
          /\ pc' = [pc EXCEPT ![t] = "idle"] /\ latch' = [latch EXCEPT ![t] = NoLatch]
          /\ UNCHANGED <<allocated, locked, done, abandoned, status, completion, infer_handle, polled, overlap>>
      BY <1>5, <2>0 DEF Reap, Goto, Tell, Free, history_vars
    <2>2. pc[t] \in SyncStages
      BY <2>1 DEF SyncStages
    <2>3. /\ l \in Latches /\ l \in allocated /\ frees[l] = 0 /\ ~abandoned[l]
          /\ LatchInv(l) /\ told[l] = <<>> /\ done[l]
      BY <1>0, <1>3, <2>0, <2>1, <2>2 DEF SyncOK, SyncInv
    <2>4. told' = [told EXCEPT ![l] = <<status[l]>>] /\ frees' = [frees EXCEPT ![l] = 1]
      BY <2>1, <2>3
    <2>5. LatchInv(l)'
      BY <1>0, <2>1, <2>3, <2>4 DEF TypeOK, LatchInv
    <2>6. frees'[l] # 0
      BY <1>0, <2>3, <2>4 DEF TypeOK
    <2>7. \A m \in Latches : m # l =>
            UNCHANGED <<frees[m], abandoned[m], locked[m], status[m], completion[m], told[m]>>
      BY <1>0, <2>1, <2>3, <2>4 DEF TypeOK
    <2> QED BY <2>0, <2>1, <2>2, <2>5, <2>6, <2>7, SettleStep
  <1> QED BY <1>1, <1>2, <1>4, <1>5 DEF Waiting

\* Another thread's part of SyncInv does not see a step that touches only latches of
\* infer_issue.
LEMMA OthersSync ==
    ASSUME TypeOK, SyncOK, NEW t \in Threads, pc[t] \notin SyncStages, pc'[t] \notin SyncStages,
           \A u \in Threads : u # t => pc'[u] = pc[u] /\ latch'[u] = latch[u],
           allocated \subseteq allocated', polled \subseteq polled', polled' \cap allocated = polled,
           \A m \in allocated \ polled : frees'[m] = frees[m],
           UNCHANGED <<abandoned, done>>,
           pc'[t] \in {"idle", "issue"} => latch'[t] = NoLatch,
           pc'[t] \in {"keep", "pollreap", "forget"} => latch'[t] \in polled'
    PROVE  SyncOK'
  <1>1. ASSUME NEW u \in Threads PROVE SyncInv(u)'
    <2>1. CASE u = t
      BY <2>1 DEF SyncInv, SyncStages
    <2>2. CASE u # t
      <3>1. SyncInv(u) /\ pc'[u] = pc[u] /\ latch'[u] = latch[u]
        BY <2>2 DEF SyncOK
      <3>2. \A v \in Threads : pc'[v] \in SyncStages => pc[v] \in SyncStages /\ latch'[v] = latch[v]
        OBVIOUS
      <3>3. pc[u] \in SyncStages => latch[u] \in allocated' \ polled' /\ frees'[latch[u]] = frees[latch[u]]
        BY <3>1 DEF SyncInv
      <3> QED BY <3>1, <3>2, <3>3 DEF SyncInv
    <2> QED BY <2>1, <2>2
  <1> QED BY <1>1 DEF SyncOK

\* Entering an inference call without overlap: nobody else is in one.
LEMMA EnterAlone ==
    ASSUME NEW t \in Threads, Enter(t), ~overlap'
    PROVE  ~overlap /\ \A u \in Threads : u # t => pc[u] \notin InferStages
  BY Zenon DEF Enter

\* ak_handle_infer_issue keeps OwnerInv.
LEMMA IssueKeeps ==
    ASSUME OwnerInv, TypeOK', NEW t \in Threads, InferIssue(t) \/ InferSend(t) \/ InferKeep(t)
    PROVE  OwnerInv'
  <1>0. TypeOK /\ HeldInv /\ HandleOK /\ LatchesOK /\ SyncOK /\ InferOK
    BY OwnerParts
  <1>1. CASE InferIssue(t)
    <2>1. /\ pc[t] = "idle" /\ pc' = [pc EXCEPT ![t] = "issue"] /\ infer_handle = NoLatch /\ Enter(t)
          /\ UNCHANGED <<frees, allocated, locked, done, abandoned, status, completion, infer_handle,
                         latch, told, polled>>
      BY <1>1 DEF InferIssue, Goto, latch_vars
    <2>2. overlap => overlap'
      BY <2>1, Zenon DEF Enter
    <2>3. \A m : ~Contested(m)' => ~Contested(m)
      BY <2>1, <2>2 DEF Contested
    <2>4. (\A u \in Threads : u # t => pc'[u] = pc[u] /\ latch'[u] = latch[u]) /\ pc'[t] = "issue" /\ latch'[t] = NoLatch
      BY <1>0, <2>1 DEF TypeOK, SyncOK, SyncInv
    <2>5. LatchesOK'
      BY <1>0, <2>1, <2>3 DEF LatchesOK, LatchInv
    <2>6. SyncOK'
      <3>1. pc[t] \notin SyncStages /\ pc'[t] \notin SyncStages /\ polled' \cap allocated = polled
        BY <1>0, <2>1, <2>4 DEF SyncStages, TypeOK
      <3> QED BY <1>0, <2>1, <2>4, <3>1, OthersSync
    <2>7. HeldInv'
      <3>1. \A u \in Threads : pc[u] \in Holding => pc'[u] \in Holding /\ latch'[u] = latch[u]
        BY <2>1, <2>4 DEF Holding, SyncStages
      <3>2. \A u \in Threads : pc'[u] = "forget" => pc[u] = "forget"
        BY <2>1, <2>4
      <3> QED BY <1>0, <2>1, <2>2, <3>1, <3>2, HeldKept
    <2>8. ASSUME ~overlap' PROVE HandleInv' /\ \A u \in Threads : InferInv(u)'
      <3>1. ~overlap /\ \A u \in Threads : u # t => pc[u] \notin InferStages
        BY <2>1, <2>8, EnterAlone
      <3>2. HandleInv /\ \A u \in Threads : InferInv(u)
        BY <1>0, <3>1 DEF InferOK
      <3>3. HandleInv'
        BY <2>1, <2>4, <3>2 DEF HandleInv
      <3>4. \A u \in Threads : InferInv(u)'
        BY <2>1, <2>4, <3>1, <3>2 DEF InferInv, InferStages
      <3> QED BY <3>3, <3>4
    <2>9. HandleOK' /\ InferOK'
      BY <1>0, <2>1, <2>8 DEF HandleOK, InferOK
    <2> QED BY <2>5, <2>6, <2>7, <2>9 DEF OwnerInv, HandleOK, LatchesOK, SyncOK, InferOK
  <1>2. ASSUME pc[t] = "issue", pc' = [pc EXCEPT ![t] = "idle"],
               UNCHANGED <<frees, allocated, locked, done, abandoned, status, completion, infer_handle,
                           latch, told, polled, overlap>>
        PROVE  OwnerInv'
    <2>3. \A m : Contested(m)' <=> Contested(m)
      BY <1>2 DEF Contested
    <2>4. (\A u \in Threads : u # t => pc'[u] = pc[u] /\ latch'[u] = latch[u]) /\ pc'[t] = "idle" /\ latch'[t] = NoLatch
      BY <1>0, <1>2 DEF TypeOK, SyncOK, SyncInv
    <2>5. LatchesOK'
      BY <1>0, <1>2, <2>3 DEF LatchesOK, LatchInv
    <2>6. SyncOK'
      <3>1. pc[t] \notin SyncStages /\ pc'[t] \notin SyncStages /\ polled' \cap allocated = polled
        BY <1>0, <1>2, <2>4 DEF SyncStages, TypeOK
      <3> QED BY <1>0, <1>2, <2>4, <3>1, OthersSync
    <2>7. HeldInv'
      <3>1. \A u \in Threads : pc[u] \in Holding => pc'[u] \in Holding /\ latch'[u] = latch[u]
        BY <1>2, <2>4 DEF Holding, SyncStages
      <3>2. \A u \in Threads : pc'[u] = "forget" => pc[u] = "forget"
        BY <1>2, <2>4
      <3> QED BY <1>0, <1>2, <3>1, <3>2, HeldKept
    <2>8. ASSUME ~overlap' PROVE HandleInv' /\ \A u \in Threads : InferInv(u)'
      <3>2. HandleInv /\ \A u \in Threads : InferInv(u)
        BY <1>0, <1>2, <2>8 DEF InferOK
      <3>3. HandleInv'
        BY <1>2, <2>4, <3>2 DEF HandleInv
      <3>4. \A u \in Threads : InferInv(u)'
        BY <1>2, <2>4, <3>2 DEF InferInv, InferStages
      <3> QED BY <3>3, <3>4
    <2>9. HandleOK' /\ InferOK'
      BY <1>0, <1>2, <2>8 DEF HandleOK, InferOK
    <2> QED BY <2>5, <2>6, <2>7, <2>9 DEF OwnerInv, HandleOK, LatchesOK, SyncOK, InferOK
  <1>3. ASSUME NEW l \in Latches, IssueLatch(l), latch' = [latch EXCEPT ![t] = l], polled' = polled \cup {l},
               pc[t] = "issue", pc' = [pc EXCEPT ![t] = "keep"], UNCHANGED <<infer_handle, told, overlap>>
        PROVE  OwnerInv'
    <2>1. /\ l \notin allocated /\ allocated' = allocated \cup {l}
          /\ completion' = [completion EXCEPT ![l] = "pending"]
          /\ UNCHANGED <<frees, locked, done, abandoned, status>>
      BY <1>3 DEF IssueLatch
    <2>2. \A m : ~Contested(m)' => ~Contested(m)
      BY <1>3 DEF Contested
    <2>3. ~Contested(l) /\ l \notin polled
      BY <1>0, <2>1 DEF Contested, TypeOK
    <2>4. completion[l] = "none" /\ frees[l] = 0 /\ ~done[l] /\ ~abandoned[l] /\ told[l] = <<>>
      BY <1>0, <2>1, <2>3 DEF LatchesOK, LatchInv
    <2>5. LatchesOK'
      BY <1>0, <1>3, <2>1, <2>2, <2>4 DEF LatchesOK, TypeOK, LatchInv
    <2>6. (\A u \in Threads : u # t => pc'[u] = pc[u] /\ latch'[u] = latch[u]) /\ pc'[t] = "keep" /\ latch'[t] = l
      BY <1>0, <1>3 DEF TypeOK
    <2>7. SyncOK'
      <3>1. pc[t] \notin SyncStages /\ pc'[t] \notin SyncStages /\ polled' \cap allocated = polled
        BY <1>0, <1>3, <2>1, <2>6 DEF SyncStages, TypeOK
      <3>2. allocated \subseteq allocated' /\ polled \subseteq polled' /\ l \in polled'
        BY <1>3, <2>1
      <3> QED BY <1>0, <2>1, <2>6, <3>1, <3>2, OthersSync
    <2>8. HeldInv'
      <3>1. \A u \in Threads : pc[u] \in Holding => pc'[u] \in Holding /\ latch'[u] = latch[u]
        BY <1>3, <2>6 DEF Holding, SyncStages
      <3>2. \A u \in Threads : pc'[u] = "forget" => pc[u] = "forget"
        BY <1>3, <2>6
      <3>3. \A m \in allocated' \ allocated : \E u \in Threads : pc'[u] \in Holding /\ latch'[u] = m
        BY <2>1, <2>6 DEF Holding
      <3>4. allocated \subseteq allocated' /\ polled \subseteq polled'
        BY <1>3, <2>1
      <3> QED BY <1>0, <1>3, <2>1, <3>1, <3>2, <3>3, <3>4, HeldKept
    <2>9. ASSUME ~overlap' PROVE HandleInv' /\ \A u \in Threads : InferInv(u)'
      <3>2. HandleInv /\ \A u \in Threads : InferInv(u)
        BY <1>0, <1>3, <2>9 DEF InferOK
      <3>3. HandleInv'
        BY <1>3, <2>1, <2>6, <3>2 DEF HandleInv
      <3>4. \A u \in Threads : InferInv(u)'
        BY <1>3, <2>1, <2>4, <2>6, <3>2 DEF InferInv, InferStages
      <3> QED BY <3>3, <3>4
    <2>10. HandleOK' /\ InferOK'
      BY <1>0, <1>3, <2>9 DEF HandleOK, InferOK
    <2> QED BY <2>5, <2>7, <2>8, <2>10 DEF OwnerInv, HandleOK, LatchesOK, SyncOK, InferOK
  <1>4. CASE InferSend(t)
    <2>1. pc[t] = "issue" /\ UNCHANGED <<infer_handle, told, overlap>>
      BY <1>4 DEF InferSend
    <2>2. CASE pc' = [pc EXCEPT ![t] = "idle"] /\ UNCHANGED <<latch_vars, latch, polled>>
      BY <1>2, <2>1, <2>2 DEF latch_vars
    <2>3. CASE /\ \E l \in Latches : /\ IssueLatch(l) /\ latch' = [latch EXCEPT ![t] = l]
                                     /\ polled' = polled \cup {l}
               /\ pc' = [pc EXCEPT ![t] = "keep"]
      BY <1>3, <2>1, <2>3
    <2> QED BY <1>4, <2>2, <2>3 DEF InferSend, Goto
  <1>5. CASE InferKeep(t)
    <2>1. /\ pc[t] = "keep" /\ infer_handle' = latch[t]
          /\ pc' = [pc EXCEPT ![t] = "idle"] /\ latch' = [latch EXCEPT ![t] = NoLatch]
          /\ UNCHANGED <<frees, allocated, locked, done, abandoned, status, completion, told, polled, overlap>>
      BY <1>5 DEF InferKeep, Goto, latch_vars, history_vars
    <2>2. latch[t] \in polled /\ latch[t] \in allocated /\ latch[t] \in Latches
      BY <1>0, <2>1 DEF SyncOK, SyncInv, TypeOK
    <2>3. \A m : Contested(m)' <=> Contested(m)
      BY <2>1 DEF Contested
    <2>4. (\A u \in Threads : u # t => pc'[u] = pc[u] /\ latch'[u] = latch[u]) /\ pc'[t] = "idle" /\ latch'[t] = NoLatch
      BY <1>0, <2>1 DEF TypeOK
    <2>5. LatchesOK'
      BY <1>0, <2>1, <2>3 DEF LatchesOK, LatchInv
    <2>6. SyncOK'
      <3>1. pc[t] \notin SyncStages /\ pc'[t] \notin SyncStages /\ polled' \cap allocated = polled
        BY <1>0, <2>1, <2>4 DEF SyncStages, TypeOK
      <3> QED BY <1>0, <2>1, <2>4, <3>1, OthersSync
    <2>7. ASSUME ~overlap
          PROVE  /\ HandleInv /\ infer_handle = NoLatch /\ frees[latch[t]] = 0 /\ ~abandoned[latch[t]]
                 /\ \A u \in Threads : pc[u] \in InferStages => u = t
                 /\ \A u \in Threads : InferInv(u)
      BY <1>0, <2>1, <2>7 DEF InferOK, InferInv, InferStages
    <2>8. ASSUME ~overlap' PROVE HandleInv' /\ \A u \in Threads : InferInv(u)'
      <3>1. \A u \in Threads : pc'[u] \notin InferStages
        BY <2>1, <2>4, <2>7, <2>8 DEF InferStages
      <3>2. \A u \in Threads : InferInv(u)'
        BY <3>1 DEF InferInv, InferStages
      <3>3. HandleInv'
        BY <2>1, <2>7, <2>8 DEF HandleInv
      <3> QED BY <3>2, <3>3
    <2>9. HeldInv'
      <3>1. ASSUME NEW m \in allocated, ~Contested(m), frees[m] = 0, ~abandoned[m], m # latch[t]
            PROVE  \E u \in Threads : pc'[u] \in Holding /\ latch'[u] = m
        <4>1. infer_handle # m
          BY <1>0, <2>7, <3>1, TransportAssumption DEF Contested, HandleOK, TypeOK
        <4>2. PICK u \in Threads : pc[u] \in Holding /\ latch[u] = m
          BY <1>0, <3>1, <4>1 DEF HeldInv
        <4> QED BY <2>4, <3>1, <4>2
      <3>2. ASSUME ~Contested(latch[t]) PROVE \A u \in Threads : pc'[u] # "forget"
        <4>1. ~overlap
          BY <2>2, <3>2 DEF Contested
        <4> QED BY <2>4, <2>7, <4>1 DEF InferStages
      <3>3. ASSUME NEW m \in allocated', ~Contested(m)', frees'[m] = 0
            PROVE  \/ abandoned'[m]
                   \/ infer_handle' = m /\ \A u \in Threads : pc'[u] # "forget"
                   \/ \E u \in Threads : pc'[u] \in Holding /\ latch'[u] = m
        BY <2>1, <2>3, <3>1, <3>2, <3>3
      <3> QED BY <3>3 DEF HeldInv, Contested
    <2>10. HandleOK' /\ InferOK'
      BY <2>1, <2>2, <2>8 DEF HandleOK, InferOK
    <2> QED BY <2>5, <2>6, <2>9, <2>10 DEF OwnerInv, HandleOK, LatchesOK, SyncOK, InferOK
  <1> QED BY <1>1, <1>4, <1>5

\* ak_handle_infer_poll keeps OwnerInv.
LEMMA PollKeeps ==
    ASSUME OwnerInv, TypeOK', NEW t \in Threads, InferPoll(t) \/ InferReap(t) \/ InferForget(t)
    PROVE  OwnerInv'
  <1>0. TypeOK /\ HeldInv /\ HandleOK /\ LatchesOK /\ SyncOK /\ InferOK
    BY OwnerParts
  <1>1. CASE InferPoll(t)
    <2>1. /\ pc[t] = "idle" /\ infer_handle # NoLatch /\ done[infer_handle] /\ Enter(t)
          /\ pc' = [pc EXCEPT ![t] = "pollreap"] /\ latch' = [latch EXCEPT ![t] = infer_handle]
          /\ UNCHANGED <<frees, allocated, locked, done, abandoned, status, completion, infer_handle,
                         told, polled>>
      BY <1>1 DEF InferPoll, PollDone, Goto, latch_vars
    <2>2. overlap => overlap'
      BY <2>1, Zenon DEF Enter
    <2>3. \A m : ~Contested(m)' => ~Contested(m)
      BY <2>1, <2>2 DEF Contested
    <2>4. (\A u \in Threads : u # t => pc'[u] = pc[u] /\ latch'[u] = latch[u]) /\ pc'[t] = "pollreap" /\ latch'[t] = infer_handle
      BY <1>0, <2>1 DEF TypeOK
    <2>5. LatchesOK'
      BY <1>0, <2>1, <2>3 DEF LatchesOK, LatchInv
    <2>6. SyncOK'
      <3>1. /\ pc[t] \notin SyncStages /\ pc'[t] \notin SyncStages /\ polled' \cap allocated = polled
            /\ latch'[t] \in polled'
        BY <1>0, <2>1, <2>4 DEF SyncStages, TypeOK, HandleOK
      <3> QED BY <1>0, <2>1, <2>4, <3>1, OthersSync
    <2>7. HeldInv'
      <3>1. \A u \in Threads : pc[u] \in Holding => pc'[u] \in Holding /\ latch'[u] = latch[u]
        BY <2>1, <2>4 DEF Holding, SyncStages
      <3>2. \A u \in Threads : pc'[u] = "forget" => pc[u] = "forget"
        BY <2>1, <2>4
      <3> QED BY <1>0, <2>1, <2>2, <3>1, <3>2, HeldKept
    <2>8. ASSUME ~overlap' PROVE HandleInv' /\ \A u \in Threads : InferInv(u)'
      <3>1. ~overlap /\ \A u \in Threads : u # t => pc[u] \notin InferStages
        BY <2>1, <2>8, EnterAlone
      <3>2. HandleInv /\ \A u \in Threads : InferInv(u)
        BY <1>0, <3>1 DEF InferOK
      <3>3. \A u \in Threads : pc[u] # "forget"
        BY <2>1, <3>1 DEF InferStages
      <3>4. ~abandoned[infer_handle] /\ frees[infer_handle] = 0
        BY <2>1, <3>2, <3>3 DEF HandleInv
      <3>5. HandleInv'
        BY <2>1, <3>4 DEF HandleInv
      <3>6. \A u \in Threads : InferInv(u)'
        BY <2>1, <2>4, <3>1, <3>2, <3>4 DEF InferInv, InferStages
      <3> QED BY <3>5, <3>6
    <2>9. HandleOK' /\ InferOK'
      BY <1>0, <2>1, <2>8 DEF HandleOK, InferOK
    <2> QED BY <2>5, <2>6, <2>7, <2>9 DEF OwnerInv, HandleOK, LatchesOK, SyncOK, InferOK
  <1>2. CASE InferReap(t)
    <2>0. PICK l : l = latch[t]
      OBVIOUS
    <2>1. /\ pc[t] = "pollreap" /\ frees' = [frees EXCEPT ![l] = @ + 1]
          /\ told' = [told EXCEPT ![l] = Append(@, status[l])]
          /\ pc' = [pc EXCEPT ![t] = "forget"]
          /\ UNCHANGED <<allocated, locked, done, abandoned, status, completion, infer_handle, latch, polled, overlap>>
      BY <1>2, <2>0 DEF InferReap, Goto, Tell, Free, history_vars
    <2>2. l \in polled /\ l \in allocated /\ l \in Latches
      BY <1>0, <2>0, <2>1 DEF SyncOK, SyncInv, TypeOK
    <2>3. \A m : Contested(m)' <=> Contested(m)
      BY <2>1 DEF Contested
    <2>4. (\A u \in Threads : u # t => pc'[u] = pc[u] /\ latch'[u] = latch[u]) /\ pc'[t] = "forget" /\ latch'[t] = l
      BY <1>0, <2>0, <2>1 DEF TypeOK
    <2>5. ASSUME ~overlap
          PROVE  /\ HandleInv /\ infer_handle = l /\ frees[l] = 0 /\ ~abandoned[l] /\ done[l]
                 /\ \A u \in Threads : pc[u] \in InferStages => u = t
                 /\ \A u \in Threads : InferInv(u)
      BY <1>0, <2>0, <2>1, <2>5 DEF InferOK, InferInv, InferStages
    <2>6. frees'[l] = frees[l] + 1 /\ frees[l] \in Nat /\ \A m \in Latches : m # l => frees'[m] = frees[m] /\ told'[m] = told[m]
      BY <1>0, <2>1, <2>2 DEF TypeOK
    <2>7. LatchesOK'
      <3>1. ASSUME NEW m \in Latches, ~Contested(m), m # l PROVE LatchInv(m)'
        BY <1>0, <2>1, <2>6, <3>1 DEF LatchesOK, LatchInv
      <3>2. ASSUME ~Contested(l) PROVE LatchInv(l)'
        <4>1. ~overlap /\ LatchInv(l)
          BY <1>0, <2>2, <3>2 DEF Contested, LatchesOK
        <4>2. frees[l] = 0 /\ ~abandoned[l] /\ done[l]
          BY <2>5, <4>1
        <4>3. told[l] = <<>>
          BY <4>1, <4>2 DEF LatchInv
        <4>4. told'[l] = <<status[l]>> /\ frees'[l] = 1
          BY <1>0, <2>1, <2>2, <2>6, <4>2, <4>3 DEF TypeOK
        <4>5. /\ completion[l] \notin {"none", "pending", "lost"} /\ status[l] \in Statuses
              /\ locked[l] => completion[l] = "unlocking"
          BY <4>1, <4>2 DEF LatchInv
        <4>6. /\ completion'[l] = completion[l] /\ status'[l] = status[l] /\ locked'[l] = locked[l]
              /\ done'[l] = done[l] /\ abandoned'[l] = abandoned[l] /\ l \in allocated'
          BY <2>1, <2>2
        <4> QED BY <4>2, <4>4, <4>5, <4>6 DEF LatchInv
      <3> QED BY <2>3, <3>1, <3>2 DEF LatchesOK
    <2>8. SyncOK'
      <3>1. /\ pc[t] \notin SyncStages /\ pc'[t] \notin SyncStages /\ polled' \cap allocated = polled
            /\ latch'[t] \in polled' /\ \A m \in allocated \ polled : frees'[m] = frees[m]
        BY <1>0, <2>1, <2>2, <2>4, <2>6 DEF SyncStages, TypeOK
      <3> QED BY <1>0, <2>1, <2>4, <3>1, OthersSync
    <2>9. HeldInv'
      <3>1. ASSUME NEW m \in allocated', ~Contested(m)', frees'[m] = 0
            PROVE  \/ abandoned'[m]
                   \/ infer_handle' = m /\ \A u \in Threads : pc'[u] # "forget"
                   \/ \E u \in Threads : pc'[u] \in Holding /\ latch'[u] = m
        <4>1. m \in allocated /\ m \in Latches /\ m # l /\ ~Contested(m) /\ frees[m] = 0
          BY <1>0, <2>1, <2>3, <2>6, <3>1 DEF TypeOK
        <4>2. infer_handle # m
          BY <1>0, <2>5, <4>1, TransportAssumption DEF Contested, HandleOK
        <4>3. abandoned[m] \/ \E u \in Threads : pc[u] \in Holding /\ latch[u] = m
          BY <1>0, <4>1, <4>2 DEF HeldInv
        <4>4. ASSUME NEW u \in Threads, pc[u] \in Holding, latch[u] = m
              PROVE  \E v \in Threads : pc'[v] \in Holding /\ latch'[v] = m
          BY <2>0, <2>4, <4>1, <4>4
        <4> QED BY <2>1, <4>3, <4>4
      <3> QED BY <3>1 DEF HeldInv, Contested
    <2>10. ASSUME ~overlap' PROVE HandleInv' /\ \A u \in Threads : InferInv(u)'
      <3>1. /\ infer_handle = l /\ frees[l] = 0 /\ ~abandoned[l]
            /\ \A u \in Threads : pc[u] \in InferStages => u = t
        BY <2>1, <2>5, <2>10
      <3>2. \A u \in Threads : u # t => pc'[u] \notin InferStages
        BY <2>4, <3>1
      <3>3. HandleInv'
        BY <2>1, <2>4, <3>1 DEF HandleInv
      <3>4. \A u \in Threads : InferInv(u)'
        BY <2>1, <2>4, <2>6, <3>1, <3>2 DEF InferInv, InferStages
      <3> QED BY <3>3, <3>4
    <2>11. HandleOK' /\ InferOK'
      BY <1>0, <2>1, <2>10 DEF HandleOK, InferOK
    <2> QED BY <2>7, <2>8, <2>9, <2>11 DEF OwnerInv, HandleOK, LatchesOK, SyncOK, InferOK
  <1>3. CASE InferForget(t)
    <2>1. /\ pc[t] = "forget" /\ infer_handle' = NoLatch
          /\ pc' = [pc EXCEPT ![t] = "idle"] /\ latch' = [latch EXCEPT ![t] = NoLatch]
          /\ UNCHANGED <<frees, allocated, locked, done, abandoned, status, completion, told, polled, overlap>>
      BY <1>3 DEF InferForget, Goto, latch_vars, history_vars
    <2>2. latch[t] \in polled
      BY <1>0, <2>1 DEF SyncOK, SyncInv
    <2>3. \A m : Contested(m)' <=> Contested(m)
      BY <2>1 DEF Contested
    <2>4. (\A u \in Threads : u # t => pc'[u] = pc[u] /\ latch'[u] = latch[u]) /\ pc'[t] = "idle" /\ latch'[t] = NoLatch
      BY <1>0, <2>1 DEF TypeOK
    <2>5. LatchesOK'
      BY <1>0, <2>1, <2>3 DEF LatchesOK, LatchInv
    <2>6. SyncOK'
      <3>1. pc[t] \notin SyncStages /\ pc'[t] \notin SyncStages /\ polled' \cap allocated = polled
        BY <1>0, <2>1, <2>4 DEF SyncStages, TypeOK
      <3> QED BY <1>0, <2>1, <2>4, <3>1, OthersSync
    <2>7. ASSUME ~overlap
          PROVE  /\ infer_handle = latch[t] /\ frees[latch[t]] = 1
                 /\ \A u \in Threads : pc[u] \in InferStages => u = t
      BY <1>0, <2>1, <2>7 DEF InferOK, InferInv, InferStages
    <2>8. HeldInv'
      <3>1. ASSUME NEW m \in allocated', ~Contested(m)', frees'[m] = 0, ~abandoned'[m]
            PROVE  \E u \in Threads : pc'[u] \in Holding /\ latch'[u] = m
        <4>1. m \in allocated /\ ~Contested(m) /\ frees[m] = 0 /\ ~abandoned[m]
          BY <2>1, <2>3, <3>1
        <4>2. infer_handle # m
          <5>1. CASE overlap
            BY <1>0, <4>1, <5>1, TransportAssumption DEF Contested, HandleOK, TypeOK
          <5>2. CASE ~overlap
            BY <2>7, <4>1, <5>2
          <5> QED BY <5>1, <5>2
        <4>3. PICK u \in Threads : pc[u] \in Holding /\ latch[u] = m
          BY <1>0, <4>1, <4>2 DEF HeldInv
        <4>4. u # t
          BY <2>1, <4>3 DEF Holding, SyncStages
        <4> QED BY <2>4, <4>3, <4>4
      <3> QED BY <3>1 DEF HeldInv, Contested
    <2>9. ASSUME ~overlap' PROVE HandleInv' /\ \A u \in Threads : InferInv(u)'
      <3>1. \A u \in Threads : pc'[u] \notin InferStages
        BY <2>1, <2>4, <2>7, <2>9 DEF InferStages
      <3>2. \A u \in Threads : InferInv(u)'
        BY <3>1 DEF InferInv, InferStages
      <3> QED BY <2>1, <3>2 DEF HandleInv
    <2>10. HandleOK' /\ InferOK'
      BY <2>1, <2>9 DEF HandleOK, InferOK
    <2> QED BY <2>5, <2>6, <2>8, <2>10 DEF OwnerInv, HandleOK, LatchesOK, SyncOK, InferOK
  <1> QED BY <1>1, <1>2, <1>3

\* Every step of the completion, of a caller and of the agent keeps OwnerInv.
LEMMA OwnerStep == ASSUME OwnerInv, [Next]_vars PROVE OwnerInv'
  <1>0. TypeOK'
    BY TypeStep DEF OwnerInv
  <1>1. CASE ak_transport_register_https \/ UNCHANGED vars
    <2>1. UNCHANGED <<latch_vars, infer_handle, pc, latch, told, polled, overlap>>
      BY <1>1 DEF ak_transport_register_https, vars, history_vars
    <2>2. HandleInv <=> HandleInv'
      BY <2>1 DEF HandleInv, latch_vars
    <2>3. HeldInv'
      BY <2>1 DEF OwnerInv, HeldInv, Contested, latch_vars
    <2>4. (\A l \in Latches : LatchInv(l)' <=> LatchInv(l)) /\ (\A l \in Latches : Contested(l)' <=> Contested(l))
      BY <2>1 DEF LatchInv, Contested, latch_vars
    <2>5. \A t \in Threads : (SyncInv(t)' <=> SyncInv(t)) /\ (InferInv(t)' <=> InferInv(t))
      BY <2>1 DEF SyncInv, InferInv, latch_vars
    <2> QED BY <1>0, <2>1, <2>2, <2>3, <2>4, <2>5 DEF OwnerInv
  <1> QED BY <1>0, <1>1, CompletionsKeep, WaitKeeps, IssueKeeps, PollKeeps DEF Next, Inferring

-----------------------------------------------------------------------------
(* What OwnerInv says of owners and answers *)

\* A live latch has one owner, unless its completion is lost; a freed one has none.
LEMMA OneOwner == ASSUME OwnerInv PROVE LatchOwned
  <1> USE TransportAssumption
  <1> SUFFICES ASSUME NEW l \in allocated, ~Contested(l)
               PROVE  /\ frees[l] <= 1
                      /\ Cardinality(Owners(l)) = IF Leaked(l) THEN 0 ELSE 1 - frees[l]
                      /\ completion[l] = "pending" => Live(l)
    BY DEF LatchOwned
  <1>0. l \in Latches /\ LatchInv(l) /\ l # NoLatch /\ frees[l] \in {0, 1}
    <2>1. l \in Latches /\ LatchInv(l) /\ frees[l] \in Nat
      BY DEF OwnerInv, TypeOK
    <2> QED BY <2>1 DEF LatchInv
  <1>1. completion[l] = "pending" => Live(l)
    BY <1>0 DEF LatchInv, Live
  <1>a. ASSUME NEW t \in Threads, pc[t] \in Holding, latch[t] = l
        PROVE  /\ frees[l] = 0 /\ ~abandoned[l]
               /\ \A u \in Threads : latch[u] = l /\ pc[u] \in Holding => u = t
               /\ infer_handle = l => pc[t] = "pollreap"
    <2>0. SyncInv(t) /\ (\A u \in Threads : SyncInv(u)) /\ infer_handle \in polled \cup {NoLatch}
      BY DEF OwnerInv
    <2>1. CASE pc[t] \in SyncStages
      BY <1>0, <1>a, <2>0, <2>1 DEF SyncInv, Holding
    <2>2. CASE pc[t] \notin SyncStages
      <3>1. pc[t] \in {"keep", "pollreap"} /\ l \in polled
        BY <1>a, <2>0, <2>2 DEF Holding, SyncInv
      <3>2. ~overlap
        BY <3>1 DEF Contested
      <3>3. \A u \in Threads : InferInv(u)
        BY <3>2 DEF OwnerInv
      <3>4. \A u \in Threads : latch[u] = l /\ pc[u] \in Holding => pc[u] \in InferStages
        BY <2>0, <3>1 DEF SyncInv, Holding, InferStages
      <3>5. infer_handle = l => pc[t] = "pollreap"
        BY <1>0, <3>1, <3>3 DEF InferInv
      <3> QED BY <1>a, <3>1, <3>3, <3>4, <3>5 DEF InferInv, InferStages
    <2> QED BY <2>1, <2>2
  <1>b. infer_handle = l => ~overlap /\ HandleInv /\ (\A u \in Threads : InferInv(u) /\ SyncInv(u))
    BY <1>0 DEF OwnerInv, Contested
  <1>2. CASE frees[l] = 1
    <2>1. Owners(l) = {}
      <3>1. \A t \in Threads : ~(latch[t] = l /\ pc[t] \in Holding)
        BY <1>2, <1>a
      <3>2. ~(abandoned[l] /\ completion[l] = "pending")
        BY <1>0, <1>2 DEF LatchInv
      <3>3. infer_handle = l => \E t \in Threads : latch[t] = l /\ pc[t] = "forget"
        BY <1>0, <1>2, <1>b DEF HandleInv, InferInv
      <3> QED BY <3>1, <3>2, <3>3 DEF Owners, Holding, SyncStages
    <2>2. ~Leaked(l)
      BY <1>0, <1>2 DEF Leaked, LatchInv
    <2> QED BY <1>0, <1>1, <1>2, <2>1, <2>2, FS_EmptySet
  <1>3. CASE frees[l] = 0 /\ abandoned[l]
    <2>1. \A t \in Threads : ~(latch[t] = l /\ pc[t] \in Holding)
      BY <1>3, <1>a
    <2>2. completion[l] \in {"pending", "lost"} /\ infer_handle # l
      BY <1>0, <1>3, <1>b DEF LatchInv, HandleInv
    <2>3. CASE completion[l] = "pending"
      <3>1. Owners(l) = {"completion"}
        BY <1>3, <2>1, <2>2, <2>3 DEF Owners, Holding, SyncStages
      <3>2. Cardinality(Owners(l)) = 1
        BY <3>1, FS_Singleton, Zenon
      <3>3. ~Leaked(l)
        BY <2>3 DEF Leaked
      <3> QED BY <1>1, <1>3, <3>2, <3>3
    <2>4. CASE completion[l] = "lost"
      <3>1. Owners(l) = {}
        BY <2>1, <2>2, <2>4 DEF Owners, Holding, SyncStages
      <3>2. Leaked(l)
        BY <1>3, <2>4 DEF Leaked
      <3> QED BY <1>1, <1>3, <3>1, <3>2, FS_EmptySet
    <2> QED BY <2>2, <2>3, <2>4
  <1>4. CASE frees[l] = 0 /\ ~abandoned[l]
    <2>1. \E o : Owners(l) = {o}
      <3>1. ASSUME NEW t \in Threads, pc[t] \in Holding, latch[t] = l
            PROVE  \E o : Owners(l) = {o}
        <4>1. /\ \A u \in Threads : latch[u] = l /\ pc[u] \in Holding => u = t
              /\ infer_handle = l => pc[t] = "pollreap"
          BY <1>a, <3>1
        <4>2. Owners(l) = {t}
          BY <1>4, <3>1, <4>1 DEF Owners, Holding, SyncStages
        <4> QED BY <4>2
      <3>2. CASE /\ infer_handle = l /\ \A t \in Threads : pc[t] # "forget"
                 /\ ~\E t \in Threads : pc[t] \in Holding /\ latch[t] = l
        <4>1. Owners(l) = {"context"}
          BY <1>4, <3>2 DEF Owners, Holding, SyncStages
        <4> QED BY <4>1
      <3> QED BY <1>4, <3>1, <3>2 DEF OwnerInv, HeldInv
    <2>2. PICK o : Owners(l) = {o}
      BY <2>1
    <2>3. Cardinality(Owners(l)) = 1
      BY <2>2, FS_Singleton, Zenon
    <2>4. ~Leaked(l)
      BY <1>4 DEF Leaked
    <2> QED BY <1>0, <1>1, <1>4, <2>3, <2>4
  <1> QED BY <1>0, <1>2, <1>3, <1>4

\* A latch tells its caller one answer: a timeout, or what the completion left.
LEMMA OneAnswer == ASSUME OwnerInv PROVE AnsweredOnce
  <1> SUFFICES ASSUME NEW l \in Latches, ~Contested(l)
               PROVE  /\ Len(told[l]) <= 1
                      /\ told[l] # <<>> => told[l][1] = IF abandoned[l] THEN "timeout" ELSE status[l]
                      /\ told[l] # <<>> => told[l][1] # "none"
                      /\ ~(done[l] /\ abandoned[l])
    BY DEF AnsweredOnce
  <1>0. LatchInv(l) /\ frees[l] \in Nat
    BY DEF OwnerInv, TypeOK
  <1>1. CASE abandoned[l]
    <2>1. told[l] = <<"timeout">> /\ ~(done[l] /\ abandoned[l])
      BY <1>0, <1>1 DEF LatchInv
    <2> QED BY <1>1, <2>1
  <1>2. CASE ~abandoned[l] /\ frees[l] = 0
    <2>1. told[l] = <<>>
      BY <1>0, <1>2 DEF LatchInv
    <2> QED BY <1>2, <2>1
  <1>3. CASE ~abandoned[l] /\ frees[l] # 0
    <2>1. told[l] = <<status[l]>> /\ completion[l] \notin {"none", "pending", "lost"}
      BY <1>0, <1>3 DEF LatchInv
    <2>2. status[l] \in Statuses
      BY <1>0, <1>3, <2>1 DEF LatchInv, OwnerInv, TypeOK
    <2> QED BY <1>3, <2>1, <2>2 DEF Statuses
  <1> QED BY <1>1, <1>2, <1>3

\* OwnerInv holds in every behaviour.
LEMMA OwnerSound == Spec => []OwnerInv
  <1>1. OwnerInv /\ [Next]_vars => OwnerInv'
    BY OwnerStep
  <1> QED BY <1>1, OwnerInit, PTL DEF Spec

\* ak_transport.c, "exactly one side frees the latch": for any number of callers,
\* pollers and latches, a latch of ak_https_request that is in use has one party that
\* will free it, a freed one has none and was freed once, and so it is with the latches
\* of infer_issue until two inference calls overlap.  A latch given up for a request
\* that net_http_req dropped is left without a party.
THEOREM LatchFreedOnce == Spec => []LatchOwned
  <1>1. OwnerInv => LatchOwned
    BY OneOwner
  <1> QED BY <1>1, OwnerSound, PTL

\* ak_https_request answers each request once, with what its completion delivered or
\* with a timeout whose late completion reaches nobody, whatever other threads do; and
\* so does ak_https_poll until two inference calls overlap.
THEOREM RequestAnsweredOnce == Spec => []AnsweredOnce
  <1>1. OwnerInv => AnsweredOnce
    BY OneAnswer
  <1> QED BY <1>1, OwnerSound, PTL
=============================================================================
