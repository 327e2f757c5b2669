------------------------------- MODULE Budget -------------------------------
(***************************************************************************)
(* One run's resource budget (ak_budget.c) and the requests charged to it: *)
(* the admission check of ak_policy_evaluate, the handlers' own checks,    *)
(* the execution and the commit, each a step, so that several threads of   *)
(* an agent can be between check and commit at the same time.  The tracker *)
(* operations are single steps: each holds tracker->lock throughout.       *)
(*                                                                         *)
(* Counters are u64: U64Max is AK_BUDGET_UNLIMITED, the largest of them.   *)
(***************************************************************************)
EXTENDS Integers, Sequences, FiniteSets

CONSTANTS Threads,
          Ops,          \* the request kinds that occur
          Limits,       \* tracker->budget.limits, as ak_budget_create sets them
          U64Max,
          Estimate,     \* ak_policy_evaluate's estimate for an inference, 1000
          BatchSizes,   \* op_count of a batch
          TokenCounts,  \* max_tokens of a request, usage reported by the backend
          MaxRequests   \* bound: requests in a behaviour

Resources == {"calls", "tool_calls", "heap_objects",
              "tokens", "tokens_in", "tokens_out"}
AllOps == {"call", "alloc", "spawn", "batch", "inference",
           "infer_issue", "reserved"}

ASSUME BudgetAssumption ==
    /\ IsFiniteSet(Threads) /\ Threads # {}
    /\ Ops \subseteq AllOps
    /\ U64Max \in Nat \ {0} /\ Limits \in [Resources -> 0..U64Max]
    /\ Estimate \in 0..U64Max
    /\ BatchSizes \subseteq 0..U64Max /\ TokenCounts \subseteq 0..U64Max
    /\ MaxRequests \in Nat

VARIABLES
    used,      \* tracker->budget.used
    pc, op,    \* each thread: where its request is, and what it is
    todo,      \* charges the thread has still to commit: <<resource, amount>>
    requests,  \* requests so far
    work,      \* what operations that were done have cost, resource by resource
    unchecked, \* what batches have been charged, without a check
    gratis,    \* that part of work that the kernel does not charge
    forfeit    \* what operations that failed are charged all the same

vars == <<used, pc, op, todo, requests, work, unchecked, gratis, forfeit>>

Charge == Resources \X (0..U64Max)

-----------------------------------------------------------------------------
(* The tracker *)

\* Mutant: a sum that may wrap.
FitsWrapping(u, limit, amount) == (u + amount) % (U64Max + 1) <= limit

ak_budget_fits(u, limit, amount) == u <= limit /\ amount <= limit - u

ak_budget_check(r, amount) == ak_budget_fits(used[r], Limits[r], amount)

\* Mutant: the total is no u64 any more.
SaturateNot(u, amount) == u + amount

\* ak_budget_commit: the total saturates instead of wrapping.
Saturate(u, amount) == IF amount > U64Max - u THEN U64Max ELSE u + amount

ak_budget_commit(r, amount) == used' = [used EXCEPT ![r] = Saturate(@, amount)]

\* ak_budget_reserve and ak_budget_consume: check and add under one lock.
ak_budget_reserve(r, amount) ==
    /\ ak_budget_check(r, amount)
    /\ used' = [used EXCEPT ![r] = @ + amount]

ak_budget_release(r, amount) ==
    used' = [used EXCEPT ![r] = IF amount > @ THEN 0 ELSE @ - amount]

-----------------------------------------------------------------------------
(* Requests *)

Init ==
    /\ used = [r \in Resources |-> 0] /\ work = [r \in Resources |-> 0]
    /\ gratis = [r \in Resources |-> 0] /\ forfeit = [r \in Resources |-> 0]
    /\ pc = [t \in Threads |-> "idle"] /\ op = [t \in Threads |-> "call"]
    /\ todo = [t \in Threads |-> <<>>]
    /\ requests = 0 /\ unchecked = 0

\* What ak_policy_evaluate checks for an operation; the others cost nothing.
PolicyCheck(o) ==
    CASE o = "call"  -> ak_budget_check("calls", 1)
      [] o = "alloc" -> ak_budget_check("heap_objects", 1)
      [] o \in {"inference", "infer_issue"} -> ak_budget_check("tokens", Estimate)
      [] OTHER       -> TRUE

\* Stage 4 of ak_dispatch: admitted, or answered AK_E_BUDGET_EXCEEDED.
Admit(t) ==
    /\ pc[t] = "idle" /\ requests < MaxRequests
    /\ requests' = requests + 1
    /\ \E o \in Ops \ {"reserved"} :
        /\ op' = [op EXCEPT ![t] = o]
        /\ pc' = [pc EXCEPT ![t] = IF PolicyCheck(o) THEN "handler" ELSE "idle"]
    /\ UNCHANGED <<used, todo, work, unchecked, gratis, forfeit>>

\* Mutant: the handlers rely on stage 4.
HandlerUnchecked(t) ==
    /\ pc[t] = "handler"
    /\ pc' = [pc EXCEPT ![t] = "execute"]
    /\ UNCHANGED <<used, op, todo, requests, work, unchecked, gratis, forfeit>>

\* The check of the handler itself; ak_handle_alloc, ak_handle_batch and
\* ak_handle_infer_issue have none.
HandlerCheck(t) ==
    /\ pc[t] = "handler"
    /\ \E n \in TokenCounts :
        LET ok == CASE op[t] = "call"      -> ak_budget_check("tool_calls", 1)
                    [] op[t] = "spawn"     -> ak_budget_check("heap_objects", 1)
                    [] op[t] = "inference" -> ak_budget_check("tokens_out", n)
                    [] OTHER               -> TRUE
        IN pc' = [pc EXCEPT ![t] = IF ok THEN "execute" ELSE "idle"]
    /\ UNCHANGED <<used, op, todo, requests, work, unchecked, gratis, forfeit>>

\* What an operation costs: the backend of an inference, issued or waited for,
\* reports its usage, a batch counts its operations.
Charges(o) ==
    CASE o = "call"  -> {<< <<"tool_calls", 1>> >>}
      [] o \in {"inference", "infer_issue"} ->
            {<< <<"tokens_in", i>>, <<"tokens_out", n>> >> : i \in TokenCounts, n \in TokenCounts}
      [] o = "batch" -> {<< <<"heap_objects", n>> >> : n \in BatchSizes}
      [] OTHER       -> {<< <<"heap_objects", 1>> >>}

\* What s charges to r: no resource is there twice.
Total(s, r) ==
    IF \E i \in DOMAIN s : s[i][1] = r THEN s[CHOOSE i \in DOMAIN s : s[i][1] = r][2] ELSE 0

\* Mutant: a commit on every path.
OutcomesAlwaysCharged(o) == {<<TRUE, TRUE>>, <<FALSE, TRUE>>}

\* How an operation can end: <<done, charged>>.  ak_handle_call charges whenever
\* ak_wasm_execute_tool returned a response, be it an error, and ak_handle_spawn
\* before a result buffer that cannot be had undoes the spawn; neither
\* ak_handle_infer_issue nor ak_handle_infer_poll charges anything.
Outcomes(o) ==
    {<<FALSE, FALSE>>}
        \cup (IF o # "infer_issue" THEN {<<TRUE, TRUE>>} ELSE {})
        \cup (IF o \in {"call", "spawn"} THEN {<<FALSE, TRUE>>} ELSE {})
        \cup (IF o \in {"call", "infer_issue"} THEN {<<TRUE, FALSE>>} ELSE {})

\* The ghost total g and, if b, what s charges.
Plus(g, s, b) == [r \in Resources |-> g[r] + (IF b THEN Total(s, r) ELSE 0)]

\* The tool, the heap, the registry or the backend did it or failed.
Execute(t) ==
    /\ pc[t] = "execute"
    /\ \E end \in Outcomes(op[t]), s \in Charges(op[t]) :
        /\ work' = Plus(work, s, end[1])
        /\ gratis' = Plus(gratis, s, end[1] /\ ~end[2])
        /\ forfeit' = Plus(forfeit, s, ~end[1] /\ end[2])
        /\ todo' = [todo EXCEPT ![t] = IF end[2] THEN s ELSE <<>>]
        /\ pc' = [pc EXCEPT ![t] = IF end[2] THEN "commit" ELSE "idle"]
    /\ UNCHANGED <<used, op, requests, unchecked>>

\* One ak_budget_commit call.
Commit(t) ==
    /\ pc[t] = "commit"
    /\ ak_budget_commit(todo[t][1][1], todo[t][1][2])
    /\ todo' = [todo EXCEPT ![t] = Tail(@)]
    /\ pc' = [pc EXCEPT ![t] = IF Len(todo[t]) = 1 THEN "idle" ELSE "commit"]
    /\ unchecked' = IF op[t] = "batch" THEN unchecked + todo[t][1][2] ELSE unchecked
    /\ UNCHANGED <<op, requests, work, gratis, forfeit>>

\* The protocol ak_budget.c recommends, with no caller in the kernel: reserve,
\* operate, and release when the operation fails.
Reserve(t) ==
    /\ pc[t] = "idle" /\ requests < MaxRequests
    /\ "reserved" \in Ops
    /\ requests' = requests + 1
    /\ \E r \in {"calls", "tool_calls"}, n \in TokenCounts :
        \/ /\ ak_budget_reserve(r, n)
           /\ op' = [op EXCEPT ![t] = "reserved"]
           /\ todo' = [todo EXCEPT ![t] = << <<r, n>> >>]
           /\ pc' = [pc EXCEPT ![t] = "held"]
        \/ ~ak_budget_check(r, n) /\ UNCHANGED <<used, op, todo, pc>>
    /\ UNCHANGED <<work, unchecked, gratis, forfeit>>

Settle(t) ==
    /\ pc[t] = "held"
    /\ \/ /\ work' = [work EXCEPT ![todo[t][1][1]] = @ + todo[t][1][2]]
          /\ UNCHANGED used
       \/ ak_budget_release(todo[t][1][1], todo[t][1][2]) /\ UNCHANGED work
    /\ todo' = [todo EXCEPT ![t] = <<>>]
    /\ pc' = [pc EXCEPT ![t] = "idle"]
    /\ UNCHANGED <<op, requests, unchecked, gratis, forfeit>>

Next == \E t \in Threads : \/ Admit(t) \/ HandlerCheck(t) \/ Execute(t)
                           \/ Commit(t) \/ Reserve(t) \/ Settle(t)

Spec == Init /\ [][Next]_vars

-----------------------------------------------------------------------------
(* Properties *)

\* Every variable keeps its type; the counters are u64.
TypeOK ==
    /\ used \in [Resources -> 0..U64Max] /\ work \in [Resources -> Nat]
    /\ gratis \in [Resources -> Nat] /\ forfeit \in [Resources -> Nat]
    /\ pc \in [Threads -> {"idle", "handler", "execute", "commit", "held"}]
    /\ op \in [Threads -> AllOps] /\ todo \in [Threads -> Seq(Charge)]
    /\ requests \in Nat /\ unchecked \in Nat

\* INV-3, "Budgets are hard, atomic, and overflow-safe": consumption never passes
\* a declared limit.
HardLimit == \A r \in Resources : used[r] <= Limits[r]

\* Threads that have passed their check of r and have not been charged yet.
InFlight(r) ==
    {t \in Threads :
        \/ pc[t] = "commit" /\ todo[t][1][1] = r /\ op[t] # "batch"
        \/ pc[t] = "execute" /\ op[t] \in (IF r = "tool_calls" THEN {"call"}
                                           ELSE {"alloc", "spawn"})
        \/ pc[t] = "handler" /\ r = "heap_objects" /\ op[t] = "alloc"}

\* Check, execution and commit are apart, but the damage is bounded: whatever the
\* interleaving, tool calls, allocations and spawns pass their limit by less than
\* the number of threads, those in flight included and batches aside.
OvershootBounded ==
    \A r \in {"tool_calls", "heap_objects"} :
        used[r] + Cardinality(InFlight(r)) <=
            Limits[r] + Cardinality(Threads) - 1
                + (IF r = "heap_objects" THEN unchecked ELSE 0)

\* The units of r due of the threads at p, thread by thread: what is reserved if p is
\* "held", what is still to be committed if it is "commit".
UnitsAt(p, r) ==
    UNION {{t} \X (1..Total(todo[t], r)) : t \in {u \in Threads : pc[u] = p}}

\* The reserve protocol keeps INV-3 as it is stated: a resource that is only
\* reserved and released (here "calls", which nothing commits) stays within its
\* limit, and counts exactly what is reserved and what was done.
ReservedWithinLimit ==
    /\ used["calls"] <= Limits["calls"]
    /\ used["calls"] = work["calls"] + Cardinality(UnitsAt("held", "calls"))

\* Tool calls are both committed and reserved; a release from a total that has
\* saturated loses count, which a limit this far below U64Max excludes.
CountsExactly(r) == r = "tool_calls" => Limits[r] + Cardinality(Threads) - 1 <= U64Max

\* What the counters should say: the work that was done, less what is not charged
\* for, and what failed operations are charged.
Owed(r) == work[r] - gratis[r] + forfeit[r]

\* The exceptions to charging what was done, resource by resource.
Exceptions ==
    \A r \in Resources : /\ forfeit[r] # 0 => r \in {"tool_calls", "heap_objects"}
                         /\ gratis[r] # 0 => r \in {"tool_calls", "tokens_in", "tokens_out"}

\* While no commit is due a counter is what is owed, or U64Max if that is more: no
\* operation was charged twice or in part, no charge was lost to another thread's,
\* no sum wrapped.  The exceptions are of three kinds only: a call or a spawn that
\* failed and is charged (tool calls and heap objects), a call done and not charged,
\* and an inference that was issued, whose tokens nobody charges.
ChargedOnce ==
    /\ (\A t \in Threads : pc[t] \notin {"commit", "held"}) =>
        \A r \in Resources :
            CountsExactly(r) => used[r] = IF Owed(r) > U64Max THEN U64Max ELSE Owed(r)
    /\ Exceptions

\* ak_handle_call's comment, "Only commit budget on successful execution": a failed
\* operation is not charged.
OnlySuccessCharged == \A r \in Resources : forfeit[r] = 0

\* INV-3's postcondition, "current' = current + c", for the tokens of an inference:
\* what was done is charged, once no commit is due.
TokensCharged ==
    (\A t \in Threads : pc[t] \notin {"commit", "held"}) =>
        \A r \in {"tokens_in", "tokens_out"} :
            used[r] = IF work[r] > U64Max THEN U64Max ELSE work[r]

-----------------------------------------------------------------------------
(* The inductive invariant behind the three *)

\* What a thread has still to be charged is what its operation costs: one unit for
\* a call, an allocation or a spawn, and "calls" for nothing but a reservation.
DueInv ==
    \A t \in Threads :
        /\ pc[t] = "commit" =>
            \/ op[t] = "call" /\ todo[t] = << <<"tool_calls", 1>> >>
            \/ op[t] \in {"alloc", "spawn"} /\ todo[t] = << <<"heap_objects", 1>> >>
            \/ op[t] = "batch" /\ \E n \in 0..U64Max : todo[t] = << <<"heap_objects", n>> >>
            \/ /\ op[t] = "inference"
               /\ \E i, n \in 0..U64Max : \/ todo[t] = << <<"tokens_in", i>>, <<"tokens_out", n>> >>
                                          \/ todo[t] = << <<"tokens_out", n>> >>
        /\ pc[t] = "held" =>
            \E r \in {"calls", "tool_calls"}, n \in 0..U64Max : todo[t] = << <<r, n>> >>
        /\ pc[t] \in {"handler", "execute"} => op[t] # "reserved"

\* What is owed and no longer due; with what is reserved, what has been charged.
Settled(r) == Owed(r) - Cardinality(UnitsAt("commit", r))
Charged(r) == Settled(r) + Cardinality(UnitsAt("held", r))

\* A counter is what has been charged, or saturated.
ChargeInv ==
    \A r \in Resources : CountsExactly(r) =>
        /\ Settled(r) >= 0
        /\ used[r] = IF Charged(r) > U64Max THEN U64Max ELSE Charged(r)
        /\ r \in {"calls", "tool_calls"} => Charged(r) <= U64Max

BudgetInv == TypeOK /\ DueInv /\ OvershootBounded /\ ReservedWithinLimit
             /\ ChargeInv /\ Exceptions
=============================================================================
