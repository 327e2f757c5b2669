------------------------------ MODULE Dispatch ------------------------------
(***************************************************************************)
(* ak_dispatch for one agent context: a request is stamped by              *)
(* ak_syscall_handler (or arrives with a seq of its sender's choice through *)
(* ak_dispatch_raw), passes validation, the anti-replay tracker, the        *)
(* capability check and policy, executes and is answered.  The context and  *)
(* its tracker have no lock: ++last_seq and ak_seq_tracker_check are a load *)
(* and a store, and threads of the agent can be anywhere in between.        *)
(*                                                                         *)
(* Of the tracker only highest_seen decides an answer: expected_next is     *)
(* highest_seen + 1, and the bitmap is written but both outcomes of reading *)
(* it return AK_E_REPLAY.  Token ids and run ids are drawn from one space   *)
(* and never repeat.  Of the clock only its effects appear: a capability's   *)
(* TTL passes, and the table's sweep drops ids no live capability has.       *)
(***************************************************************************)
EXTENDS Integers, Sequences, FiniteSets

CONSTANTS Threads,
          Verdicts,    \* what ak_policy_evaluate can answer for this policy
          MaxRequests, \* bound: requests in a behaviour
          MaxSeq,      \* bound: seq a sender chooses
          MaxIds       \* bound: run and token ids drawn

ASSUME DispatchAssumption ==
    /\ Verdicts \subseteq {"ok", "POLICY_DENIED", "BUDGET_EXCEEDED", "TAINT"}
    /\ MaxRequests \in Nat /\ MaxSeq \in Nat /\ MaxIds \in Nat

VARIABLES
    run,           \* ctx->run_id
    last_seq,      \* ctx->last_seq
    highest_seen,  \* ctx->seq_tracker->highest_seen
    tracker,       \* ctx->seq_tracker: the how-manieth of this context
    renewing,      \* is ak_context_new_run between the new run_id and its end?
    caps,          \* capabilities within their TTL: [tid, run]
    revoked,       \* the revocation table
    ids,           \* ids drawn so far
    pc, req,       \* each thread: stage, and request [run, seq]
    loaded,        \* each thread: the word, or the tracker, it has just loaded
    lapsed,        \* each thread: was the run of the capability that let its request
                   \* through in the revocation table then?
    checked,       \* requests the tracker has let through, ever
    refused,       \* requests answered AK_E_REPLAY that it had not
    executed,      \* requests executed: [req, verdict, lapsed], in order
    overtaken,     \* history: has the tracker been used out of turn (see OutOfTurn)?
    arrived,       \* has a request come in through ak_dispatch_raw?
    requests       \* requests so far

run_vars == <<run, highest_seen, tracker, renewing>>
cap_vars == <<caps, revoked, ids>>
hist_vars == <<checked, refused, executed, arrived, requests, overtaken>>
req_vars == <<req, loaded, lapsed>>
vars == <<run_vars, cap_vars, last_seq, pc, req_vars, hist_vars>>

NoRequest == [run |-> 0, seq |-> 0]
AnyRun == 0   \* a capability whose run_id is all zeros is bound to no run

\* ak_get_current_context has made the root context and its capability.
Init ==
    /\ run = 1 /\ caps = {[tid |-> 2, run |-> 1]} /\ ids = 2
    /\ last_seq = 0 /\ highest_seen = 0 /\ tracker = 0 /\ renewing = FALSE /\ revoked = {}
    /\ pc = [t \in Threads |-> "idle"] /\ req = [t \in Threads |-> NoRequest]
    /\ loaded = [t \in Threads |-> 0] /\ lapsed = [t \in Threads |-> FALSE]
    /\ checked = {} /\ refused = {} /\ executed = <<>> /\ arrived = FALSE
    /\ requests = 0 /\ overtaken = FALSE

Goto(t, stage) == pc' = [pc EXCEPT ![t] = stage]

-----------------------------------------------------------------------------
(* Arrival *)

\* ak_syscall_handler stamps run_id and reads last_seq.
Stamp(t) ==
    /\ pc[t] = "idle" /\ requests < MaxRequests
    /\ requests' = requests + 1
    /\ req' = [req EXCEPT ![t] = [run |-> run, seq |-> 0]]
    /\ loaded' = [loaded EXCEPT ![t] = last_seq]
    /\ Goto(t, "stamp")
    /\ UNCHANGED <<run_vars, cap_vars, last_seq, lapsed, checked, refused, executed, arrived, overtaken>>

\* req.seq = ++current_ctx->last_seq
StampSeq(t) ==
    /\ pc[t] = "stamp"
    /\ last_seq' = loaded[t] + 1
    /\ req' = [req EXCEPT ![t] = [run |-> @.run, seq |-> loaded[t] + 1]]
    /\ Goto(t, "validate")
    /\ UNCHANGED <<run_vars, cap_vars, loaded, lapsed, hist_vars>>

\* ak_dispatch_raw: run_id and seq are in the message.
Arrive(t) ==
    /\ pc[t] = "idle" /\ requests < MaxRequests
    /\ requests' = requests + 1 /\ arrived' = TRUE
    /\ \E r \in 1..ids, s \in 0..MaxSeq :
        req' = [req EXCEPT ![t] = [run |-> r, seq |-> s]]
    /\ Goto(t, "validate")
    /\ UNCHANGED <<run_vars, cap_vars, last_seq, loaded, lapsed, checked, refused, executed, overtaken>>

-----------------------------------------------------------------------------
(* The stages of ak_dispatch; "idle" again is ak_log_operation and the answer *)

ak_validate_request(t) ==
    /\ pc[t] = "validate"
    /\ Goto(t, IF req[t].run = run THEN "replay" ELSE "idle")
    /\ UNCHANGED <<run_vars, cap_vars, last_seq, req_vars, hist_vars>>

\* Mutant: the newest request may come again.
IsOlder(seq, highest) == seq < highest

IsReplay(seq, highest) == seq <= highest

\* ak_seq_tracker_check, its test: AK_E_REPLAY is the answer, or go on.
CheckSeq(t) ==
    /\ pc[t] = "replay"
    /\ IF IsReplay(req[t].seq, highest_seen)
         THEN /\ refused' = refused \cup ({req[t]} \ checked)
              /\ Goto(t, "idle")
              /\ UNCHANGED <<loaded, overtaken>>
         ELSE /\ loaded' = [loaded EXCEPT ![t] = tracker]
              /\ Goto(t, "advance")
              /\ overtaken' = (overtaken \/ \E u \in Threads : pc[u] = "advance")
              /\ UNCHANGED refused
    /\ UNCHANGED <<run_vars, cap_vars, last_seq, req, lapsed, checked, executed, arrived, requests>>

\* Its update, of a tracker that may have been replaced and freed meanwhile.  A gap
\* is returned as AK_E_SEQ_GAP, which ak_dispatch lets pass.
AdvanceSeq(t) ==
    /\ pc[t] = "advance"
    /\ highest_seen' = IF loaded[t] = tracker THEN req[t].seq ELSE highest_seen
    /\ checked' = checked \cup {req[t]}
    /\ Goto(t, "capability")
    /\ UNCHANGED <<run, tracker, renewing, cap_vars, last_seq, req_vars, refused,
                   executed, arrived, requests, overtaken>>

\* ak_capability_validate, but for type, scope and rate, which may fail as well; a
\* capability past its TTL is not in caps.
Holds(c) == c.tid \notin revoked /\ c.run \in {AnyRun, run}

\* A capability the request carries or its context has, none for the operations
\* that only look at the context's own budget or inference, or a refusal.
ak_validate_capability(t) ==
    /\ pc[t] = "capability"
    /\ \/ /\ \E c \in caps : Holds(c) /\ lapsed' = [lapsed EXCEPT ![t] = c.run \in revoked]
          /\ Goto(t, "policy")
       \/ lapsed' = [lapsed EXCEPT ![t] = FALSE] /\ Goto(t, "policy")
       \/ Goto(t, "idle") /\ UNCHANGED lapsed
    /\ UNCHANGED <<run_vars, cap_vars, last_seq, req, loaded, hist_vars>>

\* Stage 4 turns back AK_E_POLICY_DENIED and AK_E_BUDGET_EXCEEDED; whatever else
\* ak_policy_evaluate returns goes on to stage 5, which executes.
PolicyAndExecute(t) ==
    /\ pc[t] = "policy"
    /\ \E v \in Verdicts :
        IF v \in {"POLICY_DENIED", "BUDGET_EXCEEDED"} THEN UNCHANGED executed
        ELSE executed' = Append(executed, [req |-> req[t], verdict |-> v, lapsed |-> lapsed[t]])
    /\ Goto(t, "idle")
    /\ UNCHANGED <<run_vars, cap_vars, last_seq, req_vars, checked, refused, arrived, requests, overtaken>>

-----------------------------------------------------------------------------
(* The context's owner *)

Draw == ids < MaxIds /\ ids' = ids + 1

\* ak_revocation_add: the sweep may drop ids of capabilities that have expired (and
\* of runs), and without memory for the entry the revocation is in the audit log only.
ak_revocation_add(id) ==
    \E swept \in SUBSET (revoked \ {c.tid : c \in caps}) :
        revoked' \in {revoked, revoked \ swept, (revoked \ swept) \cup {id}}

\* ak_context_new_run up to the new run_id; last_seq and the capabilities stay.
ak_context_new_run ==
    /\ ~renewing /\ renewing' = TRUE /\ Draw
    /\ ak_revocation_add(run)
    /\ run' = ids'
    /\ UNCHANGED <<highest_seen, tracker, caps, last_seq, pc, req_vars, hist_vars>>

\* The tracker that is about to be replaced knows of requests that the new one will
\* not: one is being recorded in it, it has let some of the new run through, or
\* requests of an earlier run are validated and yet to be checked.
OutOfTurn ==
    \/ \E t \in Threads : pc[t] = "advance"
    \/ \E q \in checked : q.run = run
    \/ \E t \in Threads : pc[t] = "replay" /\ req[t].run # run

\* Its end: budget and tracker are replaced, without a look at the requests that are
\* using them, or memory is short and both stay.
SwapTracker ==
    /\ renewing /\ renewing' = FALSE
    /\ \/ /\ highest_seen' = 0 /\ tracker' = tracker + 1
          /\ overtaken' = (overtaken \/ OutOfTurn)
       \/ UNCHANGED <<highest_seen, tracker, overtaken>>
    /\ UNCHANGED <<run, cap_vars, last_seq, pc, req_vars, checked, refused, executed, arrived, requests>>

\* ak_grant_capability binds it to the run; ak_capability_create without a run_id
\* binds it to none.
ak_grant_capability ==
    /\ Draw
    /\ \E r \in {AnyRun, run} : caps' = caps \cup {[tid |-> ids', run |-> r]}
    /\ UNCHANGED <<run_vars, revoked, last_seq, pc, req_vars, hist_vars>>

\* A capability's TTL passes.
Expire ==
    /\ \E c \in caps : caps' = caps \ {c}
    /\ UNCHANGED <<run_vars, revoked, ids, last_seq, pc, req_vars, hist_vars>>

ak_revoke_capability ==
    /\ \E c \in caps : ak_revocation_add(c.tid)
    /\ UNCHANGED <<run_vars, caps, ids, last_seq, pc, req_vars, hist_vars>>

\* ak_revoke_run, ak_handle_agent_crash, ak_handle_agent_timeout.
ak_revoke_run ==
    /\ ak_revocation_add(run)
    /\ UNCHANGED <<run_vars, caps, ids, last_seq, pc, req_vars, hist_vars>>

-----------------------------------------------------------------------------
Request(t) == \/ Stamp(t) \/ StampSeq(t) \/ Arrive(t)
              \/ ak_validate_request(t) \/ CheckSeq(t) \/ AdvanceSeq(t)
              \/ ak_validate_capability(t) \/ PolicyAndExecute(t)

Next == \/ \E t \in Threads : Request(t)
        \/ ak_context_new_run \/ SwapTracker
        \/ ak_grant_capability \/ Expire
        \/ ak_revoke_capability \/ ak_revoke_run

Spec == Init /\ [][Next]_vars

-----------------------------------------------------------------------------
(* Properties *)

\* No request, identified by its run and seq, was executed twice.
NoneTwice == \A i, j \in 1..Len(executed) : executed[i].req = executed[j].req => i = j

\* Anti-replay with any number of threads: no request executes twice, however often
\* and in whatever order it is sent, stamped with equal seqs by racing ++last_seq,
\* and across new runs begun at any point, until the tracker is used out of turn:
\* two threads between its test and its update, or ak_context_new_run replacing it
\* under requests it has let through or is about to check.
AtMostOnce == ~overtaken => NoneTwice

\* "This makes replays of a captured request fail closed", without that condition.
ReplaysFail == NoneTwice

\* AK_E_REPLAY means "Sequence already seen": the tracker refuses no request that
\* it has not let through before, as long as ak_syscall_handler makes the seq.
RefusedWasSeen == ~arrived => refused = {}

\* "Capability validation checks both the specific capability AND its run_id against
\* the revocation table": no capability of a revoked run lets a request through.
RevokedRunStops == \A i \in 1..Len(executed) : ~executed[i].lapsed

\* "any failure short-circuits to audit and returns an error before the effect
\* executes": only what ak_policy_evaluate allows executes.
OnlyAllowedExecute == \A i \in 1..Len(executed) : executed[i].verdict = "ok"

-----------------------------------------------------------------------------
(* The inductive invariant behind AtMostOnce *)

\* Every variable keeps its type.
TypeOK ==
    /\ run \in Nat /\ last_seq \in Nat /\ highest_seen \in Nat /\ tracker \in Nat
    /\ renewing \in BOOLEAN /\ overtaken \in BOOLEAN /\ arrived \in BOOLEAN
    /\ ids \in Nat /\ requests \in Nat
    /\ caps \subseteq [tid : Nat, run : Nat] /\ revoked \subseteq Nat
    /\ pc \in [Threads -> {"idle", "stamp", "validate", "replay", "advance",
                          "capability", "policy"}]
    /\ req \in [Threads -> [run : Nat, seq : Nat]] /\ loaded \in [Threads -> Nat]
    /\ lapsed \in [Threads -> BOOLEAN]
    /\ checked \subseteq [run : Nat, seq : Nat] /\ refused \subseteq [run : Nat, seq : Nat]
    /\ executed \in Seq([req : [run : Nat, seq : Nat], verdict : Verdicts, lapsed : BOOLEAN])

\* Ids: a run_id in a request was drawn.
IdInv ==
    /\ run <= ids
    /\ \A q \in checked : q.run <= ids
    /\ \A t \in Threads : req[t].run <= ids

\* The tracker is level with what was let through of the run r.
Level(r) == \A q \in checked : q.run = r => q.seq <= highest_seen

\* It is level with the context's run and with that of every request it is yet to
\* check; one request at most is past its test, ahead of the tracker it was tested by.
TrackerInv ==
    /\ Level(run)
    /\ \A t \in Threads : pc[t] \in {"replay", "advance"} => Level(req[t].run)
    /\ \A t \in Threads : pc[t] = "advance" => loaded[t] = tracker /\ req[t].seq > highest_seen
    /\ \A t, u \in Threads : pc[t] = "advance" /\ pc[u] = "advance" => t = u

\* Requests past the tracker are let through, not yet executed, and one thread's each.
Past(t) == pc[t] \in {"capability", "policy"}
InFlightInv ==
    /\ \A i \in 1..Len(executed) : executed[i].req \in checked
    /\ \A t \in Threads : Past(t) => /\ req[t] \in checked
                                     /\ \A i \in 1..Len(executed) : executed[i].req # req[t]
    /\ \A t, u \in Threads : Past(t) /\ Past(u) /\ req[t] = req[u] => t = u

ReplayInv == TypeOK /\ IdInv /\ (overtaken \/ (TrackerInv /\ InFlightInv /\ NoneTwice))
=============================================================================
