--------------------------- MODULE DispatchProof ---------------------------
(***************************************************************************)
(* Anti-replay of ak_dispatch for any number of threads, requests, runs and *)
(* capabilities, with new runs begun at any point: ReplayInv is inductive   *)
(* and gives AtMostOnce.                                                    *)
(***************************************************************************)
EXTENDS Dispatch, TLAPS

ReqType == [run : Nat, seq : Nat]
ExecType == [req : ReqType, verdict : Verdicts, lapsed : BOOLEAN]

-----------------------------------------------------------------------------
(* Every variable keeps its type: what ak_dispatch assigns is of the type *)
(* of the field it assigns.                                               *)
LEMMA TypeInit == Init => TypeOK
<1> SUFFICES ASSUME Init PROVE TypeOK
  OBVIOUS
<1>1. renewing \in BOOLEAN /\ overtaken \in BOOLEAN /\ arrived \in BOOLEAN
  BY DEF Init
<1>2. lapsed \in [Threads -> BOOLEAN]
  BY DEF Init
<1> QED BY <1>1, <1>2 DEF Init, TypeOK, NoRequest

\* Every step keeps the types.
LEMMA TypeStep == TypeOK /\ [Next]_vars => TypeOK'
<1> SUFFICES ASSUME TypeOK, [Next]_vars PROVE TypeOK'
  OBVIOUS
<1> USE DEF TypeOK, Goto, run_vars, cap_vars, req_vars, hist_vars
<1>1. ASSUME NEW t \in Threads, Stamp(t) PROVE TypeOK'
  BY <1>1 DEF Stamp
<1>2. ASSUME NEW t \in Threads, StampSeq(t) PROVE TypeOK'
  BY <1>2 DEF StampSeq
<1>3. ASSUME NEW t \in Threads, Arrive(t) PROVE TypeOK'
  <2>1. PICK r \in 1..ids, s \in 0..MaxSeq : req' = [req EXCEPT ![t] = [run |-> r, seq |-> s]]
    BY <1>3 DEF Arrive
  <2>2. req' \in [Threads -> ReqType]
    BY <2>1, DispatchAssumption DEF ReqType
  <2> QED BY <1>3, <2>2 DEF Arrive, ReqType
<1>4. ASSUME NEW t \in Threads, ak_validate_request(t) PROVE TypeOK'
  BY <1>4 DEF ak_validate_request
<1>5. ASSUME NEW t \in Threads, CheckSeq(t) PROVE TypeOK'
  <2>1. refused' \subseteq ReqType
    BY <1>5 DEF CheckSeq, ReqType
  <2>2. overtaken' \in BOOLEAN
    BY <1>5 DEF CheckSeq
  <2>3. loaded' \in [Threads -> Nat]
    BY <1>5 DEF CheckSeq
  <2>4. pc' \in [Threads -> {"idle", "stamp", "validate", "replay", "advance", "capability", "policy"}]
    BY <1>5 DEF CheckSeq
  <2>5. UNCHANGED <<run_vars, cap_vars, last_seq, req, lapsed, checked, executed, arrived, requests>>
    BY <1>5 DEF CheckSeq
  <2> QED BY <2>1, <2>2, <2>3, <2>4, <2>5 DEF ReqType
<1>6. ASSUME NEW t \in Threads, AdvanceSeq(t) PROVE TypeOK'
  BY <1>6 DEF AdvanceSeq
<1>7. ASSUME NEW t \in Threads, ak_validate_capability(t) PROVE TypeOK'
  <2>1. lapsed' \in [Threads -> BOOLEAN]
    <3>1. \A b : lapsed' = [lapsed EXCEPT ![t] = b] /\ b \in BOOLEAN => lapsed' \in [Threads -> BOOLEAN]
      OBVIOUS
    <3>2. \A c \in caps : (c.run \in revoked) \in BOOLEAN
      OBVIOUS
    <3> QED BY <1>7, <3>1, <3>2 DEF ak_validate_capability
  <2> QED BY <1>7, <2>1 DEF ak_validate_capability
<1>8. ASSUME NEW t \in Threads, PolicyAndExecute(t) PROVE TypeOK'
  <2> DEFINE e(v) == [req |-> req[t], verdict |-> v, lapsed |-> lapsed[t]]
  <2>1. PICK v \in Verdicts : UNCHANGED executed \/ executed' = Append(executed, e(v))
    BY <1>8 DEF PolicyAndExecute
  <2>2. e(v) \in ExecType
    BY DEF ExecType, ReqType
  <2>3. executed \in Seq(ExecType)
    BY DEF ExecType, ReqType
  <2> HIDE DEF e, TypeOK
  <2>4. executed' \in Seq(ExecType)
    BY <2>1, <2>2, <2>3
  <2> QED BY <1>8, <2>4 DEF TypeOK, PolicyAndExecute, ExecType, ReqType
<1>9. CASE ak_context_new_run
  <2>1. renewing' \in BOOLEAN
    BY <1>9 DEF ak_context_new_run
  <2>2. run' \in Nat /\ ids' \in Nat /\ revoked' \subseteq Nat
    BY <1>9 DEF ak_context_new_run, ak_revocation_add, Draw
  <2>3. UNCHANGED <<highest_seen, tracker, caps, last_seq, pc, req_vars, hist_vars>>
    BY <1>9 DEF ak_context_new_run
  <2> QED BY <2>1, <2>2, <2>3
<1>10. CASE SwapTracker
  <2>1. overtaken' \in BOOLEAN /\ renewing' \in BOOLEAN
    BY <1>10 DEF SwapTracker
  <2>2. highest_seen' \in Nat /\ tracker' \in Nat
    BY <1>10 DEF SwapTracker
  <2>3. UNCHANGED <<run, cap_vars, last_seq, pc, req_vars, checked, refused, executed, arrived, requests>>
    BY <1>10 DEF SwapTracker
  <2> QED BY <2>1, <2>2, <2>3
<1>11. CASE ak_grant_capability
  BY <1>11 DEF ak_grant_capability, Draw, AnyRun
<1>12. CASE Expire
  BY <1>12 DEF Expire
<1>13. CASE ak_revoke_capability
  BY <1>13 DEF ak_revoke_capability, ak_revocation_add
<1>14. CASE ak_revoke_run
  BY <1>14 DEF ak_revoke_run, ak_revocation_add
<1>15. CASE UNCHANGED vars
  BY <1>15 DEF vars
<1> QED
  BY <1>1, <1>2, <1>3, <1>4, <1>5, <1>6, <1>7, <1>8, <1>9, <1>10, <1>11, <1>12,
     <1>13, <1>14, <1>15 DEF Next, Request

-----------------------------------------------------------------------------
(* ReplayInv, one step per action *)

\* Nothing has come in yet.
LEMMA ReplayInit == Init => ReplayInv
  BY TypeInit DEF Init, ReplayInv, IdInv, TrackerInv, Level, InFlightInv, Past, NoneTwice, NoRequest

\* Run ids are drawn: requests and the context have no other.
LEMMA IdStep == TypeOK /\ TypeOK' /\ IdInv /\ [Next]_vars => IdInv'
<1> SUFFICES ASSUME TypeOK, TypeOK', IdInv, [Next]_vars PROVE IdInv'
  OBVIOUS
<1> USE DEF Goto, run_vars, cap_vars, req_vars, hist_vars
<1>a. /\ run \in Nat /\ ids \in Nat /\ ids' \in Nat /\ \A t \in Threads : req[t].run \in Nat
      /\ \A q \in checked : q.run \in Nat
  BY DEF TypeOK
<1>1. ASSUME UNCHANGED <<run, checked, req>>, ids' >= ids PROVE IdInv'
  BY <1>1, <1>a DEF IdInv
<1>2. ASSUME NEW t \in Threads, Stamp(t) PROVE IdInv'
  BY <1>2, <1>a DEF Stamp, IdInv, TypeOK
<1>3. ASSUME NEW t \in Threads, StampSeq(t) PROVE IdInv'
  BY <1>3, <1>a DEF StampSeq, IdInv, TypeOK
<1>4. ASSUME NEW t \in Threads, Arrive(t) PROVE IdInv'
  BY <1>4, <1>a, DispatchAssumption DEF Arrive, IdInv, TypeOK
<1>5. ASSUME NEW t \in Threads, ak_validate_request(t) \/ CheckSeq(t) \/ ak_validate_capability(t) PROVE IdInv'
  BY <1>5, <1>1, <1>a DEF ak_validate_request, CheckSeq, ak_validate_capability
<1>6. ASSUME NEW t \in Threads, AdvanceSeq(t) PROVE IdInv'
  BY <1>6, <1>a DEF AdvanceSeq, IdInv, TypeOK
<1>7. ASSUME NEW t \in Threads, PolicyAndExecute(t) PROVE IdInv'
  BY <1>7, <1>1, <1>a DEF PolicyAndExecute
<1>8. CASE ak_context_new_run
  BY <1>8, <1>a DEF ak_context_new_run, Draw, IdInv, TypeOK
<1>9. CASE SwapTracker \/ ak_grant_capability \/ Expire \/ ak_revoke_capability \/ ak_revoke_run \/ UNCHANGED vars
  BY <1>9, <1>1, <1>a DEF SwapTracker, ak_grant_capability, Expire, ak_revoke_capability, ak_revoke_run, vars, Draw
<1> QED BY <1>2, <1>3, <1>4, <1>5, <1>6, <1>7, <1>8, <1>9 DEF Next, Request

\* What is known of a tracker used in turn, and of requests past it.
InTurn == TrackerInv /\ InFlightInv /\ NoneTwice

\* Steps of a thread that is not at the tracker, and of the capabilities' owner.
LEMMA ElsewhereStep ==
  ASSUME TypeOK, TypeOK', InTurn, UNCHANGED <<run, highest_seen, tracker, checked, executed>>,
         \A u \in Threads : \/ UNCHANGED <<pc[u], req[u], loaded[u]>>
                            \/ ~Past(u)' /\ pc'[u] \notin {"replay", "advance"}
                            \/ pc'[u] = "replay" /\ req'[u].run = run
                            \/ Past(u) /\ Past(u)' /\ req'[u] = req[u]
  PROVE  InTurn'
<1>1. TrackerInv'
  BY DEF InTurn, TrackerInv, Level, Past, TypeOK
<1>2. InFlightInv'
  BY DEF InTurn, InFlightInv, Past, TypeOK
<1> QED BY <1>1, <1>2 DEF InTurn, NoneTwice

\* As long as the tracker is used in turn, every step keeps what is known of it.
LEMMA InTurnStep ==
  ASSUME TypeOK, TypeOK', IdInv, InTurn, ~overtaken', [Next]_vars
  PROVE  InTurn'
<1> USE DEF Goto, run_vars, cap_vars, req_vars, hist_vars
<1>a. pc \in [Threads -> {"idle", "stamp", "validate", "replay", "advance", "capability", "policy"}]
  BY DEF TypeOK
<1>1. ASSUME NEW t \in Threads, Stamp(t) \/ StampSeq(t) \/ Arrive(t) PROVE InTurn'
  BY <1>1, <1>a, ElsewhereStep DEF Stamp, StampSeq, Arrive, Past, TypeOK
<1>2. ASSUME NEW t \in Threads, ak_validate_request(t) PROVE InTurn'
  BY <1>2, <1>a, ElsewhereStep DEF ak_validate_request, Past
<1>3. ASSUME NEW t \in Threads, CheckSeq(t) PROVE InTurn'
  <2>1. CASE IsReplay(req[t].seq, highest_seen)
    BY <1>3, <1>a, <2>1, ElsewhereStep DEF CheckSeq, Past
  <2>2. CASE ~IsReplay(req[t].seq, highest_seen)
    <3>1. /\ pc[t] = "replay" /\ pc' = [pc EXCEPT ![t] = "advance"]
          /\ loaded' = [loaded EXCEPT ![t] = tracker]
          /\ \A u \in Threads : pc[u] # "advance"
          /\ UNCHANGED <<run, highest_seen, tracker, req, checked, executed>>
      BY <1>3, <2>2 DEF CheckSeq
    <3>2. req[t].seq > highest_seen
      BY <2>2 DEF IsReplay, TypeOK
    <3>3. TrackerInv'
      BY <1>a, <3>1, <3>2 DEF InTurn, TrackerInv, Level, TypeOK
    <3>4. InFlightInv'
      BY <1>a, <3>1 DEF InTurn, InFlightInv, Past
    <3> QED BY <3>1, <3>3, <3>4 DEF InTurn, NoneTwice
  <2> QED BY <2>1, <2>2
<1>4. ASSUME NEW t \in Threads, AdvanceSeq(t) PROVE InTurn'
  <2>1. /\ pc[t] = "advance" /\ pc' = [pc EXCEPT ![t] = "capability"]
        /\ checked' = checked \cup {req[t]}
        /\ UNCHANGED <<run, tracker, req, loaded, executed>>
    BY <1>4 DEF AdvanceSeq
  <2>2. /\ loaded[t] = tracker /\ req[t].seq > highest_seen /\ Level(req[t].run)
        /\ \A u \in Threads : pc[u] = "advance" => u = t
    BY <2>1 DEF InTurn, TrackerInv
  <2>3. highest_seen' = req[t].seq
    BY <1>4, <2>2 DEF AdvanceSeq
  <2>4. highest_seen \in Nat /\ req[t].seq \in Nat /\ \A q \in checked : q.seq \in Nat
    BY DEF TypeOK
  <2>5. req[t] \notin checked
    BY <2>2, <2>4 DEF Level
  <2>6. \A r : Level(r) => Level(r)'
    BY <2>1, <2>2, <2>3, <2>4 DEF Level
  <2>7. TrackerInv'
    <3>1. Level(run)' /\ \A u \in Threads : pc'[u] = "replay" => Level(req[u].run)'
      BY <1>a, <2>1, <2>6 DEF InTurn, TrackerInv
    <3>2. \A u \in Threads : pc'[u] # "advance"
      BY <1>a, <2>1, <2>2
    <3> QED BY <2>1, <3>1, <3>2 DEF TrackerInv, Level
  <2>8. InFlightInv'
    <3>1. \A i \in 1..Len(executed) : executed[i].req \in checked /\ executed[i].req # req[t]
      BY <2>5 DEF InTurn, InFlightInv
    <3>2. \A u \in Threads : Past(u)' <=> Past(u) \/ u = t
      BY <1>a, <2>1 DEF Past
    <3>3. \A u \in Threads : Past(u) => req[u] # req[t]
      BY <2>5 DEF InTurn, InFlightInv
    <3>4. \A u \in Threads : Past(u)' => req[u] \in checked' /\ \A i \in 1..Len(executed) : executed[i].req # req[u]
      BY <2>1, <3>1, <3>2 DEF InTurn, InFlightInv
    <3>5. \A u, v \in Threads : Past(u)' /\ Past(v)' /\ req[u] = req[v] => u = v
      BY <3>2, <3>3 DEF InTurn, InFlightInv
    <3> QED BY <2>1, <3>1, <3>4, <3>5 DEF InFlightInv
  <2> QED BY <2>1, <2>7, <2>8 DEF InTurn, NoneTwice
<1>5. ASSUME NEW t \in Threads, ak_validate_capability(t) PROVE InTurn'
  BY <1>5, <1>a, ElsewhereStep DEF ak_validate_capability, Past
<1>6. ASSUME NEW t \in Threads, PolicyAndExecute(t) PROVE InTurn'
  <2>1. PICK e : e.req = req[t] /\ (UNCHANGED executed \/ executed' = Append(executed, e))
    BY <1>6 DEF PolicyAndExecute
  <2>2. CASE UNCHANGED executed
    BY <1>6, <1>a, <2>2, ElsewhereStep DEF PolicyAndExecute, Past
  <2>3. CASE executed' = Append(executed, e)
    <3>a. executed \in Seq(ExecType)
      BY DEF TypeOK, ExecType, ReqType
    <3>1. /\ Len(executed) \in Nat
          /\ Len(executed') = Len(executed) + 1 /\ executed'[Len(executed) + 1] = e
          /\ \A i \in 1..Len(executed) : executed'[i] = executed[i]
      BY <2>3, <3>a
    <3>2. Past(t) /\ pc' = [pc EXCEPT ![t] = "idle"] /\ UNCHANGED <<run, highest_seen, tracker, req, loaded, checked>>
      BY <1>6 DEF PolicyAndExecute, Past
    <3>3. /\ req[t] \in checked /\ \A i \in 1..Len(executed) : executed[i].req # req[t]
      BY <3>2 DEF InTurn, InFlightInv
    <3>4. NoneTwice'
      BY <2>1, <3>1, <3>3 DEF InTurn, NoneTwice
    <3>5. TrackerInv'
      BY <1>a, <3>2 DEF InTurn, TrackerInv, Level
    <3>6. \A u \in Threads : Past(u)' => Past(u) /\ u # t
      BY <1>a, <3>2 DEF Past
    <3>7. \A u \in Threads : Past(u)' => req[u] \in checked /\ req[u] # req[t]
      BY <3>2, <3>6 DEF InTurn, InFlightInv
    <3>8. \A i \in 1..Len(executed') : executed'[i].req = req[t] \/ (i \in 1..Len(executed) /\ executed'[i] = executed[i])
      BY <2>1, <3>1
    <3>9. InFlightInv'
      <4>1. \A i \in 1..Len(executed') : executed'[i].req \in checked
        BY <3>3, <3>8 DEF InTurn, InFlightInv
      <4>2. \A u \in Threads : Past(u)' => \A i \in 1..Len(executed') : executed'[i].req # req[u]
        BY <3>6, <3>7, <3>8 DEF InTurn, InFlightInv
      <4>3. \A u, v \in Threads : Past(u)' /\ Past(v)' /\ req[u] = req[v] => u = v
        BY <3>6 DEF InTurn, InFlightInv
      <4> QED BY <3>2, <3>7, <4>1, <4>2, <4>3 DEF InFlightInv
    <3> QED BY <3>4, <3>5, <3>9 DEF InTurn
  <2> QED BY <2>1, <2>2, <2>3
<1>7. CASE ak_context_new_run
  <2>1. run' = ids + 1 /\ UNCHANGED <<highest_seen, tracker, pc, req, loaded, checked, executed>>
    BY <1>7 DEF ak_context_new_run, Draw
  <2>2. \A q \in checked : q.run # run'
    BY <2>1 DEF IdInv, TypeOK
  <2>3. TrackerInv'
    BY <2>1, <2>2 DEF InTurn, TrackerInv, Level
  <2>4. InFlightInv'
    BY <2>1 DEF InTurn, InFlightInv, Past
  <2> QED BY <2>1, <2>3, <2>4 DEF InTurn, NoneTwice
<1>8. CASE SwapTracker
  <2>1. CASE UNCHANGED <<highest_seen, tracker>>
    BY <1>8, <2>1, ElsewhereStep DEF SwapTracker
  <2>2. CASE tracker' = tracker + 1 /\ ~OutOfTurn
    <3>1. UNCHANGED <<run, pc, req, loaded, checked, executed>>
      BY <1>8 DEF SwapTracker
    <3>2. /\ \A t \in Threads : pc[t] # "advance" /\ (pc[t] = "replay" => req[t].run = run)
          /\ \A q \in checked : q.run # run
      BY <2>2 DEF OutOfTurn
    <3>3. TrackerInv'
      BY <3>1, <3>2 DEF TrackerInv, Level
    <3>4. InFlightInv'
      BY <3>1 DEF InTurn, InFlightInv, Past
    <3> QED BY <3>1, <3>3, <3>4 DEF InTurn, NoneTwice
  <2> QED BY <1>8, <2>1, <2>2 DEF SwapTracker
<1>9. CASE ak_grant_capability \/ Expire \/ ak_revoke_capability \/ ak_revoke_run \/ UNCHANGED vars
  BY <1>9, ElsewhereStep DEF ak_grant_capability, Expire, ak_revoke_capability, ak_revoke_run, vars
<1> QED BY <1>1, <1>2, <1>3, <1>4, <1>5, <1>6, <1>7, <1>8, <1>9 DEF Next, Request

\* Once out of turn, always; until then InTurn is kept.
LEMMA ReplayStep == ReplayInv /\ [Next]_vars => ReplayInv'
<1> SUFFICES ASSUME ReplayInv, [Next]_vars PROVE ReplayInv'
  OBVIOUS
<1>1. TypeOK /\ TypeOK' /\ IdInv /\ IdInv'
  BY TypeStep, IdStep DEF ReplayInv
<1>2. overtaken => overtaken'
  <2> USE DEF Goto, run_vars, cap_vars, req_vars, hist_vars
  <2>1. ASSUME NEW t \in Threads, Request(t) PROVE overtaken => overtaken'
    BY <2>1 DEF Request, Stamp, StampSeq, Arrive, ak_validate_request, CheckSeq, AdvanceSeq,
       ak_validate_capability, PolicyAndExecute
  <2>2. CASE \/ ak_context_new_run \/ SwapTracker \/ ak_grant_capability \/ Expire
             \/ ak_revoke_capability \/ ak_revoke_run \/ UNCHANGED vars
    BY <2>2 DEF ak_context_new_run, SwapTracker, ak_grant_capability, Expire,
       ak_revoke_capability, ak_revoke_run, vars
  <2> QED BY <2>1, <2>2 DEF Next
<1>3. overtaken' \/ InTurn'
  BY <1>1, <1>2, InTurnStep DEF ReplayInv, InTurn
<1> QED BY <1>1, <1>3 DEF ReplayInv, InTurn

\* ak_dispatch executes a request at most once, with any number of threads that draw
\* equal seqs, arrive in any order and begin new runs at any point, until two threads
\* are between the test and the update of ak_seq_tracker_check, or the tracker is
\* replaced under requests it has let through or is about to check.
THEOREM NeverReplayed == Spec => []AtMostOnce
<1>1. ReplayInv => AtMostOnce
  BY DEF ReplayInv, AtMostOnce
<1> QED BY <1>1, ReplayInit, ReplayStep, PTL DEF Spec
=============================================================================
