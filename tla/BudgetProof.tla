----------------------------- MODULE BudgetProof -----------------------------
(***************************************************************************)
(* The budget of a run, for any number of threads, any limits and any      *)
(* width of the counters: the type invariant, the bound on what check,     *)
(* execution and commit apart let through, the exactness of the reserve    *)
(* protocol, and that every unit of work is counted once.                  *)
(***************************************************************************)
EXTENDS Budget, FiniteSetTheorems, SequenceTheorems, TLAPS

-----------------------------------------------------------------------------
(* Counting *)

\* A set of threads has at most as many members as there are threads, and fewer
\* if one is missing.
LEMMA ThreadCount ==
    ASSUME NEW S, S \subseteq Threads
    PROVE  /\ IsFiniteSet(S) /\ Cardinality(S) \in Nat /\ Cardinality(Threads) \in Nat \ {0}
           /\ Cardinality(S) <= Cardinality(Threads)
           /\ \A t \in Threads : t \notin S => Cardinality(S) <= Cardinality(Threads) - 1
  <1>1. IsFiniteSet(Threads) /\ Threads # {}
    BY BudgetAssumption
  <1>2. IsFiniteSet(S) /\ Cardinality(S) <= Cardinality(Threads)
    BY <1>1, FS_Subset
  <1>3. Cardinality(S) \in Nat /\ Cardinality(Threads) \in Nat
    BY <1>1, <1>2, FS_CardinalityType
  <1>4. Cardinality(Threads) # 0
    BY <1>1, FS_EmptySet
  <1>5. ASSUME NEW t \in Threads, t \notin S PROVE Cardinality(S) <= Cardinality(Threads) - 1
    <2>1. S \cup {t} \subseteq Threads
      BY <1>5
    <2>2. Cardinality(S \cup {t}) = Cardinality(S) + 1
      BY <1>2, <1>5, FS_AddElement
    <2>3. Cardinality(S \cup {t}) <= Cardinality(Threads)
      BY <1>1, <2>1, FS_Subset
    <2> QED BY <1>3, <2>2, <2>3
  <1> QED BY <1>2, <1>3, <1>4, <1>5

\* A subset of a set of threads has no more members, and one fewer at least if a
\* thread has left.
LEMMA FewerThreads ==
    ASSUME NEW S, S \subseteq Threads, NEW Q, Q \subseteq S
    PROVE  /\ Cardinality(Q) \in Nat /\ Cardinality(S) \in Nat /\ Cardinality(Q) <= Cardinality(S)
           /\ \A t \in S : t \notin Q => Cardinality(Q) <= Cardinality(S) - 1
  <1>1. IsFiniteSet(S) /\ Cardinality(S) \in Nat /\ IsFiniteSet(Q) /\ Cardinality(Q) \in Nat
    BY ThreadCount
  <1>2. Cardinality(Q) <= Cardinality(S)
    BY <1>1, FS_Subset
  <1>3. ASSUME NEW t \in S, t \notin Q PROVE Cardinality(Q) <= Cardinality(S) - 1
    <2>1. Q \cup {t} \subseteq S
      BY <1>3
    <2>2. Cardinality(Q \cup {t}) = Cardinality(Q) + 1
      BY <1>1, <1>3, FS_AddElement
    <2>3. Cardinality(Q \cup {t}) <= Cardinality(S)
      BY <1>1, <2>1, FS_Subset
    <2> QED BY <1>1, <2>2, <2>3
  <1> QED BY <1>1, <1>2, <1>3

\* The units of one reservation are as many as it asked for.
LEMMA UnitCount ==
    ASSUME NEW t, NEW n \in Nat
    PROVE  IsFiniteSet({t} \X (1..n)) /\ Cardinality({t} \X (1..n)) = n
  <1>1. IsFiniteSet(1..n) /\ Cardinality(1..n) = n
    BY FS_Interval
  <1>2. IsFiniteSet({t}) /\ Cardinality({t}) = 1
    BY FS_Singleton
  <1>3. /\ IsFiniteSet({t} \X (1..n))
        /\ Cardinality({t} \X (1..n)) = Cardinality({t}) * Cardinality(1..n)
    BY <1>1, <1>2, FS_Product
  <1>4. 1 * n = n
    OBVIOUS
  <1> QED BY <1>1, <1>2, <1>3, <1>4

\* Units of another thread add up.
LEMMA MoreUnits ==
    ASSUME NEW H, IsFiniteSet(H), NEW t, NEW n \in Nat, \A h \in H : h[1] # t
    PROVE  Cardinality(H \cup ({t} \X (1..n))) = Cardinality(H) + n
  <1> DEFINE U == {t} \X (1..n)
  <1>1. IsFiniteSet(U) /\ Cardinality(U) = n
    BY UnitCount
  <1>2. H \cap U = {}
    OBVIOUS
  <1>3. Cardinality(H) \in Nat
    BY FS_CardinalityType
  <1>4. Cardinality(H \cup U) = Cardinality(H) + Cardinality(U) - Cardinality(H \cap U)
    BY <1>1, FS_Union
  <1>5. Cardinality(H \cap U) = 0
    BY <1>2, FS_EmptySet
  <1> QED BY <1>1, <1>3, <1>4, <1>5

-----------------------------------------------------------------------------
(* What the tracker's operations do to a total *)

\* ak_budget_commit adds, at most, and stays a u64.
LEMMA SaturateBounds ==
    ASSUME NEW u \in 0..U64Max, NEW n \in 0..U64Max
    PROVE  Saturate(u, n) \in 0..U64Max /\ Saturate(u, n) <= u + n
  BY BudgetAssumption DEF Saturate

\* A check that passes leaves room below the limit.
LEMMA CheckRoom ==
    ASSUME TypeOK, NEW r \in Resources, NEW n \in 0..U64Max, ak_budget_check(r, n)
    PROVE  used[r] + n <= Limits[r] /\ used[r] + n \in 0..U64Max
  BY BudgetAssumption DEF TypeOK, ak_budget_check, ak_budget_fits

\* What a list of charges charges to a resource is an amount of the list, or zero.
LEMMA TotalType ==
    ASSUME NEW s \in Seq(Charge), NEW r
    PROVE  Total(s, r) \in 0..U64Max /\ Total(s, r) \in Nat
  <1>1. \A i \in DOMAIN s : s[i] \in Charge
    BY ElementOfSeq, LenProperties
  <1>2. (\A c \in Charge : c[2] \in 0..U64Max) /\ U64Max \in Nat
    BY BudgetAssumption DEF Charge
  <1>3. Total(s, r) \in 0..U64Max
    BY <1>1, <1>2 DEF Total
  <1> QED BY <1>2, <1>3

\* A list of one charge.
LEMMA OneCharge ==
    ASSUME NEW r \in Resources, NEW n \in 0..U64Max
    PROVE  /\ << <<r, n>> >> \in Seq(Charge) /\ << <<r, n>> >>[1] = <<r, n>>
           /\ << <<r, n>> >> # <<>> /\ Len(<< <<r, n>> >>) = 1 /\ Tail(<< <<r, n>> >>) = <<>>
           /\ \A q : Total(<< <<r, n>> >>, q) = IF q = r THEN n ELSE 0
  <1> DEFINE c == <<r, n>>
  <1>1. c \in Charge /\ c[1] = r /\ c[2] = n
    BY DEF Charge
  <1> HIDE DEF c
  <1>2. /\ << c >> \in Seq(Charge) /\ DOMAIN << c >> = {1} /\ << c >>[1] = c
        /\ << c >> # <<>> /\ Len(<< c >>) = 1 /\ Tail(<< c >>) = <<>>
    BY <1>1
  <1>3. ASSUME NEW q PROVE Total(<< c >>, q) = IF q = r THEN n ELSE 0
    <2> DEFINE s == << c >>
    <2>1. DOMAIN s = {1} /\ s[1][1] = r /\ s[1][2] = n
      BY <1>1, <1>2
    <2> HIDE DEF s
    <2>2. Total(s, q) = IF q = r THEN n ELSE 0
      <3>1. CASE q = r
        <4>1. (CHOOSE i \in DOMAIN s : s[i][1] = q) = 1
          BY <2>1, <3>1
        <4> QED BY <2>1, <3>1, <4>1 DEF Total
      <3>2. CASE q # r
        BY <2>1, <3>2 DEF Total
      <3> QED BY <3>1, <3>2
    <2> QED BY <2>2 DEF s
  <1> QED BY <1>2, <1>3 DEF c

\* No charge at all.
LEMMA NoCharge == <<>> \in Seq(Charge) /\ \A q : Total(<<>>, q) = 0
  BY DEF Total

\* What an inference has to be charged: its input and its output, or what is left.
Tokens(s) ==
    \E i, n \in 0..U64Max : \/ s = << <<"tokens_in", i>>, <<"tokens_out", n>> >>
                            \/ s = << <<"tokens_out", n>> >>

\* What s charges to r is what its first charge does and what the rest does.
Adds(s) == \A r : Total(s, r) = (IF s[1][1] = r THEN s[1][2] ELSE 0) + Total(Tail(s), r)

\* That holds of one charge.
LEMMA OneAdds ==
    ASSUME NEW r \in Resources, NEW n \in 0..U64Max PROVE Adds(<< <<r, n>> >>)
  <1> DEFINE s == << <<r, n>> >>
  <1>1. /\ s[1] = <<r, n>> /\ Tail(s) = <<>> /\ \A q : Total(s, q) = IF q = r THEN n ELSE 0
    BY OneCharge
  <1>2. s[1][1] = r /\ s[1][2] = n /\ n \in Nat
    BY <1>1, BudgetAssumption
  <1>3. \A q : Total(Tail(s), q) = 0
    BY <1>1, NoCharge
  <1> HIDE DEF s
  <1>4. Adds(s)
    BY <1>1, <1>2, <1>3 DEF Adds
  <1> QED BY <1>4 DEF s

\* The two charges of an inference.
LEMMA TwoCharges ==
    ASSUME NEW i \in 0..U64Max, NEW n \in 0..U64Max
    PROVE  LET s == << <<"tokens_in", i>>, <<"tokens_out", n>> >>
           IN  /\ s \in Seq(Charge) /\ s # <<>> /\ Len(s) = 2 /\ s[1] = <<"tokens_in", i>>
               /\ Tail(s) = << <<"tokens_out", n>> >> /\ Total(s, "calls") = 0 /\ Adds(s)
  <1> DEFINE c == <<"tokens_in", i>>
             d == <<"tokens_out", n>>
             s == << c, d >>
  <1>1. /\ c \in Charge /\ d \in Charge /\ c[1] = "tokens_in" /\ d[1] = "tokens_out"
        /\ c[2] = i /\ d[2] = n /\ "tokens_out" \in Resources
    BY DEF Charge, Resources
  <1> HIDE DEF c, d
  <1>2. /\ s \in Seq(Charge) /\ s # <<>> /\ Len(s) = 2 /\ s[1] = c /\ s[2] = d /\ DOMAIN s = {1, 2}
        /\ Tail(s) = << d >>
    BY <1>1
  <1>3. \A q : Total(<< d >>, q) = IF q = "tokens_out" THEN n ELSE 0
    BY <1>1, OneCharge DEF d
  <1> HIDE DEF s
  <1>4. \A q : Total(s, q) = IF q = "tokens_in" THEN i ELSE IF q = "tokens_out" THEN n ELSE 0
    <2> SUFFICES ASSUME NEW q
                 PROVE  Total(s, q) = IF q = "tokens_in" THEN i ELSE IF q = "tokens_out" THEN n ELSE 0
      OBVIOUS
    <2>0. s[1][1] = "tokens_in" /\ s[2][1] = "tokens_out" /\ s[1][2] = i /\ s[2][2] = n
      BY <1>1, <1>2
    <2>1. CASE q = "tokens_in"
      <3>1. (CHOOSE j \in DOMAIN s : s[j][1] = q) = 1
        BY <1>2, <2>0, <2>1
      <3> QED BY <1>2, <2>0, <2>1, <3>1 DEF Total
    <2>2. CASE q = "tokens_out"
      <3>1. (CHOOSE j \in DOMAIN s : s[j][1] = q) = 2
        BY <1>2, <2>0, <2>2
      <3> QED BY <1>2, <2>0, <2>2, <3>1 DEF Total
    <2>3. CASE q \notin {"tokens_in", "tokens_out"}
      BY <1>2, <2>0, <2>3 DEF Total
    <2> QED BY <2>1, <2>2, <2>3
  <1>5. Adds(s)
    <2>1. i \in Nat /\ n \in Nat /\ s[1][1] = "tokens_in" /\ s[1][2] = i
      BY <1>1, <1>2, BudgetAssumption
    <2>2. \A q : Total(Tail(s), q) = IF q = "tokens_out" THEN n ELSE 0
      BY <1>2, <1>3
    <2> QED BY <1>4, <2>1, <2>2 DEF Adds
  <1>6. Total(s, "calls") = 0
    BY <1>4
  <1> QED BY <1>2, <1>5, <1>6 DEF c, d, s

\* What is left of an inference's charges, one after the other.
LEMMA TokensFacts ==
    ASSUME NEW s, Tokens(s)
    PROVE  /\ s \in Seq(Charge) /\ s # <<>> /\ s[1][1] \in {"tokens_in", "tokens_out"} /\ Adds(s)
           /\ Tail(s) = <<>> \/ Tokens(Tail(s))
           /\ Len(s) = 1 <=> Tail(s) = <<>>
  <1>0. "tokens_out" \in Resources
    BY DEF Resources
  <1>1. PICK i \in 0..U64Max, n \in 0..U64Max :
            \/ s = << <<"tokens_in", i>>, <<"tokens_out", n>> >>
            \/ s = << <<"tokens_out", n>> >>
    BY DEF Tokens
  <1>2. CASE s = << <<"tokens_in", i>>, <<"tokens_out", n>> >>
    <2>1. /\ s \in Seq(Charge) /\ s # <<>> /\ Len(s) = 2 /\ s[1] = <<"tokens_in", i>>
          /\ Tail(s) = << <<"tokens_out", n>> >> /\ Adds(s)
      BY <1>2, TwoCharges
    <2>2. Tokens(Tail(s)) /\ Tail(s) # <<>>
      BY <1>0, <2>1, OneCharge DEF Tokens
    <2> QED BY <2>1, <2>2
  <1>3. CASE s = << <<"tokens_out", n>> >>
    <2>1. /\ s \in Seq(Charge) /\ s # <<>> /\ Len(s) = 1 /\ s[1] = <<"tokens_out", n>>
          /\ Tail(s) = <<>> /\ Adds(s)
      BY <1>0, <1>3, OneCharge, OneAdds
    <2> QED BY <2>1
  <1> QED BY <1>1, <1>2, <1>3

\* What an operation can be charged.
LEMMA ChargesFacts ==
    ASSUME NEW o \in AllOps \ {"reserved"}, NEW s \in Charges(o)
    PROVE  /\ s \in Seq(Charge) /\ Total(s, "calls") = 0
           /\ \A r : Total(s, r) \in Nat
           /\ \/ o = "call" /\ s = << <<"tool_calls", 1>> >>
              \/ o \in {"alloc", "spawn"} /\ s = << <<"heap_objects", 1>> >>
              \/ o = "batch" /\ \E n \in 0..U64Max : s = << <<"heap_objects", n>> >>
              \/ o \in {"inference", "infer_issue"} /\ Tokens(s)
  <1> DEFINE Cost == \/ o = "call" /\ s = << <<"tool_calls", 1>> >>
                     \/ o \in {"alloc", "spawn"} /\ s = << <<"heap_objects", 1>> >>
                     \/ o = "batch" /\ \E n \in 0..U64Max : s = << <<"heap_objects", n>> >>
                     \/ o \in {"inference", "infer_issue"} /\ Tokens(s)
  <1>1. /\ 1 \in 0..U64Max /\ BatchSizes \subseteq 0..U64Max /\ TokenCounts \subseteq 0..U64Max
        /\ "tool_calls" \in Resources /\ "heap_objects" \in Resources
    BY BudgetAssumption DEF Resources
  <1>2. s \in Seq(Charge) /\ Total(s, "calls") = 0 /\ Cost
    <2>1. CASE o = "call"
      <3>1. s = << <<"tool_calls", 1>> >>
        BY <2>1 DEF Charges
      <3>2. s \in Seq(Charge) /\ Total(s, "calls") = 0
        BY <1>1, <3>1, OneCharge
      <3> QED BY <2>1, <3>1, <3>2
    <2>2. CASE o \in {"inference", "infer_issue"}
      <3>1. PICK i \in TokenCounts, n \in TokenCounts : s = << <<"tokens_in", i>>, <<"tokens_out", n>> >>
        BY <2>2 DEF Charges
      <3>2. i \in 0..U64Max /\ n \in 0..U64Max
        BY <1>1
      <3>3. s \in Seq(Charge) /\ Total(s, "calls") = 0 /\ Tokens(s)
        BY <3>1, <3>2, TwoCharges DEF Tokens
      <3> QED BY <2>2, <3>3
    <2>3. CASE o = "batch"
      <3>1. PICK n \in BatchSizes : s = << <<"heap_objects", n>> >>
        BY <2>3 DEF Charges
      <3>2. s \in Seq(Charge) /\ Total(s, "calls") = 0 /\ n \in 0..U64Max
        BY <1>1, <3>1, OneCharge
      <3> QED BY <2>3, <3>1, <3>2
    <2>4. CASE o \in {"alloc", "spawn"}
      <3>1. s = << <<"heap_objects", 1>> >>
        BY <2>4 DEF Charges
      <3>2. s \in Seq(Charge) /\ Total(s, "calls") = 0
        BY <1>1, <3>1, OneCharge
      <3> QED BY <2>4, <3>1, <3>2
    <2> QED BY <2>1, <2>2, <2>3, <2>4 DEF AllOps
  <1>3. \A r : Total(s, r) \in Nat
    BY <1>2, TotalType
  <1> QED BY <1>2, <1>3

-----------------------------------------------------------------------------
(* Types, and what each thread has still to be charged *)

\* What DueInv says of one thread whose operation is o, at p, with charges s due.
Due(p, o, s) ==
    /\ p = "commit" =>
        \/ o = "call" /\ s = << <<"tool_calls", 1>> >>
        \/ o \in {"alloc", "spawn"} /\ s = << <<"heap_objects", 1>> >>
        \/ o = "batch" /\ \E n \in 0..U64Max : s = << <<"heap_objects", n>> >>
        \/ o = "inference" /\ Tokens(s)
    /\ p = "held" =>
        \E r \in {"calls", "tool_calls"}, n \in 0..U64Max : s = << <<r, n>> >>
    /\ p \in {"handler", "execute"} => o # "reserved"

\* DueInv, thread by thread.
LEMMA DueOfThread ==
    ASSUME DueInv, NEW t \in Threads PROVE Due(pc[t], op[t], todo[t])
  BY DEF DueInv, Due, Tokens

\* Thread t, and no other, comes to p with operation o and charges s due.
Moves(t, p, o, s) ==
    /\ p \in {"idle", "handler", "execute", "commit", "held"} /\ o \in AllOps /\ s \in Seq(Charge)
    /\ pc' = [pc EXCEPT ![t] = p] /\ op' = [op EXCEPT ![t] = o] /\ todo' = [todo EXCEPT ![t] = s]
    /\ Due(p, o, s)

\* A step changes one thread: the others' dues stay.
LEMMA DueStep ==
    ASSUME TypeOK, DueInv, NEW t \in Threads, NEW p, NEW o, NEW s, Moves(t, p, o, s)
    PROVE  /\ pc' \in [Threads -> {"idle", "handler", "execute", "commit", "held"}]
           /\ op' \in [Threads -> AllOps] /\ todo' \in [Threads -> Seq(Charge)] /\ DueInv'
  <1>0. /\ p \in {"idle", "handler", "execute", "commit", "held"} /\ o \in AllOps /\ s \in Seq(Charge)
        /\ pc' = [pc EXCEPT ![t] = p] /\ op' = [op EXCEPT ![t] = o] /\ todo' = [todo EXCEPT ![t] = s]
        /\ Due(p, o, s)
    BY DEF Moves
  <1>1. /\ pc' \in [Threads -> {"idle", "handler", "execute", "commit", "held"}]
        /\ op' \in [Threads -> AllOps] /\ todo' \in [Threads -> Seq(Charge)]
    BY <1>0 DEF TypeOK
  <1>2. ASSUME NEW u \in Threads PROVE Due(pc'[u], op'[u], todo'[u])
    <2>1. CASE u = t
      <3>1. pc'[u] = p /\ op'[u] = o /\ todo'[u] = s
        BY <1>0, <2>1 DEF TypeOK
      <3> QED BY <1>0, <3>1
    <2>2. CASE u # t
      <3>1. pc'[u] = pc[u] /\ op'[u] = op[u] /\ todo'[u] = todo[u]
        BY <1>0, <2>2 DEF TypeOK
      <3> QED BY <3>1, DueOfThread
    <2> QED BY <2>1, <2>2
  <1>3. DueInv'
    BY <1>2 DEF DueInv, Due, Tokens
  <1> QED BY <1>1, <1>3

\* Admission and the handler's check leave the dues alone.
LEMMA AdmitStep ==
    ASSUME TypeOK, DueInv, NEW t \in Threads, Admit(t) PROVE TypeOK' /\ DueInv'
  <1>1. PICK o \in Ops \ {"reserved"} :
          /\ op' = [op EXCEPT ![t] = o]
          /\ pc' = [pc EXCEPT ![t] = IF PolicyCheck(o) THEN "handler" ELSE "idle"]
    BY DEF Admit
  <1> DEFINE p == IF PolicyCheck(o) THEN "handler" ELSE "idle"
  <1>2. p \in {"idle", "handler"} /\ pc' = [pc EXCEPT ![t] = p]
    BY <1>1
  <1> HIDE DEF p
  <1>3. o \in AllOps /\ o # "reserved" /\ todo[t] \in Seq(Charge)
    BY BudgetAssumption DEF TypeOK
  <1>4. todo' = [todo EXCEPT ![t] = todo[t]]
    BY DEF Admit, TypeOK
  <1>5. Due(p, o, todo[t]) /\ p \in {"idle", "handler", "execute", "commit", "held"}
    BY <1>2, <1>3 DEF Due
  <1>6. /\ pc' \in [Threads -> {"idle", "handler", "execute", "commit", "held"}]
        /\ op' \in [Threads -> AllOps] /\ todo' \in [Threads -> Seq(Charge)] /\ DueInv'
    <2>1. Moves(t, p, o, todo[t])
      BY <1>1, <1>2, <1>3, <1>4, <1>5 DEF Moves
    <2> QED BY <2>1, DueStep
  <1> QED BY <1>6 DEF Admit, TypeOK

\* The handler's check lets the thread on or sends it back.
LEMMA HandlerStep ==
    ASSUME TypeOK, DueInv, NEW t \in Threads, HandlerCheck(t) PROVE TypeOK' /\ DueInv'
  <1>1. PICK p \in {"idle", "execute"} : pc' = [pc EXCEPT ![t] = p]
    BY DEF HandlerCheck
  <1>2. op[t] \in AllOps /\ todo[t] \in Seq(Charge)
    BY DEF TypeOK
  <1>3. todo' = [todo EXCEPT ![t] = todo[t]] /\ op' = [op EXCEPT ![t] = op[t]]
    BY DEF HandlerCheck, TypeOK
  <1>4. Due(p, op[t], todo[t]) /\ p \in {"idle", "handler", "execute", "commit", "held"}
    BY <1>1, DueOfThread DEF Due, HandlerCheck
  <1>5. /\ pc' \in [Threads -> {"idle", "handler", "execute", "commit", "held"}]
        /\ op' \in [Threads -> AllOps] /\ todo' \in [Threads -> Seq(Charge)] /\ DueInv'
    <2>1. Moves(t, p, op[t], todo[t])
      BY <1>1, <1>2, <1>3, <1>4 DEF Moves
    <2> QED BY <2>1, DueStep
  <1> QED BY <1>5 DEF HandlerCheck, TypeOK

\* Thread t's operation has ended so, at the cost of s.
Ends(t, end, s) ==
    /\ end[1] \in BOOLEAN /\ end[2] \in BOOLEAN
    /\ work' = Plus(work, s, end[1])
    /\ gratis' = Plus(gratis, s, end[1] /\ ~end[2])
    /\ forfeit' = Plus(forfeit, s, ~end[1] /\ end[2])
    /\ todo' = [todo EXCEPT ![t] = IF end[2] THEN s ELSE <<>>]
    /\ pc' = [pc EXCEPT ![t] = IF end[2] THEN "commit" ELSE "idle"]
    /\ end[1] /\ ~end[2] => op[t] \in {"call", "infer_issue"}
    /\ ~end[1] /\ end[2] => op[t] \in {"call", "spawn"}
    /\ end[2] => op[t] # "infer_issue"

\* Execute is such an end.
LEMMA ExecuteEnds ==
    ASSUME NEW t \in Threads, Execute(t)
    PROVE  \E end \in Outcomes(op[t]), s \in Charges(op[t]) : Ends(t, end, s)
  <1>1. PICK end \in Outcomes(op[t]), s \in Charges(op[t]) :
          /\ work' = Plus(work, s, end[1])
          /\ gratis' = Plus(gratis, s, end[1] /\ ~end[2])
          /\ forfeit' = Plus(forfeit, s, ~end[1] /\ end[2])
          /\ todo' = [todo EXCEPT ![t] = IF end[2] THEN s ELSE <<>>]
          /\ pc' = [pc EXCEPT ![t] = IF end[2] THEN "commit" ELSE "idle"]
    BY DEF Execute
  <1>2. \/ end = <<TRUE, TRUE>> /\ op[t] # "infer_issue"
        \/ end = <<FALSE, FALSE>>
        \/ end = <<FALSE, TRUE>> /\ op[t] \in {"call", "spawn"}
        \/ end = <<TRUE, FALSE>> /\ op[t] \in {"call", "infer_issue"}
    BY DEF Outcomes
  <1>3. /\ end[1] \in BOOLEAN /\ end[2] \in BOOLEAN
        /\ end[1] /\ ~end[2] => op[t] \in {"call", "infer_issue"}
        /\ ~end[1] /\ end[2] => op[t] \in {"call", "spawn"}
        /\ end[2] => op[t] # "infer_issue"
    <2>1. CASE end = <<TRUE, TRUE>> /\ op[t] # "infer_issue"
      <3>1. end[1] = TRUE /\ end[2] = TRUE
        BY <2>1
      <3> QED BY <2>1, <3>1
    <2>2. CASE end = <<FALSE, FALSE>>
      <3>1. end[1] = FALSE /\ end[2] = FALSE
        BY <2>2
      <3> QED BY <3>1
    <2>3. CASE end = <<FALSE, TRUE>> /\ op[t] \in {"call", "spawn"}
      <3>1. end[1] = FALSE /\ end[2] = TRUE
        BY <2>3
      <3> QED BY <2>3, <3>1
    <2>4. CASE end = <<TRUE, FALSE>> /\ op[t] \in {"call", "infer_issue"}
      <3>1. end[1] = TRUE /\ end[2] = FALSE
        BY <2>4
      <3> QED BY <2>4, <3>1
    <2> QED BY <1>2, <2>1, <2>2, <2>3, <2>4
  <1>4. Ends(t, end, s)
    BY <1>1, <1>3 DEF Ends
  <1> QED BY <1>4

\* A total of naturals and what is added to it.
LEMMA PlusType ==
    ASSUME NEW g \in [Resources -> Nat], NEW s, NEW b, \A r \in Resources : Total(s, r) \in Nat
    PROVE  /\ Plus(g, s, b) \in [Resources -> Nat]
           /\ \A r \in Resources : Total(s, r) = 0 \/ ~b => Plus(g, s, b)[r] = g[r]
  <1> DEFINE cost(r) == IF b THEN Total(s, r) ELSE 0
  <1>1. \A r \in Resources : cost(r) \in Nat /\ (Total(s, r) = 0 \/ ~b => cost(r) = 0)
    OBVIOUS
  <1>2. Plus(g, s, b) = [r \in Resources |-> g[r] + cost(r)]
    BY DEF Plus
  <1> HIDE DEF cost
  <1> QED BY <1>1, <1>2

\* An operation that was done, or charged, leaves what it costs to be committed.
LEMMA ExecuteStep ==
    ASSUME TypeOK, DueInv, NEW t \in Threads, Execute(t)
    PROVE  TypeOK' /\ DueInv' /\ work'["calls"] = work["calls"]
  <1>1. PICK end \in Outcomes(op[t]), s \in Charges(op[t]) : Ends(t, end, s)
    BY ExecuteEnds
  <1>2. op[t] \in AllOps \ {"reserved"}
    BY DueOfThread DEF Execute, TypeOK, Due
  <1>3. s \in Seq(Charge) /\ Total(s, "calls") = 0 /\ \A r \in Resources : Total(s, r) \in Nat
    BY <1>2, ChargesFacts
  <1>4. end[2] => Due("commit", op[t], s)
    BY <1>1, <1>2, ChargesFacts DEF Due, Ends
  <1> DEFINE d == IF end[2] THEN s ELSE <<>>
             p == IF end[2] THEN "commit" ELSE "idle"
  <1>5. d \in Seq(Charge) /\ p \in {"commit", "idle"} /\ Due(p, op[t], d)
    <2>1. CASE end[2]
      BY <1>3, <1>4, <2>1
    <2>2. CASE ~end[2]
      <3>1. d = <<>> /\ p = "idle"
        BY <2>2
      <3> QED BY <3>1 DEF Due
    <2> QED BY <2>1, <2>2
  <1>6. todo' = [todo EXCEPT ![t] = d] /\ pc' = [pc EXCEPT ![t] = p]
    BY <1>1 DEF Ends
  <1> HIDE DEF d, p
  <1>7. op' = [op EXCEPT ![t] = op[t]] /\ op[t] \in AllOps
    BY DEF Execute, TypeOK
  <1>8. /\ pc' \in [Threads -> {"idle", "handler", "execute", "commit", "held"}]
        /\ op' \in [Threads -> AllOps] /\ todo' \in [Threads -> Seq(Charge)] /\ DueInv'
    <2>1. Moves(t, p, op[t], d)
      BY <1>5, <1>6, <1>7 DEF Moves
    <2> QED BY <2>1, DueStep
  <1>9. /\ work' \in [Resources -> Nat] /\ work'["calls"] = work["calls"]
        /\ gratis' \in [Resources -> Nat] /\ forfeit' \in [Resources -> Nat]
    <2>1. "calls" \in Resources /\ work \in [Resources -> Nat]
      BY DEF Resources, TypeOK
    <2>2. gratis \in [Resources -> Nat] /\ forfeit \in [Resources -> Nat]
      BY DEF TypeOK
    <2>3. Total(s, "calls") = 0 \/ ~end[1] => Plus(work, s, end[1])["calls"] = work["calls"]
      BY <1>3, <2>1, PlusType
    <2>4. /\ Plus(work, s, end[1]) \in [Resources -> Nat]
          /\ Plus(gratis, s, end[1] /\ ~end[2]) \in [Resources -> Nat]
          /\ Plus(forfeit, s, ~end[1] /\ end[2]) \in [Resources -> Nat]
      BY <1>3, <2>1, <2>2, PlusType
    <2>5. work' = Plus(work, s, end[1])
      BY <1>1 DEF Ends
    <2>6. gratis' = Plus(gratis, s, end[1] /\ ~end[2])
      BY <1>1 DEF Ends
    <2>7. forfeit' = Plus(forfeit, s, ~end[1] /\ end[2])
      BY <1>1 DEF Ends
    <2> QED BY <1>3, <2>3, <2>4, <2>5, <2>6, <2>7
  <1> QED BY <1>8, <1>9 DEF Execute, TypeOK

\* Done and not charged, or charged and not done: only calls, spawns and issued inferences.
LEMMA ExecuteExceptions ==
    ASSUME TypeOK, DueInv, Exceptions, NEW t \in Threads, Execute(t) PROVE Exceptions'
  <1>1. PICK end \in Outcomes(op[t]), s \in Charges(op[t]) : Ends(t, end, s)
    BY ExecuteEnds
  <1>2. op[t] \in AllOps \ {"reserved"}
    BY DueOfThread DEF Execute, TypeOK, Due
  <1>3. \A r \in Resources : Total(s, r) \in Nat
    BY <1>2, ChargesFacts
  <1>4. /\ op[t] = "call" => \A r \in Resources : Total(s, r) # 0 => r = "tool_calls"
        /\ op[t] = "spawn" => \A r \in Resources : Total(s, r) # 0 => r = "heap_objects"
    <2>1. 1 \in 0..U64Max /\ "tool_calls" \in Resources /\ "heap_objects" \in Resources
      BY BudgetAssumption DEF Resources
    <2>2. /\ op[t] = "call" => s = << <<"tool_calls", 1>> >>
          /\ op[t] = "spawn" => s = << <<"heap_objects", 1>> >>
      BY <1>2, ChargesFacts
    <2> QED BY <2>1, <2>2, OneCharge
  <1>5. op[t] = "infer_issue" => \A r \in Resources : Total(s, r) # 0 => r \in {"tokens_in", "tokens_out"}
    <2>1. SUFFICES ASSUME op[t] = "infer_issue", NEW r \in Resources, Total(s, r) # 0
                   PROVE  r \in {"tokens_in", "tokens_out"}
      OBVIOUS
    <2>2. Tokens(s)
      BY <1>2, <2>1, ChargesFacts
    <2>3. \E i \in DOMAIN s : s[i][1] = r
      BY <2>1 DEF Total
    <2>4. \/ \E i, n \in 0..U64Max : s = << <<"tokens_in", i>>, <<"tokens_out", n>> >>
          \/ \E n \in 0..U64Max : s = << <<"tokens_out", n>> >>
      BY <2>2 DEF Tokens
    <2> QED BY <2>3, <2>4
  <1>6. ASSUME NEW r \in Resources, forfeit'[r] # 0 PROVE r \in {"tool_calls", "heap_objects"}
    <2>1. CASE Total(s, r) = 0 \/ ~(~end[1] /\ end[2])
      <3>1. forfeit'[r] = forfeit[r]
        <4>1. forfeit \in [Resources -> Nat]
          BY DEF TypeOK
        <4>2. forfeit' = Plus(forfeit, s, ~end[1] /\ end[2])
          BY <1>1 DEF Ends
        <4> DEFINE b == ~end[1] /\ end[2]
        <4>3. Total(s, r) = 0 \/ ~b
          BY <2>1
        <4>4. forfeit' = Plus(forfeit, s, b)
          BY <4>2
        <4> HIDE DEF b
        <4>5. Plus(forfeit, s, b)[r] = forfeit[r]
          BY <1>3, <4>1, <4>3, PlusType
        <4> QED BY <4>4, <4>5
      <3> QED BY <1>6, <3>1 DEF Exceptions
    <2>2. CASE Total(s, r) # 0 /\ ~end[1] /\ end[2]
      BY <1>1, <1>4, <2>2 DEF Ends
    <2> QED BY <2>1, <2>2
  <1>7. ASSUME NEW r \in Resources, gratis'[r] # 0 PROVE r \in {"tool_calls", "tokens_in", "tokens_out"}
    <2>1. CASE Total(s, r) = 0 \/ ~(end[1] /\ ~end[2])
      <3>1. gratis'[r] = gratis[r]
        <4>1. gratis \in [Resources -> Nat]
          BY DEF TypeOK
        <4>2. gratis' = Plus(gratis, s, end[1] /\ ~end[2])
          BY <1>1 DEF Ends
        <4> DEFINE b == end[1] /\ ~end[2]
        <4>3. Total(s, r) = 0 \/ ~b
          BY <2>1
        <4>4. gratis' = Plus(gratis, s, b)
          BY <4>2
        <4> HIDE DEF b
        <4>5. Plus(gratis, s, b)[r] = gratis[r]
          BY <1>3, <4>1, <4>3, PlusType
        <4> QED BY <4>4, <4>5
      <3> QED BY <1>7, <3>1 DEF Exceptions
    <2>2. CASE Total(s, r) # 0 /\ end[1] /\ ~end[2]
      BY <1>1, <1>4, <1>5, <2>2 DEF Ends
    <2> QED BY <2>1, <2>2
  <1> QED BY <1>6, <1>7 DEF Exceptions

\* The charge a thread at "commit" or "held" has next: a resource and an amount.
LEMMA NextCharge ==
    ASSUME DueInv, NEW t \in Threads, pc[t] \in {"commit", "held"}
    PROVE  /\ todo[t] \in Seq(Charge) /\ todo[t] # <<>>
           /\ todo[t][1][1] \in Resources /\ todo[t][1][2] \in 0..U64Max /\ Adds(todo[t])
           /\ pc[t] = "commit" => todo[t][1][1] # "calls"
           /\ Len(todo[t]) = 1 <=> Tail(todo[t]) = <<>>
           /\ Len(todo[t]) = 1 \/ (pc[t] = "commit" /\ op[t] = "inference" /\ Tokens(Tail(todo[t])))
           /\ pc[t] = "commit" /\ op[t] = "inference" => todo[t][1][1] \in {"tokens_in", "tokens_out"}
           /\ pc[t] = "commit" /\ op[t] \in {"call", "alloc", "spawn"} => todo[t][1][2] = 1
  <1> DEFINE s == todo[t]
  <1>0. 1 \in 0..U64Max /\ {"tool_calls", "heap_objects", "calls", "tokens_in", "tokens_out"} \subseteq Resources
    BY BudgetAssumption DEF Resources
  <1>1. Due(pc[t], op[t], s)
    BY DueOfThread
  <1>2. CASE pc[t] = "commit" /\ op[t] = "inference"
    <2>1. Tokens(s)
      BY <1>1, <1>2 DEF Due
    <2>2. /\ s \in Seq(Charge) /\ s # <<>> /\ s[1][1] \in {"tokens_in", "tokens_out"} /\ Adds(s)
          /\ Tail(s) = <<>> \/ Tokens(Tail(s))
          /\ Len(s) = 1 <=> Tail(s) = <<>>
      BY <2>1, TokensFacts
    <2>3. s[1] \in Charge
      BY <2>2, ElementOfSeq, EmptySeq, LenProperties
    <2>4. s[1][2] \in 0..U64Max
      BY <2>3 DEF Charge
    <2> QED BY <1>0, <1>2, <2>2, <2>4
  <1>3. CASE ~(pc[t] = "commit" /\ op[t] = "inference")
    <2>1. PICK r, n : /\ r \in Resources /\ n \in 0..U64Max /\ s = << <<r, n>> >>
                      /\ pc[t] = "commit" => r # "calls"
                      /\ pc[t] = "commit" /\ op[t] \in {"call", "alloc", "spawn"} => n = 1
      BY <1>0, <1>1, <1>3 DEF Due
    <2>2. /\ s \in Seq(Charge) /\ s # <<>> /\ s[1] = <<r, n>> /\ Len(s) = 1 /\ Tail(s) = <<>> /\ Adds(s)
      BY <2>1, OneCharge, OneAdds
    <2> QED BY <1>3, <2>1, <2>2
  <1> QED BY <1>2, <1>3

\* One commit: the counter saturates, the rest stays due.
LEMMA CommitStep ==
    ASSUME TypeOK, DueInv, NEW t \in Threads, Commit(t) PROVE TypeOK' /\ DueInv'
  <1> DEFINE p == IF Len(todo[t]) = 1 THEN "idle" ELSE "commit"
  <1>1. /\ pc[t] = "commit" /\ ak_budget_commit(todo[t][1][1], todo[t][1][2])
        /\ todo' = [todo EXCEPT ![t] = Tail(todo[t])] /\ pc' = [pc EXCEPT ![t] = p]
        /\ unchecked' = IF op[t] = "batch" THEN unchecked + todo[t][1][2] ELSE unchecked
    BY DEF Commit, TypeOK
  <1>2. todo[t] # <<>> /\ todo[t][1][1] \in Resources /\ todo[t][1][2] \in 0..U64Max
    BY <1>1, NextCharge
  <1>3. used' \in [Resources -> 0..U64Max]
    BY <1>1, <1>2, SaturateBounds DEF ak_budget_commit, TypeOK
  <1>4. unchecked' \in Nat
    BY <1>1, <1>2 DEF TypeOK
  <1>6. Tail(todo[t]) \in Seq(Charge)
    BY <1>1, NextCharge, HeadTailProperties
  <1>7. Due(p, op[t], Tail(todo[t])) /\ p \in {"idle", "handler", "execute", "commit", "held"}
    BY <1>1, NextCharge DEF Due
  <1> HIDE DEF p
  <1>8. op' = [op EXCEPT ![t] = op[t]] /\ op[t] \in AllOps
    BY DEF Commit, TypeOK
  <1>9. /\ pc' \in [Threads -> {"idle", "handler", "execute", "commit", "held"}]
        /\ op' \in [Threads -> AllOps] /\ todo' \in [Threads -> Seq(Charge)] /\ DueInv'
    <2>1. Moves(t, p, op[t], Tail(todo[t]))
      BY <1>1, <1>6, <1>7, <1>8 DEF Moves
    <2> QED BY <2>1, DueStep
  <1> QED BY <1>3, <1>4, <1>9 DEF Commit, TypeOK

\* A reservation is checked and added in one step.
LEMMA ReserveStep ==
    ASSUME TypeOK, DueInv, NEW t \in Threads, NEW r \in {"calls", "tool_calls"}, NEW n \in 0..U64Max,
           Reserve(t), ak_budget_reserve(r, n), op' = [op EXCEPT ![t] = "reserved"],
           todo' = [todo EXCEPT ![t] = << <<r, n>> >>], pc' = [pc EXCEPT ![t] = "held"]
    PROVE  TypeOK' /\ DueInv'
  <1>1. r \in Resources /\ ak_budget_check(r, n) /\ used' = [used EXCEPT ![r] = used[r] + n]
    BY DEF ak_budget_reserve, Resources, TypeOK
  <1>2. used' \in [Resources -> 0..U64Max]
    BY <1>1, CheckRoom DEF TypeOK
  <1> DEFINE s == << <<r, n>> >>
  <1>3. s \in Seq(Charge) /\ Due("held", "reserved", s)
    BY <1>1, OneCharge DEF Due
  <1>4. todo' = [todo EXCEPT ![t] = s]
    OBVIOUS
  <1> HIDE DEF s
  <1>5. "reserved" \in AllOps /\ "held" \in {"idle", "handler", "execute", "commit", "held"}
    BY DEF AllOps
  <1>6. /\ pc' \in [Threads -> {"idle", "handler", "execute", "commit", "held"}]
        /\ op' \in [Threads -> AllOps] /\ todo' \in [Threads -> Seq(Charge)] /\ DueInv'
    <2>1. Moves(t, "held", "reserved", s)
      BY <1>3, <1>4, <1>5 DEF Moves
    <2> QED BY <2>1, DueStep
  <1> QED BY <1>2, <1>6 DEF Reserve, TypeOK

\* A reservation that is refused changes nothing but the count of requests.
LEMMA RefusedStep ==
    ASSUME TypeOK, DueInv, NEW t \in Threads, Reserve(t), UNCHANGED <<used, op, todo, pc>>
    PROVE  TypeOK' /\ DueInv'
  <1>1. TypeOK'
    BY DEF Reserve, TypeOK
  <1>2. DueInv'
    BY DEF DueInv
  <1> QED BY <1>1, <1>2

\* The end of a reservation, kept or released.
LEMMA SettleStep ==
    ASSUME TypeOK, DueInv, NEW t \in Threads, Settle(t) PROVE TypeOK' /\ DueInv'
  <1>1. pc[t] = "held" /\ todo' = [todo EXCEPT ![t] = <<>>] /\ pc' = [pc EXCEPT ![t] = "idle"]
    BY DEF Settle
  <1>2. todo[t][1][1] \in Resources /\ todo[t][1][2] \in 0..U64Max
    BY <1>1, NextCharge
  <1>3. used' \in [Resources -> 0..U64Max] /\ work' \in [Resources -> Nat]
    <2> DEFINE r == todo[t][1][1]
               n == todo[t][1][2]
    <2>1. r \in Resources /\ n \in 0..U64Max /\ U64Max \in Nat
      BY <1>2, BudgetAssumption
    <2>2. \/ work' = [work EXCEPT ![r] = @ + n] /\ used' = used
          \/ used' = [used EXCEPT ![r] = IF n > @ THEN 0 ELSE @ - n] /\ work' = work
      BY DEF Settle, ak_budget_release
    <2> HIDE DEF r, n
    <2>3. used[r] \in 0..U64Max /\ work[r] \in Nat
      BY <2>1 DEF TypeOK
    <2>4. (IF n > used[r] THEN 0 ELSE used[r] - n) \in 0..U64Max /\ work[r] + n \in Nat
      BY <2>1, <2>3
    <2> QED BY <2>1, <2>2, <2>4 DEF TypeOK
  <1>4. Due("idle", op[t], <<>>) /\ <<>> \in Seq(Charge)
    BY DEF Due
  <1>5. op' = [op EXCEPT ![t] = op[t]] /\ op[t] \in AllOps
    BY DEF Settle, TypeOK
  <1>6. /\ pc' \in [Threads -> {"idle", "handler", "execute", "commit", "held"}]
        /\ op' \in [Threads -> AllOps] /\ todo' \in [Threads -> Seq(Charge)] /\ DueInv'
    <2>1. Moves(t, "idle", op[t], <<>>)
      BY <1>1, <1>4, <1>5 DEF Moves
    <2> QED BY <2>1, DueStep
  <1> QED BY <1>3, <1>6 DEF Settle, TypeOK

-----------------------------------------------------------------------------
(* The overshoot *)

\* What OvershootBounded says of one resource: u units used, F in flight, x unchecked.
Bounded(r, u, F, x) ==
    u + Cardinality(F) <= Limits[r] + Cardinality(Threads) - 1 + (IF r = "heap_objects" THEN x ELSE 0)

Counted == {"tool_calls", "heap_objects"}

\* OvershootBounded is that of both resources, before and after a step.
LEMMA OvershootIs ==
    /\ OvershootBounded <=> \A r \in Counted : Bounded(r, used[r], InFlight(r), unchecked)
    /\ OvershootBounded' <=> \A r \in Counted : Bounded(r, used'[r], InFlight(r)', unchecked')
  BY DEF OvershootBounded, Bounded, Counted

\* How a resource stays bounded.  Nothing is added; a batch is charged its operations,
\* as unchecked; a thread in flight is charged its unit.
LEMMA BoundedLess ==
    ASSUME NEW r \in Counted, NEW u \in Nat, NEW v \in Nat, NEW x \in Nat,
           NEW F, F \subseteq Threads, NEW G, G \subseteq F, Bounded(r, u, F, x), v <= u
    PROVE  Bounded(r, v, G, x)
  <1>1. Cardinality(F) \in Nat /\ Cardinality(G) \in Nat /\ Cardinality(G) <= Cardinality(F)
    BY FewerThreads
  <1>2. Limits[r] \in Nat /\ Cardinality(Threads) \in Nat
    BY BudgetAssumption, ThreadCount DEF Counted, Resources
  <1> QED BY <1>1, <1>2 DEF Bounded

\* A batch.
LEMMA BoundedBatch ==
    ASSUME NEW u \in Nat, NEW v \in Nat, NEW x \in Nat, NEW n \in Nat,
           NEW F, F \subseteq Threads, NEW G, G \subseteq F, Bounded("heap_objects", u, F, x), v <= u + n
    PROVE  Bounded("heap_objects", v, G, x + n)
  <1>1. Cardinality(F) \in Nat /\ Cardinality(G) \in Nat /\ Cardinality(G) <= Cardinality(F)
    BY FewerThreads
  <1>2. Limits["heap_objects"] \in Nat /\ Cardinality(Threads) \in Nat
    BY BudgetAssumption, ThreadCount DEF Resources
  <1> QED BY <1>1, <1>2 DEF Bounded

\* A unit charged to a thread in flight.
LEMMA BoundedCharge ==
    ASSUME NEW r \in Counted, NEW u \in Nat, NEW v \in Nat, NEW x \in Nat,
           NEW F, F \subseteq Threads, NEW G, G \subseteq F, Bounded(r, u, F, x), v <= u + 1,
           NEW t \in F, t \notin G
    PROVE  Bounded(r, v, G, x)
  <1>1. /\ Cardinality(F) \in Nat /\ Cardinality(G) \in Nat
        /\ Cardinality(G) <= Cardinality(F) - 1
    BY FewerThreads
  <1>2. Limits[r] \in Nat /\ Cardinality(Threads) \in Nat
    BY BudgetAssumption, ThreadCount DEF Counted, Resources
  <1> QED BY <1>1, <1>2 DEF Bounded

\* A thread has just passed a check; a reservation fits, and the thread that holds
\* it is not in flight.
LEMMA BoundedChecked ==
    ASSUME NEW r \in Counted, NEW v \in Nat, NEW y \in Nat, NEW G, G \subseteq Threads,
           \/ v + 1 <= Limits[r]
           \/ v <= Limits[r] /\ \E t \in Threads : t \notin G
    PROVE  Bounded(r, v, G, y)
  <1>1. /\ Cardinality(G) \in Nat /\ Cardinality(G) <= Cardinality(Threads)
        /\ (\E t \in Threads : t \notin G) => Cardinality(G) <= Cardinality(Threads) - 1
    BY ThreadCount
  <1>2. Limits[r] \in Nat /\ Cardinality(Threads) \in Nat
    BY BudgetAssumption, ThreadCount DEF Counted, Resources
  <1> QED BY <1>1, <1>2 DEF Bounded

\* Is a thread in flight for r?
Flies(r, p, o, s) ==
    \/ p = "commit" /\ s[1][1] = r /\ o # "batch"
    \/ p = "execute" /\ o \in (IF r = "tool_calls" THEN {"call"} ELSE {"alloc", "spawn"})
    \/ p = "handler" /\ r = "heap_objects" /\ o = "alloc"

\* Only the thread that steps enters or leaves the flight.
LEMMA FlightStep ==
    ASSUME NEW t \in Threads, NEW r,
           \A u \in Threads : u # t => pc'[u] = pc[u] /\ op'[u] = op[u] /\ todo'[u] = todo[u]
    PROVE  /\ InFlight(r) \subseteq Threads /\ InFlight(r)' \subseteq Threads
           /\ \A u \in Threads : u # t => (u \in InFlight(r)' <=> u \in InFlight(r))
           /\ t \in InFlight(r) <=> Flies(r, pc[t], op[t], todo[t])
           /\ t \in InFlight(r)' <=> Flies(r, pc'[t], op'[t], todo'[t])
  BY DEF InFlight, Flies

\* The counters of the two resources are naturals before and after a step.
LEMMA CountedNat ==
    ASSUME TypeOK, NEW r \in Counted PROVE used[r] \in Nat /\ unchecked \in Nat
  <1>1. r \in Resources /\ U64Max \in Nat
    BY BudgetAssumption DEF Counted, Resources
  <1>2. used[r] \in 0..U64Max /\ unchecked \in Nat
    BY <1>1 DEF TypeOK
  <1> QED BY <1>1, <1>2

\* An allocation in flight has been checked at admission.
LEMMA AdmitOvershoot ==
    ASSUME TypeOK, DueInv, OvershootBounded, NEW t \in Threads, Admit(t) PROVE OvershootBounded'
  <1>1. /\ pc'[t] = (IF PolicyCheck(op'[t]) THEN "handler" ELSE "idle")
        /\ \A u \in Threads : u # t => pc'[u] = pc[u] /\ op'[u] = op[u] /\ todo'[u] = todo[u]
        /\ used' = used /\ unchecked' = unchecked
    BY DEF Admit, TypeOK
  <1>2. ASSUME NEW r \in Counted PROVE Bounded(r, used[r], InFlight(r)', unchecked)
    <2>0. used[r] \in Nat /\ unchecked \in Nat /\ Bounded(r, used[r], InFlight(r), unchecked)
      BY CountedNat, OvershootIs
    <2>1. /\ InFlight(r) \subseteq Threads /\ InFlight(r)' \subseteq Threads
          /\ \A u \in Threads : u # t => (u \in InFlight(r)' <=> u \in InFlight(r))
          /\ t \in InFlight(r)' <=> Flies(r, pc'[t], op'[t], todo'[t])
      BY <1>1, FlightStep
    <2>2. CASE t \in InFlight(r)'
      <3>1. PolicyCheck(op'[t]) /\ r = "heap_objects" /\ op'[t] = "alloc"
        BY <1>1, <2>1, <2>2 DEF Flies
      <3>2. ak_budget_check(r, 1) /\ r \in Resources /\ 1 \in 0..U64Max
        BY <3>1, BudgetAssumption DEF PolicyCheck, Resources
      <3>3. used[r] + 1 <= Limits[r]
        BY <3>2, CheckRoom
      <3> QED BY <2>0, <2>1, <3>3, BoundedChecked
    <2>3. CASE t \notin InFlight(r)'
      <3>1. InFlight(r)' \subseteq InFlight(r)
        BY <2>1, <2>3
      <3> QED BY <2>0, <2>1, <3>1, BoundedLess
    <2> QED BY <2>2, <2>3
  <1> QED BY <1>1, <1>2, OvershootIs

\* A call or a spawn enters the flight by its handler's check.
LEMMA HandlerOvershoot ==
    ASSUME TypeOK, DueInv, OvershootBounded, NEW t \in Threads, HandlerCheck(t) PROVE OvershootBounded'
  <1>1. /\ pc[t] = "handler" /\ pc'[t] \in {"execute", "idle"} /\ op' = op /\ todo' = todo
        /\ \A u \in Threads : u # t => pc'[u] = pc[u] /\ op'[u] = op[u] /\ todo'[u] = todo[u]
        /\ used' = used /\ unchecked' = unchecked
        /\ pc'[t] = "execute" /\ op[t] = "call" => ak_budget_check("tool_calls", 1)
        /\ pc'[t] = "execute" /\ op[t] = "spawn" => ak_budget_check("heap_objects", 1)
    BY DEF HandlerCheck, TypeOK
  <1>2. ASSUME NEW r \in Counted PROVE Bounded(r, used[r], InFlight(r)', unchecked)
    <2>0. used[r] \in Nat /\ unchecked \in Nat /\ Bounded(r, used[r], InFlight(r), unchecked)
      BY CountedNat, OvershootIs
    <2>1. /\ InFlight(r) \subseteq Threads /\ InFlight(r)' \subseteq Threads
          /\ \A u \in Threads : u # t => (u \in InFlight(r)' <=> u \in InFlight(r))
          /\ t \in InFlight(r) <=> Flies(r, pc[t], op[t], todo[t])
          /\ t \in InFlight(r)' <=> Flies(r, pc'[t], op[t], todo[t])
      BY <1>1, FlightStep
    <2>2. CASE t \in InFlight(r)' /\ t \notin InFlight(r)
      <3>1. ak_budget_check(r, 1) /\ r \in Resources /\ 1 \in 0..U64Max
        BY <1>1, <2>1, <2>2, BudgetAssumption DEF Flies, Counted, Resources
      <3>2. used[r] + 1 <= Limits[r]
        BY <3>1, CheckRoom
      <3> QED BY <2>0, <2>1, <3>2, BoundedChecked
    <2>3. CASE ~(t \in InFlight(r)' /\ t \notin InFlight(r))
      <3>1. InFlight(r)' \subseteq InFlight(r)
        BY <2>1, <2>3
      <3> QED BY <2>0, <2>1, <3>1, BoundedLess
    <2> QED BY <2>2, <2>3
  <1> QED BY <1>1, <1>2, OvershootIs

\* Execution lets nobody into the flight.
LEMMA ExecuteOvershoot ==
    ASSUME TypeOK, DueInv, DueInv', OvershootBounded, NEW t \in Threads, Execute(t) PROVE OvershootBounded'
  <1>1. /\ pc[t] = "execute" /\ pc'[t] \in {"commit", "idle"} /\ op' = op
        /\ \A u \in Threads : u # t => pc'[u] = pc[u] /\ op'[u] = op[u] /\ todo'[u] = todo[u]
        /\ used' = used /\ unchecked' = unchecked
    BY DEF Execute, TypeOK
  <1>2. ASSUME NEW r \in Counted PROVE Bounded(r, used[r], InFlight(r)', unchecked)
    <2>0. used[r] \in Nat /\ unchecked \in Nat /\ Bounded(r, used[r], InFlight(r), unchecked)
      BY CountedNat, OvershootIs
    <2>1. /\ InFlight(r) \subseteq Threads /\ InFlight(r)' \subseteq Threads
          /\ \A u \in Threads : u # t => (u \in InFlight(r)' <=> u \in InFlight(r))
          /\ t \in InFlight(r) <=> Flies(r, pc[t], op[t], todo[t])
          /\ t \in InFlight(r)' <=> Flies(r, pc'[t], op[t], todo'[t])
      BY <1>1, FlightStep
    <2>2. ASSUME Flies(r, pc'[t], op[t], todo'[t]) PROVE Flies(r, pc[t], op[t], todo[t])
      <3>1. pc'[t] = "commit" /\ todo'[t][1][1] = r /\ op[t] # "batch"
        BY <1>1, <2>2 DEF Flies
      <3>2. \/ op[t] = "call" /\ todo'[t] = << <<"tool_calls", 1>> >>
            \/ op[t] \in {"alloc", "spawn"} /\ todo'[t] = << <<"heap_objects", 1>> >>
            \/ op[t] = "inference" /\ Tokens(todo'[t])
        BY <1>1, <3>1 DEF DueInv, Tokens
      <3>3. op[t] # "inference"
        BY <3>1, <3>2, TokensFacts DEF Counted
      <3>4. \/ op[t] = "call" /\ r = "tool_calls"
            \/ op[t] \in {"alloc", "spawn"} /\ r = "heap_objects"
        BY <3>1, <3>2, <3>3
      <3> QED BY <1>1, <3>4 DEF Flies
    <2>3. InFlight(r)' \subseteq InFlight(r)
      BY <2>1, <2>2
    <2> QED BY <2>0, <2>1, <2>3, BoundedLess
  <1> QED BY <1>1, <1>2, OvershootIs

\* A commit charges the unit of the thread that leaves the flight.
LEMMA CommitOvershoot ==
    ASSUME TypeOK, DueInv, DueInv', OvershootBounded, NEW t \in Threads, Commit(t) PROVE OvershootBounded'
  <1> DEFINE q == todo[t][1][1]
             n == todo[t][1][2]
  <1>1. /\ pc[t] = "commit" /\ pc'[t] = (IF Len(todo[t]) = 1 THEN "idle" ELSE "commit") /\ op' = op
        /\ \A u \in Threads : u # t => pc'[u] = pc[u] /\ op'[u] = op[u] /\ todo'[u] = todo[u]
        /\ unchecked' = IF op[t] = "batch" THEN unchecked + n ELSE unchecked
    BY DEF Commit, TypeOK
  <1>2. q \in Resources /\ n \in 0..U64Max /\ n \in Nat
    BY <1>1, NextCharge, BudgetAssumption
  <1>3. /\ used'[q] <= used[q] + n
        /\ \A r \in Resources : r # q => used'[r] = used[r]
    <2>1. used' = [used EXCEPT ![q] = Saturate(used[q], n)]
      BY DEF Commit, ak_budget_commit, TypeOK
    <2>2. used[q] \in 0..U64Max
      BY <1>2 DEF TypeOK
    <2> QED BY <1>2, <2>1, <2>2, SaturateBounds DEF TypeOK
  <1>4. ASSUME NEW r \in Counted PROVE Bounded(r, used'[r], InFlight(r)', unchecked')
    <2>0. used[r] \in Nat /\ unchecked \in Nat /\ Bounded(r, used[r], InFlight(r), unchecked)
      BY CountedNat, OvershootIs
    <2>a. used'[r] \in Nat
      <3>1. TypeOK'
        BY CommitStep
      <3>2. r \in Resources /\ U64Max \in Nat
        BY BudgetAssumption DEF Counted, Resources
      <3>3. used'[r] \in 0..U64Max
        BY <3>1, <3>2 DEF TypeOK
      <3> QED BY <3>2, <3>3
    <2>1. /\ InFlight(r) \subseteq Threads /\ InFlight(r)' \subseteq Threads
          /\ \A u \in Threads : u # t => (u \in InFlight(r)' <=> u \in InFlight(r))
          /\ t \in InFlight(r) <=> Flies(r, pc[t], op[t], todo[t])
          /\ t \in InFlight(r)' <=> Flies(r, pc'[t], op[t], todo'[t])
      BY <1>1, FlightStep
    <2>2. t \notin InFlight(r)'
      <3>1. CASE Len(todo[t]) = 1
        BY <1>1, <2>1, <3>1 DEF Flies
      <3>2. CASE Len(todo[t]) # 1
        <4>1. pc'[t] = "commit" /\ op[t] = "inference"
          BY <1>1, <3>2, NextCharge
        <4>2. Tokens(todo'[t])
          BY <1>1, <4>1 DEF DueInv, Tokens
        <4>3. todo'[t][1][1] # r
          BY <4>2, TokensFacts DEF Counted
        <4> QED BY <2>1, <4>1, <4>3 DEF Flies
      <3> QED BY <3>1, <3>2
    <2>3. InFlight(r)' \subseteq InFlight(r)
      BY <2>1, <2>2
    <2>4. r \in Resources
      BY DEF Counted, Resources
    <2>5. CASE op[t] = "batch"
      <3>1. q = "heap_objects"
        BY <1>1, <2>5, DueOfThread DEF Due
      <3>2. CASE r = "heap_objects"
        <4>1. Bounded("heap_objects", used'[r], InFlight(r)', unchecked + n)
          BY <1>2, <1>3, <2>0, <2>a, <2>1, <2>3, <3>1, <3>2, BoundedBatch
        <4> QED BY <1>1, <2>5, <3>2, <4>1
      <3>3. CASE r # "heap_objects"
        <4>1. Bounded(r, used[r], InFlight(r)', unchecked)
          BY <2>0, <2>1, <2>3, BoundedLess
        <4> QED BY <1>3, <2>4, <3>1, <3>3, <4>1 DEF Bounded
      <3> QED BY <3>2, <3>3
    <2>6. CASE op[t] # "batch"
      <3>0. unchecked' = unchecked
        BY <1>1, <2>6
      <3>1. CASE r # q
        <4>1. used'[r] = used[r]
          BY <1>3, <2>4, <3>1
        <4> QED BY <2>0, <2>1, <2>3, <3>0, <4>1, BoundedLess
      <3>2. CASE r = q
        <4>1. t \in InFlight(r)
          BY <1>1, <2>1, <2>6, <3>2 DEF Flies
        <4>2. op[t] \in {"call", "alloc", "spawn"}
          <5>1. op[t] # "inference"
            BY <1>1, <3>2, NextCharge DEF Counted
          <5> QED BY <1>1, <2>6, <5>1, DueOfThread DEF Due
        <4>3. n = 1
          BY <1>1, <4>2, NextCharge
        <4>4. used'[r] <= used[r] + 1
          BY <1>3, <3>2, <4>3
        <4> QED BY <2>0, <2>a, <2>1, <2>2, <2>3, <3>0, <4>1, <4>4, BoundedCharge
      <3> QED BY <3>1, <3>2
    <2> QED BY <2>5, <2>6
  <1> QED BY <1>4, OvershootIs

\* A reservation fits below the limit, and its thread is not in flight.
LEMMA ReserveOvershoot ==
    ASSUME TypeOK, DueInv, OvershootBounded, NEW t \in Threads, NEW q \in {"calls", "tool_calls"},
           NEW n \in 0..U64Max, Reserve(t), ak_budget_reserve(q, n), op' = [op EXCEPT ![t] = "reserved"],
           todo' = [todo EXCEPT ![t] = << <<q, n>> >>], pc' = [pc EXCEPT ![t] = "held"]
    PROVE  OvershootBounded'
  <1>1. /\ pc'[t] = "held" /\ unchecked' = unchecked
        /\ \A u \in Threads : u # t => pc'[u] = pc[u] /\ op'[u] = op[u] /\ todo'[u] = todo[u]
    BY DEF Reserve, TypeOK
  <1>2. q \in Resources /\ ak_budget_check(q, n) /\ used' = [used EXCEPT ![q] = used[q] + n]
    BY DEF ak_budget_reserve, Resources, TypeOK
  <1>3. used[q] + n <= Limits[q] /\ used[q] + n \in 0..U64Max
    BY <1>2, CheckRoom
  <1>4. ASSUME NEW r \in Counted PROVE Bounded(r, used'[r], InFlight(r)', unchecked)
    <2>0. used[r] \in Nat /\ unchecked \in Nat /\ Bounded(r, used[r], InFlight(r), unchecked)
      BY CountedNat, OvershootIs
    <2>1. /\ InFlight(r) \subseteq Threads /\ InFlight(r)' \subseteq Threads
          /\ \A u \in Threads : u # t => (u \in InFlight(r)' <=> u \in InFlight(r))
          /\ t \in InFlight(r)' <=> Flies(r, pc'[t], op'[t], todo'[t])
      BY <1>1, FlightStep
    <2>2. t \notin InFlight(r)' /\ InFlight(r)' \subseteq InFlight(r)
      BY <1>1, <2>1 DEF Flies
    <2>3. r \in Resources
      BY DEF Counted, Resources
    <2>4. CASE r = q
      <3>1. used'[r] \in Nat /\ used'[r] <= Limits[r]
        BY <1>2, <1>3, <2>4, BudgetAssumption DEF TypeOK
      <3> QED BY <2>0, <2>1, <2>2, <3>1, BoundedChecked
    <2>5. CASE r # q
      <3>1. used'[r] = used[r]
        BY <1>2, <2>3, <2>5 DEF TypeOK
      <3> QED BY <2>0, <2>1, <2>2, <3>1, BoundedLess
    <2> QED BY <2>4, <2>5
  <1> QED BY <1>1, <1>4, OvershootIs

\* A release only lowers the counter.
LEMMA SettleOvershoot ==
    ASSUME TypeOK, DueInv, OvershootBounded, NEW t \in Threads, Settle(t) PROVE OvershootBounded'
  <1>1. /\ pc[t] = "held" /\ pc'[t] = "idle" /\ unchecked' = unchecked
        /\ \A u \in Threads : u # t => pc'[u] = pc[u] /\ op'[u] = op[u] /\ todo'[u] = todo[u]
    BY DEF Settle, TypeOK
  <1>2. ASSUME NEW r \in Counted PROVE Bounded(r, used'[r], InFlight(r)', unchecked)
    <2>0. used[r] \in Nat /\ unchecked \in Nat /\ Bounded(r, used[r], InFlight(r), unchecked)
      BY CountedNat, OvershootIs
    <2>1. /\ InFlight(r) \subseteq Threads /\ InFlight(r)' \subseteq Threads
          /\ \A u \in Threads : u # t => (u \in InFlight(r)' <=> u \in InFlight(r))
          /\ t \in InFlight(r)' <=> Flies(r, pc'[t], op'[t], todo'[t])
      BY <1>1, FlightStep
    <2>2. InFlight(r)' \subseteq InFlight(r)
      BY <1>1, <2>1 DEF Flies
    <2>3. used'[r] \in Nat /\ used'[r] <= used[r]
      <3> DEFINE q == todo[t][1][1]
                 n == todo[t][1][2]
      <3>1. q \in Resources /\ n \in 0..U64Max /\ n \in Nat /\ r \in Resources
        BY <1>1, NextCharge, BudgetAssumption DEF Counted, Resources
      <3>2. \/ used' = used
            \/ used' = [used EXCEPT ![q] = IF n > used[q] THEN 0 ELSE used[q] - n]
        BY DEF Settle, ak_budget_release, TypeOK
      <3> HIDE DEF q, n
      <3>3. used'[r] = used[r] \/ (r = q /\ used'[r] = IF n > used[r] THEN 0 ELSE used[r] - n)
        BY <3>1, <3>2 DEF TypeOK
      <3> QED BY <2>0, <3>1, <3>3
    <2> QED BY <2>0, <2>1, <2>2, <2>3, BoundedLess
  <1> QED BY <1>1, <1>2, OvershootIs

-----------------------------------------------------------------------------
(* Sums over the threads, as numbers of units *)

\* The units of r that a thread at x with charges s owes, if it is at p; those that the
\* threads of T owe, if each owes A[t].
Owes(x, s, p, r) == IF x = p THEN Total(s, r) ELSE 0
UnitsOf(T, A) == UNION {{t} \X (1..A[t]) : t \in T}

\* What is owed is what one thread owes and what the others owe.
LEMMA UnitsSplit ==
    ASSUME NEW A \in [Threads -> 0..U64Max], NEW t \in Threads
    PROVE  /\ A[t] \in Nat /\ Cardinality(UnitsOf(Threads \ {t}, A)) \in Nat
           /\ Cardinality(UnitsOf(Threads, A)) = Cardinality(UnitsOf(Threads \ {t}, A)) + A[t]
  <1> DEFINE H == UnitsOf(Threads \ {t}, A)
             n == A[t]
  <1>0. IsFiniteSet(Threads) /\ U64Max \in Nat
    BY BudgetAssumption
  <1>1. n \in Nat
    BY <1>0
  <1>2. IsFiniteSet(H)
    <2>1. IsFiniteSet(0..U64Max)
      BY <1>0, FS_Interval
    <2>2. IsFiniteSet(Threads \X (0..U64Max))
      BY <1>0, <2>1, FS_Product
    <2>3. ASSUME NEW u \in Threads PROVE {u} \X (1..A[u]) \subseteq Threads \X (0..U64Max)
      <3>1. 1..A[u] \subseteq 0..U64Max
        BY <1>0
      <3> QED BY <3>1
    <2>4. H \subseteq Threads \X (0..U64Max)
      BY <2>3 DEF UnitsOf
    <2> QED BY <2>2, <2>4, FS_Subset
  <1>3. \A h \in H : h[1] # t
    BY DEF UnitsOf
  <1>4. UnitsOf(Threads, A) = H \cup ({t} \X (1..n))
    BY DEF UnitsOf
  <1> HIDE DEF H, n
  <1>5. Cardinality(H \cup ({t} \X (1..n))) = Cardinality(H) + n
    BY <1>1, <1>2, <1>3, MoreUnits
  <1>6. Cardinality(H) \in Nat
    BY <1>2, FS_CardinalityType
  <1>7. Cardinality(UnitsOf(Threads, A)) = Cardinality(H) + n
    BY <1>4, <1>5, Zenon
  <1> QED BY <1>1, <1>6, <1>7 DEF H, n

\* When one thread's amount changes, the number of units changes with it.
LEMMA UnitsMove ==
    ASSUME NEW A \in [Threads -> 0..U64Max], NEW B \in [Threads -> 0..U64Max], NEW t \in Threads,
           \A u \in Threads : u # t => B[u] = A[u]
    PROVE  \E k \in Nat : /\ Cardinality(UnitsOf(Threads, A)) = k + A[t] /\ A[t] \in Nat
                          /\ Cardinality(UnitsOf(Threads, B)) = k + B[t] /\ B[t] \in Nat
  <1>1. UnitsOf(Threads \ {t}, B) = UnitsOf(Threads \ {t}, A)
    BY DEF UnitsOf
  <1>2. Cardinality(UnitsOf(Threads \ {t}, B)) = Cardinality(UnitsOf(Threads \ {t}, A))
    BY <1>1, Zenon
  <1>3. /\ A[t] \in Nat /\ Cardinality(UnitsOf(Threads \ {t}, A)) \in Nat
        /\ Cardinality(UnitsOf(Threads, A)) = Cardinality(UnitsOf(Threads \ {t}, A)) + A[t]
    BY UnitsSplit
  <1>4. /\ B[t] \in Nat
        /\ Cardinality(UnitsOf(Threads, B)) = Cardinality(UnitsOf(Threads \ {t}, B)) + B[t]
    BY UnitsSplit
  <1> QED BY <1>2, <1>3, <1>4

\* A step of t: what the others owe stays.
LEMMA UnitsStep ==
    ASSUME TypeOK, TypeOK', NEW t \in Threads, NEW p, NEW r,
           \A u \in Threads : u # t => pc'[u] = pc[u] /\ todo'[u] = todo[u]
    PROVE  \E k \in Nat :
             /\ Cardinality(UnitsAt(p, r)) = k + Owes(pc[t], todo[t], p, r)
             /\ Cardinality(UnitsAt(p, r)') = k + Owes(pc'[t], todo'[t], p, r)
             /\ Owes(pc[t], todo[t], p, r) \in Nat /\ Owes(pc'[t], todo'[t], p, r) \in Nat
  <1> DEFINE A == [u \in Threads |-> Owes(pc[u], todo[u], p, r)]
             B == [u \in Threads |-> Owes(pc'[u], todo'[u], p, r)]
  <1>1. 0 \in 0..U64Max /\ 1..0 = {}
    BY BudgetAssumption
  <1>2. \A u \in Threads : Total(todo[u], r) \in 0..U64Max /\ Total(todo'[u], r) \in 0..U64Max
    BY TotalType DEF TypeOK
  <1>3. A \in [Threads -> 0..U64Max] /\ B \in [Threads -> 0..U64Max]
    BY <1>1, <1>2 DEF Owes
  <1>4. A[t] = Owes(pc[t], todo[t], p, r) /\ B[t] = Owes(pc'[t], todo'[t], p, r)
    OBVIOUS
  <1>5. \A u \in Threads : u # t => B[u] = A[u]
    OBVIOUS
  <1>6. UnitsAt(p, r) = UnitsOf(Threads, A) /\ UnitsAt(p, r)' = UnitsOf(Threads, B)
    <2>1. \A u \in Threads : A[u] = Owes(pc[u], todo[u], p, r) /\ B[u] = Owes(pc'[u], todo'[u], p, r)
      OBVIOUS
    <2> HIDE DEF A, B
    <2> QED BY <1>1, <2>1 DEF UnitsAt, UnitsOf, Owes
  <1> HIDE DEF A, B
  <1>7. PICK k \in Nat : /\ Cardinality(UnitsOf(Threads, A)) = k + A[t] /\ A[t] \in Nat
                         /\ Cardinality(UnitsOf(Threads, B)) = k + B[t] /\ B[t] \in Nat
    BY <1>3, <1>5, UnitsMove
  <1> QED BY <1>4, <1>6, <1>7

-----------------------------------------------------------------------------
(* The reserve protocol *)

\* A step that leaves "calls" alone and holds no reservation before or after.
LEMMA ReservedElsewhere ==
    ASSUME TypeOK, DueInv, TypeOK', DueInv', ReservedWithinLimit, NEW t \in Threads,
           \A u \in Threads : u # t => pc'[u] = pc[u] /\ todo'[u] = todo[u],
           pc[t] # "held", pc'[t] # "held", used'["calls"] = used["calls"], work'["calls"] = work["calls"]
    PROVE  ReservedWithinLimit'
  <1>1. Owes(pc[t], todo[t], "held", "calls") = 0 /\ Owes(pc'[t], todo'[t], "held", "calls") = 0
    BY DEF Owes
  <1>2. Cardinality(UnitsAt("held", "calls")') = Cardinality(UnitsAt("held", "calls"))
    BY <1>1, UnitsStep
  <1> QED BY <1>2 DEF ReservedWithinLimit

\* A reservation adds to the counter what it adds to the units held.
LEMMA ReserveExact ==
    ASSUME TypeOK, DueInv, TypeOK', DueInv', ReservedWithinLimit, NEW t \in Threads,
           NEW q \in {"calls", "tool_calls"}, NEW n \in 0..U64Max, Reserve(t), ak_budget_reserve(q, n),
           todo' = [todo EXCEPT ![t] = << <<q, n>> >>], pc' = [pc EXCEPT ![t] = "held"]
    PROVE  ReservedWithinLimit'
  <1>1. /\ \A u \in Threads : u # t => pc'[u] = pc[u] /\ todo'[u] = todo[u]
        /\ pc[t] = "idle" /\ pc'[t] = "held" /\ todo'[t] = << <<q, n>> >> /\ work' = work
    BY DEF Reserve, TypeOK
  <1>2. q \in Resources /\ ak_budget_check(q, n) /\ used' = [used EXCEPT ![q] = used[q] + n]
    BY DEF ak_budget_reserve, Resources, TypeOK
  <1>3. used[q] + n <= Limits[q]
    BY <1>2, CheckRoom
  <1>4. /\ Owes(pc[t], todo[t], "held", "calls") = 0
        /\ Owes(pc'[t], todo'[t], "held", "calls") = IF q = "calls" THEN n ELSE 0
    BY <1>1, <1>2, OneCharge DEF Owes
  <1>5. Cardinality(UnitsAt("held", "calls")') =
            Cardinality(UnitsAt("held", "calls")) + (IF q = "calls" THEN n ELSE 0)
    BY <1>1, <1>4, UnitsStep
  <1>6. used["calls"] \in Nat /\ work["calls"] \in Nat /\ n \in Nat
        /\ Cardinality(UnitsAt("held", "calls")) \in Nat
    <2>1. used["calls"] \in 0..U64Max /\ work["calls"] \in Nat /\ U64Max \in Nat
      BY BudgetAssumption DEF TypeOK, Resources
    <2> QED BY <1>1, <2>1, UnitsStep
  <1>7. used'["calls"] = used["calls"] + (IF q = "calls" THEN n ELSE 0)
    <2>1. DOMAIN used = Resources /\ "calls" \in Resources
      BY DEF TypeOK, Resources
    <2>2. CASE q = "calls"
      BY <1>2, <2>1, <2>2
    <2>3. CASE q # "calls"
      <3>1. used'["calls"] = used["calls"]
        BY <1>2, <2>1, <2>3
      <3> QED BY <1>6, <2>3, <3>1
    <2> QED BY <2>2, <2>3
  <1>8. used'["calls"] <= Limits["calls"]
    BY <1>3, <1>6, <1>7 DEF ReservedWithinLimit
  <1> QED BY <1>1, <1>5, <1>6, <1>7, <1>8 DEF ReservedWithinLimit

\* What leaves the units held was done, or leaves the counter; the counter has it.
LEMMA SettleExact ==
    ASSUME TypeOK, DueInv, TypeOK', DueInv', ReservedWithinLimit, NEW t \in Threads, Settle(t)
    PROVE  ReservedWithinLimit'
  <1> DEFINE q == todo[t][1][1]
             n == todo[t][1][2]
             m == IF q = "calls" THEN n ELSE 0
  <1>1. /\ \A u \in Threads : u # t => pc'[u] = pc[u] /\ todo'[u] = todo[u]
        /\ pc[t] = "held" /\ pc'[t] = "idle"
    BY DEF Settle, TypeOK
  <1>2. q \in Resources /\ n \in 0..U64Max /\ n \in Nat
    BY <1>1, NextCharge, BudgetAssumption
  <1>3. Owes(pc[t], todo[t], "held", "calls") = m /\ Owes(pc'[t], todo'[t], "held", "calls") = 0
    <2>1. Due("held", op[t], todo[t])
      BY <1>1, DueOfThread
    <2>2. Total(todo[t], "calls") = m
      <3>1. PICK x \in {"calls", "tool_calls"}, y \in 0..U64Max : todo[t] = << <<x, y>> >>
        BY <2>1 DEF Due
      <3>2. x \in Resources /\ q = x /\ n = y
        BY <3>1, OneCharge DEF Resources
      <3> QED BY <3>1, <3>2, OneCharge
    <2> QED BY <1>1, <2>2 DEF Owes
  <1>4. PICK k \in Nat : /\ Cardinality(UnitsAt("held", "calls")) = k + m
                         /\ Cardinality(UnitsAt("held", "calls")') = k
    BY <1>1, <1>3, UnitsStep
  <1>5. used["calls"] \in Nat /\ work["calls"] \in Nat /\ Limits["calls"] \in Nat
    <2>1. used["calls"] \in 0..U64Max /\ work["calls"] \in Nat /\ Limits["calls"] \in 0..U64Max /\ U64Max \in Nat
      BY BudgetAssumption DEF TypeOK, Resources
    <2> QED BY <2>1
  <1>6. \/ work'["calls"] = work["calls"] + m /\ used' = used
        \/ used'["calls"] = (IF m > used["calls"] THEN 0 ELSE used["calls"] - m) /\ work' = work
    <2>1. \/ work' = [work EXCEPT ![q] = work[q] + n] /\ used' = used
          \/ used' = [used EXCEPT ![q] = IF n > used[q] THEN 0 ELSE used[q] - n] /\ work' = work
      BY DEF Settle, ak_budget_release, TypeOK
    <2>2. DOMAIN work = Resources /\ DOMAIN used = Resources /\ "calls" \in Resources
      BY DEF TypeOK, Resources
    <2> HIDE DEF q, n
    <2>3. CASE q = "calls"
      BY <1>2, <2>1, <2>2, <2>3
    <2>4. CASE q # "calls"
      <3>1. m = 0
        BY <2>4
      <3>2. used'["calls"] = used["calls"] /\ work'["calls"] = work["calls"] /\ (used' = used \/ work' = work)
        BY <1>2, <2>1, <2>2, <2>4
      <3> HIDE DEF m
      <3> QED BY <1>5, <3>1, <3>2
    <2> QED BY <2>3, <2>4
  <1>7. m \in Nat
    BY <1>2
  <1> HIDE DEF q, n, m
  <1> QED BY <1>4, <1>5, <1>6, <1>7 DEF ReservedWithinLimit

-----------------------------------------------------------------------------
(* What has been charged *)

\* What is owed is a number, and moves with its three parts.
LEMMA OwedMoves ==
    ASSUME TypeOK, TypeOK', NEW r \in Resources
    PROVE  /\ Owed(r) \in Int /\ Owed(r)' \in Int
           /\ UNCHANGED <<work, gratis, forfeit>> => Owed(r)' = Owed(r)
           /\ \A n \in Nat : work'[r] = work[r] + n /\ UNCHANGED <<gratis, forfeit>> => Owed(r)' = Owed(r) + n
  <1>1. /\ work[r] \in Nat /\ gratis[r] \in Nat /\ forfeit[r] \in Nat
        /\ work'[r] \in Nat /\ gratis'[r] \in Nat /\ forfeit'[r] \in Nat
    BY DEF TypeOK
  <1> QED BY <1>1 DEF Owed

\* How a step of t moves Charged(r): what it does and reserves is added, what it
\* owes to commits taken off.
LEMMA ChargedMoves ==
    ASSUME TypeOK, TypeOK', NEW t \in Threads, NEW r \in Resources,
           \A u \in Threads : u # t => pc'[u] = pc[u] /\ todo'[u] = todo[u],
           NEW h0, NEW h1, NEW d0, NEW d1,
           h0 = Owes(pc[t], todo[t], "held", r), h1 = Owes(pc'[t], todo'[t], "held", r),
           d0 = Owes(pc[t], todo[t], "commit", r), d1 = Owes(pc'[t], todo'[t], "commit", r)
    PROVE  /\ Settled(r) \in Int /\ Settled(r)' = Settled(r) + (Owed(r)' - Owed(r)) - (d1 - d0)
           /\ Charged(r) \in Int /\ Charged(r)' = Charged(r) + (Owed(r)' - Owed(r)) + (h1 - h0) - (d1 - d0)
           /\ h0 \in Nat /\ h1 \in Nat /\ d0 \in Nat /\ d1 \in Nat /\ Charged(r) >= Settled(r) + h0
  <1>1. PICK k \in Nat : /\ Cardinality(UnitsAt("held", r)) = k + h0
                         /\ Cardinality(UnitsAt("held", r)') = k + h1 /\ h0 \in Nat /\ h1 \in Nat
    BY UnitsStep
  <1>2. PICK j \in Nat : /\ Cardinality(UnitsAt("commit", r)) = j + d0
                         /\ Cardinality(UnitsAt("commit", r)') = j + d1 /\ d0 \in Nat /\ d1 \in Nat
    BY UnitsStep
  <1>3. Owed(r) \in Int /\ Owed(r)' \in Int
    BY OwedMoves
  <1>4. /\ Settled(r) = Owed(r) - (j + d0) /\ Settled(r)' = Owed(r)' - (j + d1)
        /\ Charged(r) = Settled(r) + (k + h0) /\ Charged(r)' = Settled(r)' + (k + h1)
    BY <1>1, <1>2 DEF Charged, Settled
  <1> QED BY <1>1, <1>2, <1>3, <1>4

\* What ChargeInv says of one resource: u is the counter, w is settled, c charged.
Even(r, u, w, c) ==
    /\ w >= 0
    /\ u = IF c > U64Max THEN U64Max ELSE c
    /\ r \in {"calls", "tool_calls"} => c <= U64Max

\* ChargeInv is that of every resource, before and after a step.
LEMMA ChargeIs ==
    /\ ChargeInv <=>
        \A r \in Resources : CountsExactly(r) => Even(r, used[r], Settled(r), Charged(r))
    /\ ChargeInv' <=>
        \A r \in Resources : CountsExactly(r) => Even(r, used'[r], Settled(r)', Charged(r)')
  BY DEF ChargeInv, Even, CountsExactly

\* A step that owes, does and charges nothing.
LEMMA ChargeQuiet ==
    ASSUME TypeOK, TypeOK', ChargeInv, NEW t \in Threads,
           \A u \in Threads : u # t => pc'[u] = pc[u] /\ todo'[u] = todo[u],
           pc[t] \notin {"held", "commit"}, pc'[t] \notin {"held", "commit"},
           UNCHANGED <<used, work, gratis, forfeit>>
    PROVE  ChargeInv'
  <1>1. ASSUME NEW r \in Resources PROVE Settled(r)' = Settled(r) /\ Charged(r)' = Charged(r)
    <2>1. /\ 0 = Owes(pc[t], todo[t], "held", r) /\ 0 = Owes(pc'[t], todo'[t], "held", r)
          /\ 0 = Owes(pc[t], todo[t], "commit", r) /\ 0 = Owes(pc'[t], todo'[t], "commit", r)
      BY DEF Owes
    <2>2. /\ Settled(r) \in Int /\ Settled(r)' = Settled(r) + (Owed(r)' - Owed(r)) - (0 - 0)
          /\ Charged(r) \in Int /\ Charged(r)' = Charged(r) + (Owed(r)' - Owed(r)) + (0 - 0) - (0 - 0)
      BY <2>1, ChargedMoves
    <2>3. Owed(r) \in Int /\ Owed(r)' = Owed(r)
      BY OwedMoves
    <2> QED BY <2>2, <2>3
  <1> QED BY <1>1, ChargeIs

\* What an operation ends by owing is what is due of its thread.
LEMMA ExecuteCharge ==
    ASSUME TypeOK, TypeOK', DueInv, ChargeInv, NEW t \in Threads, Execute(t) PROVE ChargeInv'
  <1>1. PICK end \in Outcomes(op[t]), s \in Charges(op[t]) : Ends(t, end, s)
    BY ExecuteEnds
  <1>2. /\ pc[t] = "execute" /\ used' = used
        /\ \A u \in Threads : u # t => pc'[u] = pc[u] /\ todo'[u] = todo[u]
        /\ pc'[t] = (IF end[2] THEN "commit" ELSE "idle") /\ (end[2] => todo'[t] = s)
    BY <1>1 DEF Execute, TypeOK, Ends
  <1>4. \A r : Total(s, r) \in Nat
    <2>1. op[t] \in AllOps \ {"reserved"}
      BY <1>2, DueOfThread DEF TypeOK, Due
    <2> QED BY <2>1, ChargesFacts
  <1>5. ASSUME NEW r \in Resources PROVE Settled(r)' = Settled(r) /\ Charged(r)' = Charged(r)
    <2> DEFINE d == IF end[2] THEN Total(s, r) ELSE 0
    <2>2. /\ 0 = Owes(pc[t], todo[t], "held", r) /\ 0 = Owes(pc'[t], todo'[t], "held", r)
          /\ 0 = Owes(pc[t], todo[t], "commit", r) /\ d = Owes(pc'[t], todo'[t], "commit", r)
      BY <1>2 DEF Owes
    <2>3. Owed(r)' = Owed(r) + d /\ d \in Nat /\ Owed(r) \in Int
      <3> DEFINE x == Total(s, r)
      <3>1. /\ work[r] \in Nat /\ gratis[r] \in Nat /\ forfeit[r] \in Nat /\ x \in Nat
        BY <1>4 DEF TypeOK
      <3>2. /\ work'[r] = work[r] + (IF end[1] THEN x ELSE 0)
            /\ gratis'[r] = gratis[r] + (IF end[1] /\ ~end[2] THEN x ELSE 0)
            /\ forfeit'[r] = forfeit[r] + (IF ~end[1] /\ end[2] THEN x ELSE 0)
        BY <1>1 DEF Ends, Plus
      <3> HIDE DEF x
      <3>3. d = IF end[2] THEN x ELSE 0
        BY DEF x
      <3> HIDE DEF d
      <3>4. CASE end[1] /\ end[2]
        BY <3>1, <3>2, <3>3, <3>4 DEF Owed
      <3>5. CASE end[1] /\ ~end[2]
        BY <3>1, <3>2, <3>3, <3>5 DEF Owed
      <3>6. CASE ~end[1] /\ end[2]
        BY <3>1, <3>2, <3>3, <3>6 DEF Owed
      <3>7. CASE ~end[1] /\ ~end[2]
        BY <3>1, <3>2, <3>3, <3>7 DEF Owed
      <3> QED BY <3>4, <3>5, <3>6, <3>7
    <2> HIDE DEF d
    <2>4. /\ Settled(r) \in Int /\ Settled(r)' = Settled(r) + (Owed(r)' - Owed(r)) - (d - 0)
          /\ Charged(r) \in Int /\ Charged(r)' = Charged(r) + (Owed(r)' - Owed(r)) + (0 - 0) - (d - 0)
      BY <1>2, <2>2, ChargedMoves
    <2> QED BY <2>3, <2>4
  <1> QED BY <1>2, <1>5, ChargeIs

\* A commit: what is no longer due has been charged.
LEMMA CommitCharge ==
    ASSUME TypeOK, TypeOK', DueInv, OvershootBounded, ChargeInv, NEW t \in Threads, Commit(t) PROVE ChargeInv'
  <1> DEFINE q == todo[t][1][1]
             n == todo[t][1][2]
  <1>1. /\ pc[t] = "commit" /\ UNCHANGED <<work, gratis, forfeit>> /\ todo'[t] = Tail(todo[t])
        /\ pc'[t] = (IF Len(todo[t]) = 1 THEN "idle" ELSE "commit")
        /\ \A u \in Threads : u # t => pc'[u] = pc[u] /\ todo'[u] = todo[u]
    BY DEF Commit, TypeOK
  <1>2. /\ q \in Resources /\ n \in 0..U64Max /\ n \in Nat /\ Adds(todo[t]) /\ U64Max \in Nat
        /\ Len(todo[t]) = 1 => Tail(todo[t]) = <<>>
    BY <1>1, NextCharge, BudgetAssumption
  <1>3. \A r \in Resources : used'[r] = IF r = q THEN Saturate(used[r], n) ELSE used[r]
    BY <1>2 DEF Commit, ak_budget_commit, TypeOK
  <1>4. ASSUME NEW r \in Resources
        PROVE  /\ Settled(r) \in Int /\ Settled(r)' = Settled(r) + (IF r = q THEN n ELSE 0)
               /\ Charged(r) \in Int /\ Charged(r)' = Charged(r) + (IF r = q THEN n ELSE 0)
    <2> DEFINE d0 == Total(todo[t], r)
               d1 == Total(Tail(todo[t]), r)
               m == IF r = q THEN n ELSE 0
    <2>1. d0 = m + d1
      BY <1>2 DEF Adds
    <2>2. Len(todo[t]) = 1 => d1 = 0
      BY <1>2, NoCharge
    <2>3. /\ 0 = Owes(pc[t], todo[t], "held", r) /\ 0 = Owes(pc'[t], todo'[t], "held", r)
          /\ d0 = Owes(pc[t], todo[t], "commit", r) /\ d1 = Owes(pc'[t], todo'[t], "commit", r)
      BY <1>1, <2>2 DEF Owes
    <2>4. m \in Nat /\ Owed(r)' = Owed(r) /\ Owed(r) \in Int
      BY <1>1, <1>2, OwedMoves
    <2> HIDE DEF d0, d1, m
    <2>5. /\ d0 \in Nat /\ d1 \in Nat
          /\ Settled(r) \in Int /\ Settled(r)' = Settled(r) + (Owed(r)' - Owed(r)) - (d1 - d0)
          /\ Charged(r) \in Int /\ Charged(r)' = Charged(r) + (Owed(r)' - Owed(r)) + (0 - 0) - (d1 - d0)
      BY <1>1, <2>3, ChargedMoves
    <2>6. Settled(r)' = Settled(r) + m /\ Charged(r)' = Charged(r) + m
      BY <2>1, <2>4, <2>5
    <2> QED BY <2>5, <2>6 DEF m
  <1>5. ASSUME q = "tool_calls", CountsExactly(q) PROVE used[q] + n <= U64Max
    <2>1. t \in InFlight(q) /\ n = 1 /\ q \in Counted
      <3>1. op[t] = "call"
        BY <1>1, <1>5, NextCharge, DueOfThread DEF Due
      <3> QED BY <1>1, <1>5, <3>1, NextCharge DEF InFlight, Counted
    <2>2. InFlight(q) \subseteq Threads
      BY DEF InFlight
    <2>3. Cardinality(InFlight(q)) \in Nat \ {0} /\ Cardinality(Threads) \in Nat
      <3>1. Cardinality({}) <= Cardinality(InFlight(q)) - 1
        BY <2>1, <2>2, FewerThreads
      <3>2. Cardinality({}) = 0
        BY FS_EmptySet
      <3> QED BY <2>2, <3>1, <3>2, ThreadCount
    <2>4. used[q] + Cardinality(InFlight(q)) <= Limits[q] + Cardinality(Threads) - 1
      <3>1. Bounded("tool_calls", used["tool_calls"], InFlight("tool_calls"), unchecked)
        BY OvershootIs DEF Counted
      <3>2. /\ Limits["tool_calls"] + Cardinality(Threads) - 1 + 0 = Limits["tool_calls"] + Cardinality(Threads) - 1
        BY <2>3, BudgetAssumption DEF Resources
      <3> QED BY <1>5, <3>1, <3>2 DEF Bounded
    <2>5. used[q] \in Nat /\ Limits[q] \in Nat
      BY <1>2, BudgetAssumption, <2>1, CountedNat
    <2> QED BY <1>2, <1>5, <2>1, <2>3, <2>4, <2>5 DEF CountsExactly
  <1>6. ASSUME NEW r \in Resources, CountsExactly(r), Even(r, used[r], Settled(r), Charged(r))
        PROVE  Even(r, used'[r], Settled(r)', Charged(r)')
    <2>1. CASE r # q
      <3>1. used'[r] = used[r] /\ Settled(r)' = Settled(r) /\ Charged(r)' = Charged(r)
        BY <1>3, <1>4, <2>1
      <3> QED BY <1>6, <3>1
    <2>2. CASE r = q
      <3>1. /\ used'[r] = Saturate(used[r], n) /\ Settled(r) \in Int /\ Settled(r)' = Settled(r) + n
            /\ Charged(r) \in Int /\ Charged(r)' = Charged(r) + n
        BY <1>3, <1>4, <2>2
      <3>2. r = "tool_calls" => used[r] + n <= U64Max
        BY <1>5, <1>6, <2>2
      <3>3. used[r] \in 0..U64Max /\ r # "calls"
        BY <1>1, <2>2, NextCharge DEF TypeOK
      <3> HIDE DEF q, n
      <3> QED BY <1>2, <1>6, <3>1, <3>2, <3>3 DEF Even, Saturate
    <2> QED BY <2>1, <2>2
  <1> QED BY <1>1, <1>6, ChargeIs

\* A reservation is charged when it is made.
LEMMA ReserveCharge ==
    ASSUME TypeOK, TypeOK', ChargeInv, NEW t \in Threads,
           NEW q \in {"calls", "tool_calls"}, NEW n \in 0..U64Max, Reserve(t), ak_budget_reserve(q, n),
           todo' = [todo EXCEPT ![t] = << <<q, n>> >>], pc' = [pc EXCEPT ![t] = "held"]
    PROVE  ChargeInv'
  <1>1. /\ \A u \in Threads : u # t => pc'[u] = pc[u] /\ todo'[u] = todo[u]
        /\ pc[t] = "idle" /\ pc'[t] = "held" /\ todo'[t] = << <<q, n>> >>
        /\ UNCHANGED <<work, gratis, forfeit>>
    BY DEF Reserve, TypeOK
  <1>2. q \in Resources /\ ak_budget_check(q, n) /\ n \in Nat /\ U64Max \in Nat
    BY BudgetAssumption DEF ak_budget_reserve, Resources
  <1>3. used[q] + n \in 0..U64Max
    BY <1>2, CheckRoom
  <1>4. \A r \in Resources : used'[r] = IF r = q THEN used[r] + n ELSE used[r]
    BY <1>2 DEF ak_budget_reserve, TypeOK
  <1>5. ASSUME NEW r \in Resources
        PROVE  /\ Settled(r)' = Settled(r)
               /\ Charged(r) \in Int /\ Charged(r)' = Charged(r) + (IF r = q THEN n ELSE 0)
    <2> DEFINE m == IF r = q THEN n ELSE 0
    <2>1. /\ 0 = Owes(pc[t], todo[t], "held", r) /\ m = Owes(pc'[t], todo'[t], "held", r)
          /\ 0 = Owes(pc[t], todo[t], "commit", r) /\ 0 = Owes(pc'[t], todo'[t], "commit", r)
      BY <1>1, <1>2, OneCharge DEF Owes
    <2>2. m \in Nat /\ Owed(r)' = Owed(r) /\ Owed(r) \in Int
      BY <1>1, <1>2, OwedMoves
    <2> HIDE DEF m
    <2>3. /\ Settled(r) \in Int /\ Settled(r)' = Settled(r) + (Owed(r)' - Owed(r)) - (0 - 0)
          /\ Charged(r) \in Int /\ Charged(r)' = Charged(r) + (Owed(r)' - Owed(r)) + (m - 0) - (0 - 0)
      BY <1>1, <2>1, ChargedMoves
    <2>4. Settled(r)' = Settled(r) /\ Charged(r)' = Charged(r) + m
      BY <2>2, <2>3
    <2> QED BY <2>3, <2>4 DEF m
  <1>6. ASSUME NEW r \in Resources, Even(r, used[r], Settled(r), Charged(r))
        PROVE  Even(r, used'[r], Settled(r)', Charged(r)')
    <2>1. CASE r # q
      <3>1. used'[r] = used[r] /\ Settled(r)' = Settled(r) /\ Charged(r)' = Charged(r)
        BY <1>4, <1>5, <2>1
      <3> QED BY <1>6, <3>1
    <2>2. CASE r = q
      <3>1. /\ used'[r] = used[r] + n /\ Settled(r)' = Settled(r)
            /\ Charged(r) \in Int /\ Charged(r)' = Charged(r) + n
        BY <1>4, <1>5, <2>2
      <3>2. used[r] + n <= U64Max /\ used[r] \in 0..U64Max
        BY <1>2, <1>3, <2>2 DEF TypeOK
      <3> QED BY <1>2, <1>6, <3>1, <3>2 DEF Even
    <2> QED BY <2>1, <2>2
  <1> QED BY <1>1, <1>6, ChargeIs

\* A reservation that ends was done, or is given back.
LEMMA SettleCharge ==
    ASSUME TypeOK, TypeOK', DueInv, ChargeInv, NEW t \in Threads, Settle(t) PROVE ChargeInv'
  <1>1. /\ \A u \in Threads : u # t => pc'[u] = pc[u] /\ todo'[u] = todo[u]
        /\ pc[t] = "held" /\ pc'[t] = "idle" /\ UNCHANGED <<gratis, forfeit>>
    BY DEF Settle, TypeOK
  <1>2. PICK q \in {"calls", "tool_calls"}, n \in 0..U64Max : todo[t] = << <<q, n>> >>
    BY <1>1, DueOfThread DEF Due
  <1>3. q \in Resources /\ todo[t][1][1] = q /\ todo[t][1][2] = n /\ n \in Nat /\ U64Max \in Nat
    BY <1>2, OneCharge, BudgetAssumption DEF Resources
  <1>4. \/ /\ \A r \in Resources : work'[r] = work[r] + (IF r = q THEN n ELSE 0)
           /\ used' = used
        \/ /\ \A r \in Resources : used'[r] = IF r = q THEN (IF n > used[r] THEN 0 ELSE used[r] - n) ELSE used[r]
           /\ work' = work
    <2>1. \/ work' = [work EXCEPT ![q] = work[q] + n] /\ used' = used
          \/ used' = [used EXCEPT ![q] = IF n > used[q] THEN 0 ELSE used[q] - n] /\ work' = work
      BY <1>3 DEF Settle, ak_budget_release, TypeOK
    <2>2. \A r \in Resources : work[r] \in Nat
      BY DEF TypeOK
    <2>3. DOMAIN work = Resources /\ DOMAIN used = Resources
      BY DEF TypeOK
    <2>4. CASE work' = [work EXCEPT ![q] = work[q] + n] /\ used' = used
      <3>1. ASSUME NEW r \in Resources PROVE work'[r] = work[r] + (IF r = q THEN n ELSE 0)
        BY <1>3, <2>2, <2>3, <2>4
      <3> QED BY <2>4, <3>1
    <2>5. CASE used' = [used EXCEPT ![q] = IF n > used[q] THEN 0 ELSE used[q] - n] /\ work' = work
      <3>1. ASSUME NEW r \in Resources
            PROVE  used'[r] = IF r = q THEN (IF n > used[r] THEN 0 ELSE used[r] - n) ELSE used[r]
        BY <1>3, <2>3, <2>5
      <3> QED BY <2>5, <3>1
    <2> QED BY <2>1, <2>4, <2>5
  <1>5. ASSUME NEW r \in Resources
        PROVE  /\ Settled(r) \in Int /\ Settled(r)' = Settled(r) + (Owed(r)' - Owed(r))
               /\ Charged(r) \in Int
               /\ Charged(r)' = Charged(r) + (Owed(r)' - Owed(r)) - (IF r = q THEN n ELSE 0)
               /\ Charged(r) >= Settled(r) + (IF r = q THEN n ELSE 0)
    <2> DEFINE m == IF r = q THEN n ELSE 0
    <2>1. /\ m = Owes(pc[t], todo[t], "held", r) /\ 0 = Owes(pc'[t], todo'[t], "held", r)
          /\ 0 = Owes(pc[t], todo[t], "commit", r) /\ 0 = Owes(pc'[t], todo'[t], "commit", r)
      BY <1>1, <1>2, <1>3, OneCharge DEF Owes
    <2>2. m \in Nat /\ Owed(r)' \in Int /\ Owed(r) \in Int
      BY <1>3, OwedMoves
    <2> HIDE DEF m
    <2>3. /\ Settled(r) \in Int /\ Settled(r)' = Settled(r) + (Owed(r)' - Owed(r)) - (0 - 0)
          /\ Charged(r) \in Int /\ Charged(r)' = Charged(r) + (Owed(r)' - Owed(r)) + (0 - m) - (0 - 0)
          /\ Charged(r) >= Settled(r) + m
      BY <1>1, <2>1, ChargedMoves
    <2>4. /\ Settled(r)' = Settled(r) + (Owed(r)' - Owed(r))
          /\ Charged(r)' = Charged(r) + (Owed(r)' - Owed(r)) - m
      BY <2>2, <2>3
    <2> QED BY <2>3, <2>4 DEF m
  <1>6. ASSUME NEW r \in Resources, Even(r, used[r], Settled(r), Charged(r))
        PROVE  Even(r, used'[r], Settled(r)', Charged(r)')
    <2>0. /\ used[r] \in Nat /\ work[r] \in Nat /\ Owed(r) \in Int /\ Owed(r)' \in Int
          /\ work'[r] = work[r] => Owed(r)' = Owed(r)
          /\ work'[r] = work[r] + n => Owed(r)' = Owed(r) + n
      <3>1. used[r] \in 0..U64Max /\ work[r] \in Nat /\ work'[r] \in Nat
        BY DEF TypeOK
      <3>2. work'[r] = work[r] => work'[r] = work[r] + 0
        BY <3>1
      <3>3. Owed(r) \in Int /\ Owed(r)' \in Int /\ Owed(r) + 0 = Owed(r)
        BY OwedMoves
      <3>4. \A m \in Nat : work'[r] = work[r] + m => Owed(r)' = Owed(r) + m
        BY <1>1, OwedMoves
      <3> QED BY <1>3, <3>1, <3>2, <3>3, <3>4
    <2>1. CASE r # q
      <3>1. used'[r] = used[r] /\ work'[r] = work[r]
        BY <1>4, <2>0, <2>1
      <3>2. Settled(r)' = Settled(r) /\ Charged(r)' = Charged(r)
        BY <1>5, <2>0, <2>1, <3>1
      <3> QED BY <1>6, <3>1, <3>2
    <2>2. CASE r = q /\ work'[r] = work[r] + n /\ used' = used
      <3>1. Settled(r)' = Settled(r) + n /\ Charged(r)' = Charged(r) /\ Settled(r) \in Int
        BY <1>3, <1>5, <2>0, <2>2
      <3> QED BY <1>3, <1>6, <2>2, <3>1 DEF Even
    <2>3. CASE r = q /\ used'[r] = (IF n > used[r] THEN 0 ELSE used[r] - n) /\ work' = work
      <3>1. /\ Settled(r) \in Int /\ Settled(r)' = Settled(r) /\ Charged(r) \in Int
            /\ Charged(r)' = Charged(r) - n /\ Charged(r) >= Settled(r) + n
        BY <1>3, <1>5, <2>0, <2>3
      <3>2. used[r] = Charged(r) /\ Charged(r) <= U64Max /\ Settled(r) >= 0
        BY <1>3, <1>6, <2>3, <3>1 DEF Even
      <3>3. used'[r] = Charged(r)' /\ Charged(r)' <= U64Max /\ Charged(r)' \in Int
        BY <1>3, <2>3, <3>1, <3>2
      <3> QED BY <1>3, <3>1, <3>2, <3>3 DEF Even
    <2> QED BY <1>4, <2>1, <2>2, <2>3
  <1> QED BY <1>1, <1>6, ChargeIs

-----------------------------------------------------------------------------
(* The theorems *)

\* The invariant holds at first,
LEMMA BudgetStarts == Init => BudgetInv
  <1> SUFFICES ASSUME Init PROVE BudgetInv
    OBVIOUS
  <1>1. TypeOK
    <2>1. <<>> \in Seq(Charge) /\ 0 \in 0..U64Max /\ "call" \in AllOps
      BY BudgetAssumption DEF AllOps
    <2> QED BY <2>1 DEF Init, TypeOK
  <1>2. DueInv
    BY DEF Init, DueInv
  <1>3. OvershootBounded
    <2>1. ASSUME NEW r \in Counted PROVE Bounded(r, used[r], InFlight(r), unchecked)
      <3>1. InFlight(r) = {} /\ used[r] = 0 /\ unchecked = 0 /\ Limits[r] \in Nat
        BY BudgetAssumption DEF Init, InFlight, Counted, Resources
      <3>2. \E t \in Threads : t \notin InFlight(r)
        BY <3>1, BudgetAssumption
      <3> QED BY <3>1, <3>2, BoundedChecked
    <2> QED BY <2>1, OvershootIs
  <1>4. ReservedWithinLimit
    <2>1. UnitsAt("held", "calls") = {}
      BY DEF Init, UnitsAt
    <2>2. Cardinality(UnitsAt("held", "calls")) = 0
      BY <2>1, FS_EmptySet
    <2> QED BY <2>2, BudgetAssumption DEF Init, ReservedWithinLimit, Resources
  <1>5. ChargeInv
    <2>1. ASSUME NEW r \in Resources PROVE Even(r, used[r], Settled(r), Charged(r))
      <3>1. UnitsAt("commit", r) = {} /\ UnitsAt("held", r) = {}
        BY DEF Init, UnitsAt
      <3>2. Cardinality(UnitsAt("commit", r)) = 0 /\ Cardinality(UnitsAt("held", r)) = 0
        BY <3>1, FS_EmptySet
      <3>3. Owed(r) = 0 /\ used[r] = 0
        BY DEF Init, Owed
      <3>4. Settled(r) = 0 /\ Charged(r) = 0
        BY <3>2, <3>3 DEF Settled, Charged
      <3> QED BY <3>3, <3>4, BudgetAssumption DEF Even
    <2> QED BY <2>1, ChargeIs
  <1>6. Exceptions
    BY DEF Init, Exceptions
  <1> QED BY <1>1, <1>2, <1>3, <1>4, <1>5, <1>6 DEF BudgetInv

\* and every step keeps it.
LEMMA BudgetPreserved == BudgetInv /\ [Next]_vars => BudgetInv'
  <1> SUFFICES ASSUME BudgetInv, [Next]_vars PROVE BudgetInv'
    OBVIOUS
  <1> USE DEF BudgetInv
  <1>0. "calls" \in Resources
    BY DEF Resources
  <1>1. ASSUME NEW t \in Threads, Admit(t) PROVE BudgetInv'
    <2>1. TypeOK' /\ DueInv' /\ OvershootBounded'
      BY <1>1, AdmitStep, AdmitOvershoot
    <2>2. /\ \A u \in Threads : u # t => pc'[u] = pc[u] /\ todo'[u] = todo[u]
          /\ pc[t] # "held" /\ pc'[t] # "held" /\ used' = used /\ work' = work
          /\ pc[t] # "commit" /\ pc'[t] # "commit" /\ gratis' = gratis /\ forfeit' = forfeit
      BY <1>1 DEF Admit, TypeOK
    <2>3. Exceptions'
      BY <2>2 DEF Exceptions
    <2> QED BY <2>1, <2>2, <2>3, ReservedElsewhere, ChargeQuiet
  <1>2. ASSUME NEW t \in Threads, HandlerCheck(t) PROVE BudgetInv'
    <2>1. TypeOK' /\ DueInv' /\ OvershootBounded'
      BY <1>2, HandlerStep, HandlerOvershoot
    <2>2. /\ \A u \in Threads : u # t => pc'[u] = pc[u] /\ todo'[u] = todo[u]
          /\ pc[t] # "held" /\ pc'[t] # "held" /\ used' = used /\ work' = work
          /\ pc[t] # "commit" /\ pc'[t] # "commit" /\ gratis' = gratis /\ forfeit' = forfeit
      BY <1>2 DEF HandlerCheck, TypeOK
    <2>3. Exceptions'
      BY <2>2 DEF Exceptions
    <2> QED BY <2>1, <2>2, <2>3, ReservedElsewhere, ChargeQuiet
  <1>3. ASSUME NEW t \in Threads, Execute(t) PROVE BudgetInv'
    <2>1. TypeOK' /\ DueInv' /\ work'["calls"] = work["calls"]
      BY <1>3, ExecuteStep
    <2>2. OvershootBounded'
      BY <1>3, <2>1, ExecuteOvershoot
    <2>3. /\ \A u \in Threads : u # t => pc'[u] = pc[u] /\ todo'[u] = todo[u]
          /\ pc[t] # "held" /\ pc'[t] # "held" /\ used' = used
      BY <1>3 DEF Execute, TypeOK
    <2>4. ChargeInv'
      BY <1>3, <2>1, ExecuteCharge
    <2>5. Exceptions'
      BY <1>3, ExecuteExceptions
    <2> QED BY <2>1, <2>2, <2>3, <2>4, <2>5, ReservedElsewhere
  <1>4. ASSUME NEW t \in Threads, Commit(t) PROVE BudgetInv'
    <2>1. TypeOK' /\ DueInv'
      BY <1>4, CommitStep
    <2>2. OvershootBounded'
      BY <1>4, <2>1, CommitOvershoot
    <2>3. /\ \A u \in Threads : u # t => pc'[u] = pc[u] /\ todo'[u] = todo[u]
          /\ pc[t] = "commit" /\ pc'[t] # "held" /\ work' = work
      BY <1>4 DEF Commit, TypeOK
    <2>4. used'["calls"] = used["calls"]
      BY <1>0, <1>4, <2>3, NextCharge DEF Commit, ak_budget_commit, TypeOK
    <2>5. ChargeInv'
      BY <1>4, <2>1, CommitCharge
    <2>6. Exceptions'
      BY <1>4 DEF Exceptions, Commit
    <2> QED BY <2>1, <2>2, <2>3, <2>4, <2>5, <2>6, ReservedElsewhere
  <1>5. ASSUME NEW t \in Threads, Reserve(t) PROVE BudgetInv'
    <2>1. PICK r \in {"calls", "tool_calls"}, n \in TokenCounts :
            \/ /\ ak_budget_reserve(r, n)
               /\ op' = [op EXCEPT ![t] = "reserved"]
               /\ todo' = [todo EXCEPT ![t] = << <<r, n>> >>]
               /\ pc' = [pc EXCEPT ![t] = "held"]
            \/ ~ak_budget_check(r, n) /\ UNCHANGED <<used, op, todo, pc>>
      BY <1>5 DEF Reserve
    <2>2. n \in 0..U64Max
      BY BudgetAssumption
    <2>3. CASE UNCHANGED <<used, op, todo, pc>>
      <3>1. TypeOK' /\ DueInv'
        BY <1>5, <2>3, RefusedStep
      <3>2. UNCHANGED <<work, unchecked, gratis, forfeit>>
        BY <1>5 DEF Reserve
      <3>3. OvershootBounded' /\ ReservedWithinLimit'
        BY <2>3, <3>2 DEF OvershootBounded, InFlight, ReservedWithinLimit, UnitsAt
      <3>4. ChargeInv'
        <4>1. \A r1 \in Resources : UnitsAt("commit", r1)' = UnitsAt("commit", r1) /\ UnitsAt("held", r1)' = UnitsAt("held", r1)
          BY <2>3 DEF UnitsAt
        <4>2. \A r1 \in Resources : Owed(r1)' = Owed(r1)
          BY <3>2 DEF Owed
        <4>3. \A r1 \in Resources : Settled(r1)' = Settled(r1) /\ Charged(r1)' = Charged(r1)
          BY <4>1, <4>2 DEF Charged, Settled
        <4> QED BY <2>3, <4>3 DEF ChargeInv, CountsExactly
      <3>5. Exceptions'
        BY <3>2 DEF Exceptions
      <3> QED BY <3>1, <3>3, <3>4, <3>5
    <2>4. CASE /\ ak_budget_reserve(r, n)
               /\ op' = [op EXCEPT ![t] = "reserved"]
               /\ todo' = [todo EXCEPT ![t] = << <<r, n>> >>]
               /\ pc' = [pc EXCEPT ![t] = "held"]
      <3>1. TypeOK' /\ DueInv'
        BY <1>5, <2>2, <2>4, ReserveStep
      <3>2. OvershootBounded'
        BY <1>5, <2>2, <2>4, ReserveOvershoot
      <3>3. ReservedWithinLimit'
        BY <1>5, <2>2, <2>4, <3>1, ReserveExact
      <3>4. ChargeInv'
        BY <1>5, <2>2, <2>4, <3>1, ReserveCharge
      <3>5. Exceptions'
        BY <1>5 DEF Exceptions, Reserve
      <3> QED BY <3>1, <3>2, <3>3, <3>4, <3>5
    <2> QED BY <2>1, <2>3, <2>4
  <1>6. ASSUME NEW t \in Threads, Settle(t) PROVE BudgetInv'
    <2>1. TypeOK' /\ DueInv' /\ OvershootBounded'
      BY <1>6, SettleStep, SettleOvershoot
    <2>2. Exceptions'
      BY <1>6 DEF Exceptions, Settle
    <2> QED BY <1>6, <2>1, <2>2, SettleExact, SettleCharge
  <1>7. CASE UNCHANGED vars
    <2>1. TypeOK' /\ DueInv' /\ OvershootBounded' /\ ReservedWithinLimit'
      BY <1>7 DEF vars, TypeOK, DueInv, OvershootBounded, InFlight, ReservedWithinLimit, UnitsAt
    <2>2. ChargeInv'
      BY <1>7 DEF vars, ChargeInv, Charged, Settled, Owed, CountsExactly, UnitsAt
    <2>3. Exceptions'
      BY <1>7 DEF vars, Exceptions
    <2> QED BY <2>1, <2>2, <2>3
  <1> QED BY <1>1, <1>2, <1>3, <1>4, <1>5, <1>6, <1>7 DEF Next

\* The inductive invariant holds throughout.
THEOREM BudgetSound == Spec => []BudgetInv
  BY BudgetStarts, BudgetPreserved, PTL DEF Spec

\* The counters stay u64, whatever is charged: ak_budget_commit saturates, reserve
\* checks, release stops at zero.
THEOREM CountersTyped == Spec => []TypeOK
  <1>1. BudgetInv => TypeOK
    BY DEF BudgetInv
  <1> QED BY <1>1, BudgetSound, PTL

\* However many threads are between ak_policy_evaluate's or the handler's check and
\* ak_budget_commit, a limit is passed by less than their number, batches aside.
THEOREM OvershootAlwaysBounded == Spec => []OvershootBounded
  <1>1. BudgetInv => OvershootBounded
    BY DEF BudgetInv
  <1> QED BY <1>1, BudgetSound, PTL

\* What is charged by ak_budget_reserve and ak_budget_release alone stays within its
\* limit and counts exactly what is held and what was done.
THEOREM ReservationsExact == Spec => []ReservedWithinLimit
  <1>1. BudgetInv => ReservedWithinLimit
    BY DEF BudgetInv
  <1> QED BY <1>1, BudgetSound, PTL

\* Whenever no charge is due, a counter is what the operations that were done cost and
\* what failed calls and spawns are charged, less what is not charged at all, or
\* saturated: each ak_budget_commit of a handler is counted once, whatever other threads
\* commit, reserve or release in between.
THEOREM ChargesExact == Spec => []ChargedOnce
  <1>1. ASSUME BudgetInv PROVE ChargedOnce
    <2>0. SUFFICES ASSUME \A t \in Threads : pc[t] \notin {"commit", "held"},
                        NEW r \in Resources, CountsExactly(r)
                 PROVE  used[r] = IF Owed(r) > U64Max THEN U64Max ELSE Owed(r)
      BY <1>1 DEF ChargedOnce, BudgetInv
    <2>1. UnitsAt("commit", r) = {} /\ UnitsAt("held", r) = {}
      BY <2>0 DEF UnitsAt
    <2>2. Cardinality(UnitsAt("commit", r)) = 0 /\ Cardinality(UnitsAt("held", r)) = 0
      BY <2>1, FS_EmptySet
    <2>3. work[r] \in Nat /\ gratis[r] \in Nat /\ forfeit[r] \in Nat
      BY <1>1 DEF BudgetInv, TypeOK
    <2>4. Charged(r) = Owed(r)
      BY <2>2, <2>3 DEF Charged, Settled, Owed
    <2> QED BY <1>1, <2>0, <2>4 DEF BudgetInv, ChargeInv
  <1> QED BY <1>1, BudgetSound, PTL
==============================================================================
