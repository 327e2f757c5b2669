------------------------------ MODULE RateLimit ------------------------------
(***************************************************************************)
(* The rate limiter of ak_capability.c: one fixed-window counter per token *)
(* in a bounded table, swept when it is full.  ak_rate_limit_check reads   *)
(* the clock before it takes the lock, so that between the two the clock   *)
(* can move on and other threads can go first.                             *)
(*                                                                         *)
(* Times are u64 and their differences wrap at WordMod.                    *)
(***************************************************************************)
EXTENDS Integers, Sequences, FiniteSets

CONSTANTS Threads, Tokens,
          NoToken,        \* a thread asks for none
          Limit, Window,  \* rate_limit and rate_window_ms of every token
          MaxEntries,     \* AK_RATE_MAX_ENTRIES
          WordMod,        \* 2^64 in the code
          MaxTime,        \* bound: the clock
          MaxChecks       \* bound: checks in a behaviour

ASSUME RateAssumption ==
    /\ NoToken \notin Tokens
    /\ Limit \in Nat \ {0} /\ Window \in Nat /\ MaxEntries \in Nat
    /\ MaxTime \in Nat /\ MaxChecks \in Nat
    /\ WordMod \in Nat /\ MaxTime + Window < WordMod

VARIABLES
    now,       \* the monotonic clock
    counters,  \* ak_cap_state.rate_counters: token -> [count, start]
    asked,     \* each thread: the token it asks for, or NoToken
    now_ms,    \* each thread: the clock as it has read it
    admitted,  \* times at which each token was admitted, in order
    checks,    \* checks so far
    stale      \* history: tokens whose window was closed or opened by a clock
               \* reading older than that window or an admission of the token

vars == <<now, counters, asked, now_ms, admitted, checks, stale>>

Init ==
    /\ now = 0
    /\ counters = [c \in {} |-> 0]
    /\ asked = [t \in Threads |-> NoToken] /\ now_ms = [t \in Threads |-> 0]
    /\ admitted = [c \in Tokens |-> <<>>]
    /\ checks = 0 /\ stale = {}

\* now_ms - window_start_ms > window_ms, in unsigned arithmetic.
Expired(at, start) == (at - start) % WordMod > Window

\* Mutant: the sweep makes room whatever it takes.
SweepAll(table, at) == [c \in {} |-> 0]

\* ak_rate_sweep_locked: the counters that are left.
Sweep(table, at) ==
    [c \in {d \in DOMAIN table : ~Expired(at, table[d].start)} |-> table[c]]

\* The table with room for one more, if the sweep could make it.
Swept(at) == IF Cardinality(DOMAIN counters) >= MaxEntries
               THEN Sweep(counters, at) ELSE counters

ReadClock(t) ==
    /\ asked[t] = NoToken /\ checks < MaxChecks
    /\ checks' = checks + 1
    /\ \E c \in Tokens : asked' = [asked EXCEPT ![t] = c]
    /\ now_ms' = [now_ms EXCEPT ![t] = now]
    /\ UNCHANGED <<now, counters, admitted, stale>>

\* Mutant: one admission too many.
AdmitsOneMore(count) == count <= Limit

Admits(count) == count < Limit

\* A reading that another thread's check of c has overtaken.
Behind(at, c) ==
    \/ c \in DOMAIN counters /\ at < counters[c].start
    \/ \E i \in 1..Len(admitted[c]) : at < admitted[c][i]

\* The tokens that a check by the reading at, working on table, has misjudged:
\* those it swept away, and those it opens a window for (opens).
Misjudged(at, table, opens) ==
    {d \in Tokens : Behind(at, d) /\ d \in (DOMAIN counters \ DOMAIN table) \cup opens}

\* The part under the lock, once c has a counter in table.
Count(t, c, table) ==
    LET fresh == [count |-> 0, start |-> now_ms[t]]
        opens == c \notin DOMAIN table \/ Expired(now_ms[t], table[c].start)
        cur == IF opens THEN fresh ELSE table[c]
        ok  == Admits(cur.count)
        new == IF ok THEN [cur EXCEPT !.count = @ + 1] ELSE cur
    IN /\ counters' = [d \in DOMAIN table \cup {c} |-> IF d = c THEN new ELSE table[d]]
       /\ admitted' = IF ok THEN [admitted EXCEPT ![c] = Append(@, now)] ELSE admitted
       /\ stale' = stale \cup Misjudged(now_ms[t], table, IF opens THEN {c} ELSE {})

\* The request is denied with the counters left as table has them.
FailClosed(t, table) ==
    /\ counters' = table
    /\ stale' = stale \cup Misjudged(now_ms[t], table, {})
    /\ UNCHANGED admitted

\* A token with a counter, or one for which the table has room.
Check(t) ==
    /\ asked[t] # NoToken
    /\ LET c == asked[t]
           table == IF c \in DOMAIN counters THEN counters ELSE Swept(now_ms[t])
       IN IF c \in DOMAIN table \/ Cardinality(DOMAIN table) < MaxEntries
            THEN Count(t, c, table)
            ELSE FailClosed(t, table)
    /\ asked' = [asked EXCEPT ![t] = NoToken]
    /\ UNCHANGED <<now, now_ms, checks>>

\* A counter cannot be allocated: fail closed, after the sweep.
CheckNoMemory(t) ==
    /\ asked[t] # NoToken /\ asked[t] \notin DOMAIN counters
    /\ FailClosed(t, Swept(now_ms[t]))
    /\ asked' = [asked EXCEPT ![t] = NoToken]
    /\ UNCHANGED <<now, now_ms, checks>>

Tick == /\ now < MaxTime
        /\ now' = now + 1
        /\ UNCHANGED <<counters, asked, now_ms, admitted, checks, stale>>

Next == Tick \/ \E t \in Threads : ReadClock(t) \/ Check(t) \/ CheckNoMemory(t)

Spec == Init /\ [][Next]_vars

-----------------------------------------------------------------------------
(* Properties *)

\* The table never outgrows AK_RATE_MAX_ENTRIES, counts stay within the limit,
\* and no window starts in the future.
TableOK ==
    /\ DOMAIN counters \subseteq Tokens /\ Cardinality(DOMAIN counters) <= MaxEntries
    /\ \A c \in DOMAIN counters :
        counters[c].count \in 0..Limit /\ counters[c].start \in 0..now

\* No span of Window ms sees more than two limits in the admissions A: a fixed
\* window can admit its limit at its end and the next one at its start.
Bounded(A) ==
    \A i \in 1..Len(A) : i + 2 * Limit <= Len(A) => A[i + 2 * Limit] - A[i] > Window

\* ak_rate_limit_check bounds the rate of every token, with any threads checking at
\* once and whatever the sweep throws away, until a window of that token is closed
\* or opened by a reading of the clock that other threads have overtaken: waiting
\* for the lock with an old reading is harmless by itself.
RateBounded == \A c \in Tokens \ stale : Bounded(admitted[c])

\* "Rate limit not exceeded", of every token.
RateNeverExceeded == \A c \in Tokens : Bounded(admitted[c])

-----------------------------------------------------------------------------
(* The inductive invariants behind TableOK and RateBounded *)

\* Every variable keeps its type; no clock reading and no admission is in the future.
TypeOK ==
    /\ now \in 0..MaxTime /\ checks \in Nat /\ stale \subseteq Tokens
    /\ DOMAIN counters \subseteq Tokens
    /\ \A c \in DOMAIN counters : counters[c] \in [count : Nat, start : Nat]
    /\ asked \in [Threads -> Tokens \cup {NoToken}] /\ now_ms \in [Threads -> 0..now]
    /\ admitted \in [Tokens -> Seq(0..now)]

TableInv == TypeOK /\ IsFiniteSet(DOMAIN counters) /\ TableOK

\* Of the admissions A, the last k are of the current window: the others came by the
\* time it started, and all but the last Limit of them more than Window ms ago.
BeforeWindow(A, k, start, at) ==
    /\ k <= Len(A)
    /\ \A i \in 1..(Len(A) - k) : A[i] <= start
    /\ \A i \in 1..(Len(A) - k - Limit) : A[i] + Window < at

\* Without a window, the last Limit of all admissions may be recent.
WindowInv(A, tab, c, at) ==
    IF c \in DOMAIN tab THEN BeforeWindow(A, tab[c].count, tab[c].start, at)
                        ELSE BeforeWindow(A, 0, at, at)

RateInv ==
    /\ TableInv /\ RateBounded
    /\ \A c \in Tokens \ stale : WindowInv(admitted[c], counters, c, now)
=============================================================================
