----------------------------- MODULE AuditRing -----------------------------
(***************************************************************************)
(* The lock-free ring buffer of ak_audit.c for data-plane events: a push   *)
(* claims a slot, looks at the tail, moves it when the ring is full and    *)
(* fills the slot, each a step of its own; a pop reads tail and head,      *)
(* claims by compare-and-swap and copies.                                  *)
(*                                                                         *)
(* Positions are machine words and wrap at WordMod.  An entry is its seq   *)
(* field and the push the rest of it (ts, pid, op, hashes, ...) is from;   *)
(* the two are written, and read, one after the other.                     *)
(***************************************************************************)
EXTENDS Integers, Sequences, FiniteSets

CONSTANTS Producers, Consumers,
          Size,       \* AK_RING_BUFFER_SIZE, a power of two
          WordMod,    \* 2^64 in the code
          MaxPush     \* bound: pushes in a behaviour

ASSUME RingAssumption ==
    /\ Producers \cap Consumers = {}
    /\ Size \in Nat \ {0} /\ WordMod \in Nat
    /\ MaxPush \in Nat /\ MaxPush + Size < WordMod

VARIABLES
    head, tail,      \* next position to write, next position to read
    slots,           \* ak_ring.entries
    total_pushed, total_popped, overflow_count,
    ring_pc,         \* where each producer and consumer is
    mine,            \* slot of a push, tail of a pop
    seen,            \* tail as a push has read it
    entry_out,       \* entry a pop is copying
    got,             \* what each consumer has popped, in its order: the position,
                     \* the two halves, and had the slot been claimed again?
    strayed          \* has a position been claimed whose push was not over?

count_vars == <<total_pushed, total_popped, overflow_count>>
ring_vars == <<head, tail, slots, count_vars, ring_pc, mine, seen, entry_out, got,
              strayed>>

Word(n) == n % WordMod
Slot(pos) == pos % Size        \* pos & AK_RING_BUFFER_MASK
NoRingEntry == [seq |-> 0, rest |-> 0]

Pushers == {p \in Producers : ring_pc[p] # "idle"}
AtRest == \A a \in Producers \cup Consumers : ring_pc[a] = "idle"

ak_ring_init ==
    /\ head = 0 /\ tail = 0
    /\ slots = [i \in 0..(Size - 1) |-> NoRingEntry]
    /\ total_pushed = 0 /\ total_popped = 0 /\ overflow_count = 0
    /\ ring_pc = [a \in Producers \cup Consumers |-> "idle"]
    /\ mine = [a \in Producers \cup Consumers |-> 0]
    /\ seen = [p \in Producers |-> 0]
    /\ entry_out = [c \in Consumers |-> NoRingEntry]
    /\ got = [c \in Consumers |-> <<>>] /\ strayed = FALSE

-----------------------------------------------------------------------------
(* ak_ring_push *)

PushClaim(p) ==
    /\ ring_pc[p] = "idle" /\ head < MaxPush
    /\ mine' = [mine EXCEPT ![p] = head]
    /\ head' = Word(head + 1)
    /\ ring_pc' = [ring_pc EXCEPT ![p] = "check"]
    /\ strayed' = (strayed \/ \E q \in Pushers : mine[q] + Size <= head)
    /\ UNCHANGED <<tail, slots, count_vars, seen, entry_out, got>>

\* slot - tail is unsigned: it wraps when tail has passed slot.
IsFull(slot, t) == Word(slot - t) >= Size

PushCheck(p) ==
    /\ ring_pc[p] = "check"
    /\ seen' = [seen EXCEPT ![p] = tail]
    /\ IF IsFull(mine[p], tail)
         THEN /\ overflow_count' = overflow_count + 1
              /\ ring_pc' = [ring_pc EXCEPT ![p] = "room"]
         ELSE /\ ring_pc' = [ring_pc EXCEPT ![p] = "fill"]
              /\ UNCHANGED overflow_count
    /\ UNCHANGED <<head, tail, slots, total_pushed, total_popped, mine,
                   entry_out, got, strayed>>

\* Mutant: room for one entry less than was pushed.
RoomForNone(slot) == Word(slot - Size)

RoomFor(slot) == Word(slot - Size + 1)

\* One compare-and-swap, and its outcome is not looked at.
PushMakeRoom(p) ==
    /\ ring_pc[p] = "room"
    /\ tail' = IF tail = seen[p] THEN RoomFor(mine[p]) ELSE tail
    /\ ring_pc' = [ring_pc EXCEPT ![p] = "fill"]
    /\ UNCHANGED <<head, slots, count_vars, mine, seen, entry_out, got, strayed>>

PushFill(p) ==
    /\ ring_pc[p] = "fill"
    /\ slots' = [slots EXCEPT ![Slot(mine[p])].seq = Word(mine[p] + 1)]
    /\ ring_pc' = [ring_pc EXCEPT ![p] = "rest"]
    /\ UNCHANGED <<head, tail, count_vars, mine, seen, entry_out, got, strayed>>

PushFillRest(p) ==
    /\ ring_pc[p] = "rest"
    /\ slots' = [slots EXCEPT ![Slot(mine[p])].rest = Word(mine[p] + 1)]
    /\ total_pushed' = total_pushed + 1
    /\ ring_pc' = [ring_pc EXCEPT ![p] = "idle"]
    /\ UNCHANGED <<head, tail, total_popped, overflow_count, mine, seen,
                   entry_out, got, strayed>>

-----------------------------------------------------------------------------
(* ak_ring_pop, and ak_ring_drain, which calls it again and again *)

PopTail(c) ==
    /\ ring_pc[c] = "idle"
    /\ mine' = [mine EXCEPT ![c] = tail]
    /\ ring_pc' = [ring_pc EXCEPT ![c] = "head"]
    /\ UNCHANGED <<head, tail, slots, count_vars, seen, entry_out, got, strayed>>

\* The empty check: false is returned.
PopHead(c) ==
    /\ ring_pc[c] = "head"
    /\ ring_pc' = [ring_pc EXCEPT ![c] = IF mine[c] >= head THEN "idle" ELSE "claim"]
    /\ UNCHANGED <<head, tail, slots, count_vars, mine, seen, entry_out, got, strayed>>

\* The position is of a push that is not over.
Hasty(pos) == \E p \in Pushers : mine[p] = pos

\* Mutant: the slot is claimed without a compare-and-swap.
PopClaimPlain(c) ==
    /\ ring_pc[c] = "claim"
    /\ tail' = Word(mine[c] + 1) /\ ring_pc' = [ring_pc EXCEPT ![c] = "copy"]
    /\ strayed' = (strayed \/ Hasty(mine[c]))
    /\ UNCHANGED <<head, slots, count_vars, mine, seen, entry_out, got>>

\* A lost race returns false as well.
PopClaim(c) ==
    /\ ring_pc[c] = "claim"
    /\ IF tail = mine[c]
         THEN /\ tail' = Word(tail + 1) /\ ring_pc' = [ring_pc EXCEPT ![c] = "copy"]
              /\ strayed' = (strayed \/ Hasty(tail))
         ELSE ring_pc' = [ring_pc EXCEPT ![c] = "idle"] /\ UNCHANGED <<tail, strayed>>
    /\ UNCHANGED <<head, slots, count_vars, mine, seen, entry_out, got>>

PopCopy(c) ==
    /\ ring_pc[c] = "copy"
    /\ entry_out' = [entry_out EXCEPT ![c] = slots[Slot(mine[c])]]
    /\ ring_pc' = [ring_pc EXCEPT ![c] = "copyrest"]
    /\ UNCHANGED <<head, tail, slots, count_vars, mine, seen, got, strayed>>

PopCopyRest(c) ==
    /\ ring_pc[c] = "copyrest"
    /\ got' = [got EXCEPT ![c] = Append(@, [pos    |-> mine[c],
                                             seq    |-> entry_out[c].seq,
                                             rest   |-> slots[Slot(mine[c])].rest,
                                             lapped |-> head > mine[c] + Size])]
    /\ total_popped' = total_popped + 1
    /\ ring_pc' = [ring_pc EXCEPT ![c] = "idle"]
    /\ UNCHANGED <<head, tail, slots, total_pushed, overflow_count, mine, seen,
                   entry_out, strayed>>

\* ak_ring_peek, and the current_count of ak_ring_get_stats.
ak_ring_peek(offset) ==
    IF Word(tail + offset) >= head THEN NoRingEntry ELSE slots[Slot(tail + offset)]
CurrentCount == IF head > tail THEN head - tail ELSE 0

-----------------------------------------------------------------------------
Push(p) == \/ PushClaim(p) \/ PushCheck(p) \/ PushMakeRoom(p)
           \/ PushFill(p) \/ PushFillRest(p)
Pop(c) == PopTail(c) \/ PopHead(c) \/ PopClaim(c) \/ PopCopy(c) \/ PopCopyRest(c)

RingNext == (\E p \in Producers : Push(p)) \/ (\E c \in Consumers : Pop(c))

RingSpec == ak_ring_init /\ [][RingNext]_ring_vars

-----------------------------------------------------------------------------
(* Properties *)

\* The positions whose entries consumer c has been handed.
Positions(c) == {got[c][i].pos : i \in 1..Len(got[c])}

\* However pushes and pops interleave: as long as nobody claims a position whose push
\* is not over, ak_ring_pop hands out each position once, to each consumer in push
\* order, and with it the entry that was pushed there, unless a later push claimed
\* the slot again before the copy was done.
PopsSound ==
    ~strayed =>
        /\ \A c \in Consumers : \A i \in 1..Len(got[c]) :
            /\ got[c][i].pos \in 0..(head - 1)
            /\ ~got[c][i].lapped => /\ got[c][i].seq = got[c][i].pos + 1
                                    /\ got[c][i].rest = got[c][i].pos + 1
            /\ i > 1 => got[c][i - 1].pos < got[c][i].pos
        /\ \A c, d \in Consumers : c # d => Positions(c) \cap Positions(d) = {}

\* "Single-producer multi-consumer ring buffer": consumers that pop while entries
\* are pushed get whole entries, none of them twice.
PopsWholeOnce ==
    /\ \A c \in Consumers : \A i, j \in 1..Len(got[c]) :
        /\ got[c][i].rest = got[c][i].seq
        /\ i # j => got[c][i].seq # got[c][j].seq

SingleProducer == \A p, q \in Producers : p = q

\* Between operations the statistics of ak_ring_get_stats account for every push, as
\* long as nobody claimed a position whose push was not over: it was popped or is
\* still there, where ak_ring_peek finds it, or there is an overflow for it; an
\* overflow may also stand for an entry that a pop got hold of just in time.
Accounting ==
    AtRest /\ ~strayed /\ SingleProducer =>
        /\ total_popped + CurrentCount <= total_pushed
        /\ total_pushed <= total_popped + overflow_count + CurrentCount
        /\ CurrentCount <= Size
        /\ \A k \in 0..(Size - 1) :
             ak_ring_peek(k) = IF k < CurrentCount
                                 THEN [seq |-> tail + k + 1, rest |-> tail + k + 1]
                                 ELSE NoRingEntry

\* ak_ring_pop returns "false if ring empty": its test, tail >= head, holds between
\* operations only when every entry pushed has been claimed or overwritten.  A pop
\* that claims the slot of a push before that push has looked at the tail makes
\* slot - tail wrap, and the tail with it.
EmptyMeansEmpty == AtRest /\ tail >= head => tail = head

-----------------------------------------------------------------------------
(* The inductive invariant behind PopsSound, for any number of producers and   *)
(* consumers: while nobody has strayed, pushes under way are of the last Size  *)
(* positions and none of them is behind the tail, so that a position before    *)
(* the tail is whole in its slot until the slot is claimed again.              *)

RingEntry == [seq : Nat, rest : Nat]
Whole(pos) == [seq |-> pos + 1, rest |-> pos + 1]
PushStages == {"idle", "check", "room", "fill", "rest"}
PopStages == {"idle", "head", "claim", "copy", "copyrest"}

\* Consumers between their compare-and-swap and the end of their copy.
Claimed == {c \in Consumers : ring_pc[c] \in {"copy", "copyrest"}}

RingTypeOK ==
    /\ head \in 0..MaxPush /\ tail \in 0..head
    /\ slots \in [0..(Size - 1) -> RingEntry]
    /\ ring_pc \in [Producers \cup Consumers -> PushStages \cup PopStages]
    /\ \A p \in Producers : ring_pc[p] \in PushStages
    /\ \A c \in Consumers : ring_pc[c] \in PopStages
    /\ mine \in [Producers \cup Consumers -> Nat] /\ seen \in [Producers -> Nat]
    /\ entry_out \in [Consumers -> RingEntry]
    /\ got \in [Consumers -> Seq([pos : Nat, seq : Nat, rest : Nat, lapped : BOOLEAN])]

\* Pushes under way are of different positions, among the last Size and not yet
\* claimed by anybody.
PushInv ==
    \A p \in Pushers :
        /\ mine[p] < head /\ head <= mine[p] + Size /\ tail <= mine[p]
        /\ \A q \in Pushers : p # q => mine[p] # mine[q]
        /\ ring_pc[p] = "room" => seen[p] + Size <= mine[p]
        /\ ring_pc[p] = "rest" => slots[Slot(mine[p])].seq = mine[p] + 1

\* The last Size positions are whole once they are pushed.
SlotInv ==
    \A q \in 0..(head - 1) : head <= q + Size /\ ~Hasty(q) => slots[Slot(q)] = Whole(q)

PopInv ==
    \A c \in Consumers :
        /\ ring_pc[c] = "claim" => mine[c] < head
        /\ c \in Claimed => mine[c] < tail
        /\ ring_pc[c] = "copyrest" /\ head <= mine[c] + Size => entry_out[c] = Whole(mine[c])

\* What was handed out was claimed in order, and was nobody else's.
GotInv ==
    /\ \A c \in Consumers : \A i \in 1..Len(got[c]) :
        /\ got[c][i].pos < tail
        /\ ~got[c][i].lapped => /\ got[c][i].seq = got[c][i].pos + 1
                                /\ got[c][i].rest = got[c][i].pos + 1
        /\ c \in Claimed => got[c][i].pos < mine[c]
        /\ i > 1 => got[c][i - 1].pos < got[c][i].pos
    /\ \A c, d \in Consumers : c # d =>
        /\ Positions(c) \cap Positions(d) = {}
        /\ c \in Claimed => mine[c] \notin Positions(d)
        /\ c \in Claimed /\ d \in Claimed => mine[c] # mine[d]

RingInv == ~strayed => RingTypeOK /\ PushInv /\ SlotInv /\ PopInv /\ GotInv
=============================================================================
