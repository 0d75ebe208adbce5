--------------------------- MODULE PriorityQueue ----------------------------
(***************************************************************************)
(* aeroframe::PriorityQueue (src/src/queue.cpp): four vectors of messages, *)
(* one per level, and a counter of messages.  Each operation of the class  *)
(* is one action; a call that the code refuses (it returns false before it *)
(* changes anything) is no step.                                           *)
(*                                                                         *)
(* A message owns a heap copy of its payload.  The copy is a number here,  *)
(* given out in the order of the enqueue calls, so it also tells which     *)
(* call a message comes from.  total_priority_moves_ is write-only in the  *)
(* code and left out.                                                      *)
(***************************************************************************)
EXTENDS RecordStream

CONSTANTS
    Ids,                        \* message ids callers use
    Priorities,                 \* priorities callers pass; the type allows > 3
    InitCounts,                 \* promotion_count values callers pass
    MaxAges,                    \* max_age_ms values callers pass
    QUEUE_MAX_MESSAGES,         \* queue.h: 65535
    QUEUE_PROMOTION_THRESHOLD,  \* queue.h: 100
    COUNT_WRAP,                 \* promotion_count is a uint16_t
    TIME_WRAP,                  \* times are uint32_t milliseconds
    UniqueIds,                  \* do callers avoid ids that are still queued?
    MaxEnqueues,                \* bound: enqueue calls accepted in a behaviour
    MaxClock                    \* bound: how far the callers' clock advances

ASSUME QueueConstants ==
    /\ Ids # {}
    /\ Priorities \subseteq Nat /\ MaxAges \subseteq Nat
    /\ QUEUE_MAX_MESSAGES \in Nat /\ QUEUE_PROMOTION_THRESHOLD \in Nat \ {0}
    /\ COUNT_WRAP \in Nat \ {0} /\ TIME_WRAP \in Nat \ {0}
    /\ InitCounts \subseteq 0 .. COUNT_WRAP - 1
    /\ UniqueIds \in BOOLEAN
    /\ MaxEnqueues \in Nat /\ MaxClock \in Nat

VARIABLES
    queues,          \* queues_[level], front first
    total_messages,  \* total_messages_
    live,            \* payload copies allocated and neither deleted nor handed over
    births,          \* history, per payload copy: when and how enqueued, moved since?
    clock,           \* the callers' clock, before it is cut to 32 bits
    out,             \* what the last call handed to its caller, if anything
    delivered,       \* history: the copies dequeue has handed to callers
    expired          \* history: the copies expire_old has deleted

vars == <<queues, total_messages, live, births, clock, out, delivered, expired>>

Top    == 3
Levels == 0 .. Top

Message == [id : Ids, buf : 1 .. MaxEnqueues, priority : Priorities \cup Levels,
            enqueue_time : 0 .. TIME_WRAP - 1, promotion_count : 0 .. COUNT_WRAP - 1]

Nothing == [id |-> "nothing"]

Held       == UNION {ToSet(queues[l]) : l \in Levels}
HeldBufs   == {m.buf : m \in Held}
Population == Len(queues[0]) + Len(queues[1]) + Len(queues[2]) + Len(queues[3])

-----------------------------------------------------------------------------
(* Helpers of the class.  A definition named X_Y is X with a plausible     *)
(* mistake in it; nothing uses it but the mutation runs, which put it in   *)
(* the place of X and expect a property to fail.                           *)

HasRoom_OffByOne == total_messages <= QUEUE_MAX_MESSAGES
HasRoom          == total_messages < QUEUE_MAX_MESSAGES

\* The levels that hold a message of this id; find_message stops at the lowest.
LevelsWith(id) == {l \in Levels : \E m \in ToSet(queues[l]) : m.id = id}
FoundAt(id)    == {l \in LevelsWith(id) : \A k \in LevelsWith(id) : l <= k}

FirstWith(q, id) == q[SelectInSeq(q, LAMBDA m : m.id = id)]

\* std::remove_if + erase: every message of the id goes, not only the first.
WithoutId_NotErased(q, id) == q
WithoutId_ToEnd(q, id)     == SubSeq(q, 1, SelectInSeq(q, LAMBDA m : m.id = id) - 1)
WithoutId(q, id)           == Kept(q, {m \in ToSet(q) : m.id # id})

\* Take the first message of the id out of level l and push it to level k.
Relocate(id, l, k, count) ==
    LET msg == FirstWith(queues[l], id)
    IN  /\ queues' = [queues EXCEPT
              ![l] = WithoutId(@, id),
              ![k] = Append(@, [msg EXCEPT !.priority = k, !.promotion_count = count])]
        /\ births' = [births EXCEPT ![msg.buf].moved = TRUE]

PromotedCount(m)     == (m.promotion_count + 1) % COUNT_WRAP
DemotedCount_Kept(m) == m.promotion_count
DemotedCount(m)      == 0

\* The level dequeue takes from: the highest that is not empty.
ServedLevel_Lowest == {l \in Levels : /\ queues[l] # <<>>
                                      /\ \A k \in Levels : k < l => queues[k] = <<>>}
ServedLevel        == {l \in Levels : /\ queues[l] # <<>>
                                      /\ \A k \in Levels : k > l => queues[k] = <<>>}

\* One pass of reprioritize: the ripe messages of level l move up, in order.
Ripe(m) == m.promotion_count >= QUEUE_PROMOTION_THRESHOLD

Lifted_CountKept(m, k) == [m EXCEPT !.priority = k]
Lifted(m, k)           == [m EXCEPT !.priority = k, !.promotion_count = 0]

LiftLevel(qs, l) ==
    LET ripe == Kept(qs[l], {m \in ToSet(qs[l]) : Ripe(m)})
    IN  [qs EXCEPT
            ![l]     = Kept(@, {m \in ToSet(@) : ~Ripe(m)}),
            ![l + 1] = @ \o [i \in DOMAIN ripe |-> Lifted(ripe[i], l + 1)]]

\* uint32_t arithmetic: the age is taken modulo 2^32.
TooOld_Unwrapped(m, now, max_age) == now > m.enqueue_time + max_age
TooOld(m, now, max_age) ==
    (now + TIME_WRAP - m.enqueue_time) % TIME_WRAP > max_age

-----------------------------------------------------------------------------
(* The operations. *)

Init ==
    /\ queues = [l \in Levels |-> <<>>]
    /\ total_messages = 0
    /\ live = {}
    /\ births = <<>>
    /\ clock = 0
    /\ out = Nothing
    /\ delivered = {}
    /\ expired = {}

Enqueue(id, p, count) ==
    LET buf   == Len(births) + 1
        level == IF p > Top THEN Top ELSE p
        msg   == [id |-> id, buf |-> buf, priority |-> p,
                  enqueue_time |-> clock % TIME_WRAP, promotion_count |-> count]
    IN  /\ Len(births) < MaxEnqueues
        /\ UniqueIds => LevelsWith(id) = {}
        /\ HasRoom
        /\ queues' = [queues EXCEPT ![level] = Append(@, msg)]
        /\ total_messages' = total_messages + 1
        /\ live' = live \cup {buf}
        /\ births' = Append(births, [born |-> clock, base |-> count, moved |-> FALSE])
        /\ out' = Nothing
        /\ UNCHANGED <<clock, delivered, expired>>

\* The caller now owns the payload copy.
Dequeue ==
    \E l \in ServedLevel :
        /\ out' = Head(queues[l])
        /\ queues' = [queues EXCEPT ![l] = Tail(@)]
        /\ total_messages' = total_messages - 1
        /\ live' = live \ {Head(queues[l]).buf}
        /\ delivered' = delivered \cup {Head(queues[l]).buf}
        /\ UNCHANGED <<births, clock, expired>>

Promote(id) ==
    \E l \in FoundAt(id) :
        /\ l < Top
        /\ Relocate(id, l, l + 1, PromotedCount(FirstWith(queues[l], id)))
        /\ out' = Nothing
        /\ UNCHANGED <<total_messages, live, clock, delivered, expired>>

Demote(id) ==
    \E l \in FoundAt(id) :
        /\ l > 0
        /\ Relocate(id, l, l - 1, DemotedCount(FirstWith(queues[l], id)))
        /\ out' = Nothing
        /\ UNCHANGED <<total_messages, live, clock, delivered, expired>>

ExpireOld(max_age) ==
    LET dead == {m \in Held : TooOld(m, clock % TIME_WRAP, max_age)}
    IN  /\ queues' = [l \in Levels |-> Kept(queues[l], Held \ dead)]
        /\ total_messages' = total_messages - Cardinality(dead)
        /\ live' = live \ {m.buf : m \in dead}
        /\ expired' = expired \cup {m.buf : m \in dead}
        /\ out' = Nothing
        /\ UNCHANGED <<births, clock, delivered>>

Reprioritize ==
    LET ripe == {m.buf : m \in {n \in Held : Ripe(n) /\ n \notin ToSet(queues[Top])}}
    IN  /\ queues' = LiftLevel(LiftLevel(LiftLevel(queues, 0), 1), 2)
        /\ births' = [b \in DOMAIN births |-> [births[b] EXCEPT !.moved = @ \/ b \in ripe]]
        /\ out' = Nothing
        /\ UNCHANGED <<total_messages, live, clock, delivered, expired>>

\* Time passes between two calls.
Tick ==
    /\ clock < MaxClock
    /\ clock' = clock + 1
    /\ out' = Nothing
    /\ UNCHANGED <<queues, total_messages, live, births, delivered, expired>>

Next ==
    \/ \E id \in Ids, p \in Priorities, count \in InitCounts : Enqueue(id, p, count)
    \/ Dequeue
    \/ \E id \in Ids : Promote(id)
    \/ \E id \in Ids : Demote(id)
    \/ \E max_age \in MaxAges : ExpireOld(max_age)
    \/ Reprioritize
    \/ Tick

Spec == Init /\ [][Next]_vars

-----------------------------------------------------------------------------
(* Properties. *)

\* The level a message belongs on, by the priority it carries.
Urgency(m) == IF m.priority > Top THEN Top ELSE m.priority

\* Every variable has its type: messages in four vectors, each on the level its
\* priority says, a counter that never passes QUEUE_MAX_MESSAGES (the guard of
\* enqueue), payload copies that exist.
TypeOK ==
    /\ DOMAIN queues = Levels
    /\ Held \subseteq Message
    /\ \A l \in Levels : \A m \in ToSet(queues[l]) : Urgency(m) = l
    /\ total_messages \in 0 .. QUEUE_MAX_MESSAGES
    /\ live \subseteq DOMAIN births
    /\ clock \in 0 .. MaxClock
    /\ out = Nothing \/ out \in Message
    /\ delivered \cup expired \subseteq DOMAIN births

\* Ownership of payload copies: a queued message always points to a copy that
\* is still allocated, and no two queued messages share one.  This is what
\* makes the delete[] of expire_old and of the destructor run once per copy.
PayloadsOwnedOnce ==
    /\ HeldBufs \subseteq live
    /\ Cardinality(HeldBufs) = Population

\* count() is the number of payload copies the queue has allocated and not
\* given away, whatever enqueue, dequeue, promote, demote, expire_old and
\* reprioritize do in between (a copy that promote drops is still counted).
CountIsOwnedCopies == total_messages = Cardinality(live)

\* count() is the number of messages a caller can still get out: the sum of
\* count_for_priority over the levels.
CountMatchesLevels == total_messages = Population

\* A message cannot collect promotions: its promotion_count never exceeds the
\* value its caller gave it plus the level it stands on.  For a caller that
\* starts at 0 neither the threshold of reprioritize nor the uint16_t wrap
\* that the comment in promote describes is ever reached.
PromotionsBoundedByLevel ==
    \A l \in Levels : \A m \in ToSet(queues[l]) :
        m.promotion_count <= births[m.buf].base + l

\* dequeue hands out a message of the highest priority present, and of the
\* messages on that level that were never promoted, demoted or lifted, the one
\* enqueued first.
DequeueMostUrgentOldest ==
    [][out' # Nothing =>
          \A m \in Held :
             /\ Urgency(m) <= Urgency(out')
             /\ (/\ Urgency(m) = Urgency(out')
                 /\ ~births[m.buf].moved /\ ~births[out'.buf].moved)
                => out'.buf <= m.buf]_vars

\* expire_old judges a message by its true age, on a clock that does not wrap:
\* none within the limit is deleted, and none beyond it stays, unless it has
\* outlived a whole turn of the 32-bit clock.
ExpiryByTrueAge ==
    [][\A a \in MaxAges : ExpireOld(a) =>
          \A m \in Held :
             LET age == clock - births[m.buf].born
             IN  IF m.buf \in HeldBufs' THEN age <= a \/ age >= TIME_WRAP
                                        ELSE age > a]_vars

\* With callers that never reuse an id that is still queued, the class
\* implements the priority pool: whatever promote, demote and reprioritize do
\* in between, a message stays until dequeue hands it out, once and as one of
\* the highest level present, or expire_old deletes it for its age.
HeldLevel(b) == CHOOSE l \in Levels : \E m \in ToSet(queues[l]) : m.buf = b
InPool       == [b \in HeldBufs |-> HeldLevel(b)]
Accepted     == [b \in DOMAIN births |-> births[b].born]

Pool == INSTANCE PriorityPool WITH
            Items <- 1 .. MaxEnqueues, PoolLevels <- Levels,
            Limits <- MaxAges, Turn <- TIME_WRAP,
            pool <- InPool, since <- Accepted, now <- clock

ImplementsPool == Pool!PoolSpec

=============================================================================
