---------------------------- MODULE PriorityPool ----------------------------
(***************************************************************************)
(* What a caller may rely on from a priority queue with promotion,         *)
(* demotion and expiry, with no vectors, ids, counters or 32-bit times: a  *)
(* pool of accepted items, each on a level.  An item leaves the pool in    *)
(* two ways only, once: it is delivered, from the highest level present,   *)
(* or an expiry takes it because of its age.  In between it stays, and     *)
(* changes its level by one at a time.                                     *)
(***************************************************************************)
EXTENDS Integers

CONSTANTS Items,       \* the items callers may ever hand over
          PoolLevels,  \* the levels, a set of naturals
          Limits,      \* the ages callers ask an expiry for
          Turn         \* an expiry may miss an item that is at least this old

VARIABLES pool,        \* the level of every item that is in the pool
          since,       \* when each item ever accepted was accepted
          now,         \* the time, which does not wrap
          delivered,   \* the items handed to callers
          expired      \* the items that expiries have taken

poolVars == <<pool, since, now, delivered, expired>>

Inside == DOMAIN pool
Age(i) == now - since[i]

PoolInit == /\ pool = [i \in {} |-> 0]
            /\ since = [i \in {} |-> 0]
            /\ now = 0
            /\ delivered = {}
            /\ expired = {}

\* Shrink the pool to the items of K.
KeepOnly(K) == pool' = [i \in K |-> pool[i]]

Accept(i, l) ==
    /\ i \notin DOMAIN since
    /\ pool' = [j \in Inside \cup {i} |-> IF j = i THEN l ELSE pool[j]]
    /\ since' = [j \in DOMAIN since \cup {i} |-> IF j = i THEN now ELSE since[j]]
    /\ UNCHANGED <<now, delivered, expired>>

Deliver(i) ==
    /\ i \in Inside
    /\ \A j \in Inside : pool[j] <= pool[i]
    /\ KeepOnly(Inside \ {i})
    /\ delivered' = delivered \cup {i}
    /\ UNCHANGED <<since, now, expired>>

\* Just the items beyond the limit go, but for those a whole turn old.
Expire(K, limit) ==
    /\ K \subseteq Inside
    /\ \A i \in K : Age(i) > limit
    /\ \A i \in Inside \ K : Age(i) <= limit \/ Age(i) >= Turn
    /\ KeepOnly(Inside \ K)
    /\ expired' = expired \cup K
    /\ UNCHANGED <<since, now, delivered>>

Shift(K, up) ==
    /\ K \subseteq Inside
    /\ pool' = [j \in Inside |-> IF j \notin K THEN pool[j]
                                 ELSE IF up THEN pool[j] + 1 ELSE pool[j] - 1]
    /\ \A j \in K : pool'[j] \in PoolLevels
    /\ UNCHANGED <<since, now, delivered, expired>>

Pass == /\ now' = now + 1
        /\ UNCHANGED <<pool, since, delivered, expired>>

PoolNext == \/ \E i \in Items, l \in PoolLevels : Accept(i, l)
            \/ \E i \in Inside : Deliver(i)
            \/ \E K \in SUBSET Inside, limit \in Limits : Expire(K, limit)
            \/ \E K \in SUBSET Inside : Shift(K, TRUE)
            \/ \E i \in Inside : Shift({i}, FALSE)
            \/ Pass

PoolSpec == PoolInit /\ [][PoolNext]_poolVars

=============================================================================
