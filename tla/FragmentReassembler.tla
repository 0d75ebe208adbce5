------------------------ MODULE FragmentReassembler -------------------------
(***************************************************************************)
(* aeroframe::FragmentReassembler (src/src/fragment.cpp): fragments in     *)
(* heap cells, found through a map from (message, fragment id), and a list *)
(* of retransmit requests that hold raw pointers to those cells.           *)
(*                                                                         *)
(* A heap cell stands for a Fragment and its data array, which are         *)
(* allocated and freed together; the allocator may hand a freed cell out   *)
(* again.  The linked list of FragmentAcks is a sequence, with the tail    *)
(* pointer as the position of the node it points to (0 for nullptr).  The  *)
(* offset of a fragment is stored but never read by the class, and an      *)
(* ack's timestamp is always 0: both are left out, and with the timestamp  *)
(* expire_retransmit_queue, which changes nothing.  A read of freed memory *)
(* returns any value of the type.                                          *)
(***************************************************************************)
EXTENDS Integers, Sequences, FiniteSets

CONSTANTS
    MsgIds,                 \* message ids callers use
    FragIds,                \* fragment ids callers use
    Totals,                 \* total_frags values callers pass
    Payloads,               \* payload contents, of various lengths
    Length,                 \* the length in bytes of every payload
    Addrs,                  \* bound: the heap cells there are
    Null,                   \* nullptr
    Free,                   \* what a cell holds that is not allocated
    MAX_FRAGMENT_PAYLOAD,   \* fragment.h: 1024
    MAX_FRAGMENTS_PER_MSG,  \* fragment.h: 64
    MaxAcks                 \* bound: retransmit requests pending at once

ASSUME FragmentConstants ==
    /\ FragIds \subseteq Nat /\ Totals \subseteq Nat
    /\ Length \in [Payloads -> Nat]
    /\ Null \notin Addrs
    /\ MAX_FRAGMENT_PAYLOAD \in Nat /\ MAX_FRAGMENTS_PER_MSG \in Nat
    /\ MaxAcks \in Nat

VARIABLES
    fragments,  \* fragments_: the cell of every stored fragment, or Null
    memory,     \* the contents of every heap cell, or Free
    acks,       \* the nodes reachable from retransmit_head_, first to last
    tail,       \* retransmit_tail_, as a position in acks
    count,      \* retransmit_count_
    careful,    \* history: have the callers kept to the discipline below so far?
    steady      \* history: did every push announce the total its message has?

vars == <<fragments, memory, acks, tail, count, careful, steady>>

Keys == MsgIds \X FragIds

Fragment == [key : Keys, total : Totals, payload : Payloads]

ASSUME FreeIsNoFragment == Free \notin Fragment

Ack == [key : Keys, ptr : Addrs \cup {Null}]

Stored(msg)  == {f \in FragIds : fragments[<<msg, f>>] # Null}
PointedTo    == {acks[i].ptr : i \in DOMAIN acks}
AckIndices(key) == {i \in DOMAIN acks : acks[i].key = key}

-----------------------------------------------------------------------------
(* Helpers.  X_Y is X with a plausible mistake, for the mutation runs.     *)

Accepts_OffByOne(key, total, payload) ==
    /\ Length[payload] <= MAX_FRAGMENT_PAYLOAD
    /\ key[2] <= MAX_FRAGMENTS_PER_MSG
    /\ total <= MAX_FRAGMENTS_PER_MSG

Accepts(key, total, payload) ==
    /\ Length[payload] <= MAX_FRAGMENT_PAYLOAD
    /\ key[2] < MAX_FRAGMENTS_PER_MSG
    /\ total <= MAX_FRAGMENTS_PER_MSG

\* The heap once the fragment stored under key, if any, is deleted.
Released_Leaked(key) == memory
Released(key) == IF fragments[key] = Null THEN memory
                 ELSE [memory EXCEPT ![fragments[key]] = Free]

\* The body of push_fragment after its guards: delete the fragment stored under
\* the key, allocate a cell (perhaps the same one) and store it.
Store(key, total, payload) ==
    \E a \in Addrs :
        /\ Released(key)[a] = Free
        /\ memory' = [Released(key) EXCEPT
                          ![a] = [key |-> key, total |-> total, payload |-> payload]]
        /\ fragments' = [fragments EXCEPT ![key] = a]

\* The list without its i-th node, and where the tail pointer is after the
\* unlinking code: on the predecessor if the last node went.
Unlinked(i) == SubSeq(acks, 1, i - 1) \o SubSeq(acks, i + 1, Len(acks))

TailAfter_NotFixed(i) == IF i = tail THEN tail ELSE tail - 1
TailAfter(i)          == IF i = tail THEN i - 1
                         ELSE IF i < tail THEN tail - 1 ELSE tail

\* remove_from_retransmit_queue, for every cell of D at once: only the first
\* node that points to a cell is cleared.
FirstTo(a) == {i \in DOMAIN acks : /\ acks[i].ptr = a
                                   /\ \A j \in DOMAIN acks : acks[j].ptr = a => i <= j}
Cleared_Skipped(D) == acks
Cleared(D) == [i \in DOMAIN acks |->
                  IF \E a \in D : i \in FirstTo(a)
                  THEN [acks[i] EXCEPT !.ptr = Null] ELSE acks[i]]

-----------------------------------------------------------------------------
(* The operations. *)

Init ==
    /\ fragments = [k \in Keys |-> Null]
    /\ memory = [a \in Addrs |-> Free]
    /\ acks = <<>>
    /\ tail = 0
    /\ count = 0
    /\ careful = TRUE
    /\ steady = TRUE

PushFragment(key, total, payload) ==
    /\ Accepts(key, total, payload)
    /\ Store(key, total, payload)
    /\ careful' = (careful /\ (fragments[key] = Null \/ fragments[key] \notin PointedTo))
    /\ steady' = (steady /\ \A f \in Stored(key[1]) :
                               memory[fragments[<<key[1], f>>]].total = total)
    /\ UNCHANGED <<acks, tail, count>>

RequestRetransmit(key) ==
    LET ack == [key |-> key, ptr |-> fragments[key]]
    IN  /\ fragments[key] # Null
        /\ Len(acks) < MaxAcks
        /\ acks' = IF tail # 0 THEN Append(SubSeq(acks, 1, tail), ack) ELSE <<ack>>
        /\ tail' = Len(acks')
        /\ count' = count + 1
        /\ careful' = (careful /\ fragments[key] \notin PointedTo)
        /\ UNCHANGED <<fragments, memory, steady>>

\* What process_retransmit does with the pointer of the node it found: nothing
\* without a pointer, and otherwise as the fragment it reads there tells it.
Alive(ptr) == ptr # Null /\ memory[ptr] # Free

ResendNothing(ptr) ==
    /\ Alive(ptr) => Length[memory[ptr].payload] = 0
    /\ UNCHANGED <<fragments, memory>>

\* A live fragment is pushed over itself.  push_fragment deletes it before it
\* copies the data, so the bytes of the copy are undefined.
ResendLive(ptr) ==
    /\ Alive(ptr)
    /\ LET frag == memory[ptr]
       IN  /\ Length[frag.payload] > 0
           /\ \E p \in Payloads : /\ Length[p] = Length[frag.payload]
                                  /\ Store(frag.key, frag.total, p)

\* A deleted fragment: every field that is read is undefined, the length too,
\* so that ResendNothing is possible as well.
ResendDead(ptr) ==
    /\ ptr # Null /\ ~Alive(ptr)
    /\ \E frag \in Fragment :
          /\ Length[frag.payload] > 0
          /\ Accepts(frag.key, frag.total, frag.payload)
          /\ Store(frag.key, frag.total, frag.payload)

ProcessRetransmit(key) ==
    \E i \in AckIndices(key) :
        /\ \A j \in AckIndices(key) : i <= j
        /\ ResendNothing(acks[i].ptr) \/ ResendLive(acks[i].ptr) \/ ResendDead(acks[i].ptr)
        /\ acks' = Unlinked(i)
        /\ tail' = TailAfter(i)
        /\ count' = count - 1
        /\ UNCHANGED <<careful, steady>>

DiscardMessage(msg) ==
    LET gone == {fragments[<<msg, f>>] : f \in Stored(msg)}
    IN  /\ Stored(msg) # {}
        /\ acks' = Cleared(gone)
        /\ memory' = [a \in Addrs |-> IF a \in gone THEN Free ELSE memory[a]]
        /\ fragments' = [k \in Keys |-> IF k[1] = msg THEN Null ELSE fragments[k]]
        /\ UNCHANGED <<tail, count, careful, steady>>

Next ==
    \/ \E key \in Keys, total \in Totals, payload \in Payloads :
          PushFragment(key, total, payload)
    \/ \E key \in Keys : RequestRetransmit(key)
    \/ \E key \in Keys : ProcessRetransmit(key)
    \/ \E msg \in MsgIds : DiscardMessage(msg)

Spec == Init /\ [][Next]_vars

-----------------------------------------------------------------------------
(* The queries. *)

\* The announced total is the one of the stored fragment with the lowest id.
Lowest(msg)    == CHOOSE f \in Stored(msg) : \A g \in Stored(msg) : f <= g
Announced(msg) == memory[fragments[<<msg, Lowest(msg)>>]].total

IsMessageComplete(msg) ==
    /\ Stored(msg) # {}
    /\ 0 .. Announced(msg) - 1 \subseteq Stored(msg)

-----------------------------------------------------------------------------
(* Properties. *)

\* What push_fragment lets in: its limits hold of every fragment in the heap,
\* those that a retransmission of freed memory pushes included.
Limited == [key : MsgIds \X {f \in FragIds : f < MAX_FRAGMENTS_PER_MSG},
            total : {t \in Totals : t <= MAX_FRAGMENTS_PER_MSG},
            payload : {p \in Payloads : Length[p] <= MAX_FRAGMENT_PAYLOAD}]

\* Every variable has its type.
TypeOK ==
    /\ fragments \in [Keys -> Addrs \cup {Null}]
    /\ memory \in [Addrs -> Limited \cup {Free}]
    /\ acks \in Seq(Ack)
    /\ tail \in Nat /\ count \in Nat
    /\ careful \in BOOLEAN /\ steady \in BOOLEAN

\* Ownership of the heap, in every behaviour, stale retransmit requests and
\* all: a map entry points to a live fragment that carries the entry's own key,
\* and every live fragment is in the map.  So nothing leaks, no two entries
\* share a fragment, and no fragment is deleted twice.
OwnedByMap ==
    /\ \A k \in Keys : fragments[k] # Null =>
          /\ memory[fragments[k]] # Free
          /\ memory[fragments[k]].key = k
    /\ \A a \in Addrs : memory[a] # Free => fragments[memory[a].key] = a

\* The list is sound: retransmit_tail_ is the last node reachable from the
\* head, nullptr exactly when the list is empty, and retransmit_count_ is the
\* number of nodes, after any mix of appends and unlinkings in the middle.
RetransmitListSound == tail = Len(acks) /\ count = Len(acks)

\* A retransmit request points to nothing or to a fragment that is alive.
\* The code breaks this; the next property says when it does not.
NoDanglingAck == \A a \in PointedTo : a = Null \/ memory[a] # Free

\* The discipline under which the raw pointers are safe: as long as no caller
\* pushes over a fragment, or requests one, that a pending request points to, no
\* request dangles, whatever else is called and whatever else is pushed again.
CarefulCallersAreSafe == careful => NoDanglingAck

\* A complete message stays complete until it is discarded, through repeated
\* pushes, requests, retransmissions and the discarding of others, as long as
\* callers are careful and announce one total per message.  For other callers it
\* becomes incomplete only if its lowest fragment now announces more than before.
CompletionLasts ==
    [][\A msg \in MsgIds : IsMessageComplete(msg) /\ ~IsMessageComplete(msg)' =>
          \/ Stored(msg)' = {}
          \/ ~(careful' /\ steady') /\ Announced(msg)' > Announced(msg)]_vars

=============================================================================
