--------------------------- MODULE SessionManager ---------------------------
(***************************************************************************)
(* aeroframe::SessionManager (src/src/session.cpp): a hash map from ids to *)
(* sessions that own a heap buffer of telemetry, and the move operations   *)
(* that hand the map of one manager to another.                            *)
(*                                                                         *)
(* A heap cell stands for a Session and its telemetry vector, which are    *)
(* allocated and freed together; a freed cell may be handed out again.     *)
(* The state field is SESSION_STATE_OPEN throughout and left out.          *)
(***************************************************************************)
EXTENDS Naturals, Sequences

CONSTANTS
    Managers,      \* the SessionManager objects there may be at once
    SessionIds,    \* session ids callers use
    Telemetry,     \* the byte runs callers append
    Cells,         \* bound: the heap cells there are
    Free,          \* what a cell holds that is not allocated
    MaxTelemetry   \* bound: the bytes a session collects

ASSUME SessionConstants ==
    /\ Free \notin Seq(Nat)
    /\ Telemetry \subseteq Seq(Nat)
    /\ MaxTelemetry \in Nat

VARIABLES
    sessions,  \* sessions_ of every manager that exists: a function on its ids
    heap,      \* the telemetry in every heap cell, or Free
    deletes    \* history: was every delete one of an allocated cell?

vars == <<sessions, heap, deletes>>

NoSessions == [id \in {} |-> 0]

Owned(m) == {sessions[m][id] : id \in DOMAIN sessions[m]}

-----------------------------------------------------------------------------
(* Helpers.  X_Y is X with a plausible mistake, for the mutation runs.     *)

\* erase in close_session, and the delete before it.
Without_NotErased(map, id) == map
Without(map, id)           == [i \in DOMAIN map \ {id} |-> map[i]]

\* Delete the cells of D.
Delete(D) ==
    /\ heap' = [c \in Cells |-> IF c \in D THEN Free ELSE heap[c]]
    /\ deletes' = (deletes /\ \A c \in D : heap[c] # Free)

\* What the moved-from map holds after the clear() that follows every move.
Moved_NotCleared(n) == sessions[n]
Moved(n)            == NoSessions

\* What operator= deletes before it takes the other map.
Cleaned_Skipped(m) == {}
Cleaned(m)         == Owned(m)

-----------------------------------------------------------------------------
(* The operations. *)

Init ==
    /\ sessions = [m \in {} |-> NoSessions]
    /\ heap = [c \in Cells |-> Free]
    /\ deletes = TRUE

\* The default constructor and the destructor, which calls cleanup.
Construct(m) ==
    /\ m \notin DOMAIN sessions
    /\ sessions' = [k \in DOMAIN sessions \cup {m} |->
                       IF k = m THEN NoSessions ELSE sessions[k]]
    /\ UNCHANGED <<heap, deletes>>

Destroy(m) ==
    /\ m \in DOMAIN sessions
    /\ Delete(Owned(m))
    /\ sessions' = [k \in DOMAIN sessions \ {m} |-> sessions[k]]

MoveConstruct(m, n) ==
    /\ m \notin DOMAIN sessions
    /\ n \in DOMAIN sessions
    /\ sessions' = [k \in DOMAIN sessions \cup {m} |->
                       CASE k = m -> sessions[n]
                         [] k = n -> Moved(n)
                         [] OTHER -> sessions[k]]
    /\ UNCHANGED <<heap, deletes>>

\* Assignment to oneself changes nothing.
MoveAssign(m, n) ==
    /\ m # n
    /\ m \in DOMAIN sessions /\ n \in DOMAIN sessions
    /\ Delete(Cleaned(m))
    /\ sessions' = [sessions EXCEPT ![m] = sessions[n], ![n] = Moved(n)]

OpenSession(m, id) ==
    /\ m \in DOMAIN sessions
    /\ id \notin DOMAIN sessions[m]
    /\ \E c \in Cells :
          /\ heap[c] = Free
          /\ heap' = [heap EXCEPT ![c] = <<>>]
          /\ sessions' = [sessions EXCEPT ![m] =
                [i \in DOMAIN @ \cup {id} |-> IF i = id THEN c ELSE @[i]]]
    /\ UNCHANGED deletes

CloseSession(m, id) ==
    /\ m \in DOMAIN sessions
    /\ id \in DOMAIN sessions[m]
    /\ Delete({sessions[m][id]})
    /\ sessions' = [sessions EXCEPT ![m] = Without(@, id)]

AppendTelemetry(m, id, bytes) ==
    /\ m \in DOMAIN sessions
    /\ id \in DOMAIN sessions[m]
    /\ LET c == sessions[m][id]
       IN  /\ heap[c] # Free => Len(heap[c]) + Len(bytes) <= MaxTelemetry
           /\ heap' = [heap EXCEPT ![c] = IF @ = Free THEN bytes ELSE @ \o bytes]
    /\ UNCHANGED <<sessions, deletes>>

Next ==
    \E m \in Managers :
        \/ Construct(m)
        \/ Destroy(m)
        \/ \E n \in Managers : MoveConstruct(m, n) \/ MoveAssign(m, n)
        \/ \E id \in SessionIds : OpenSession(m, id) \/ CloseSession(m, id)
        \/ \E id \in SessionIds, bytes \in Telemetry : AppendTelemetry(m, id, bytes)

Spec == Init /\ [][Next]_vars

-----------------------------------------------------------------------------
(* Properties. *)

\* Every variable has its type, and no delete was one of freed memory.
TypeOK ==
    /\ DOMAIN sessions \subseteq Managers
    /\ \A m \in DOMAIN sessions :
          /\ DOMAIN sessions[m] \subseteq SessionIds
          /\ sessions[m] \in [DOMAIN sessions[m] -> Cells]
    /\ heap \in [Cells -> Seq(Nat) \cup {Free}]
    /\ deletes = TRUE

\* Ownership of the heap through every open, close and move: each session in a
\* map is an allocated cell, no two sessions of the same or of different
\* managers share one, and every allocated cell is a session of some manager.
\* So the deletes of close_session and cleanup run once per session.
OwnedByOneManager ==
    /\ \A m \in DOMAIN sessions : \A id \in DOMAIN sessions[m] :
          /\ heap[sessions[m][id]] # Free
          /\ \A n \in DOMAIN sessions : \A j \in DOMAIN sessions[n] :
                sessions[m][id] = sessions[n][j] => m = n /\ id = j
    /\ \A c \in Cells : heap[c] # Free => \E m \in DOMAIN sessions : c \in Owned(m)

\* Seen without its heap the managers keep the book they promise: telemetry
\* reaches the session it is addressed to and no other, a reopened id starts
\* empty whatever cell it got, and a move takes a manager's sessions whole.
BookOf(map, h) == [id \in DOMAIN map |-> h[map[id]]]
Books          == [m \in DOMAIN sessions |-> BookOf(sessions[m], heap)]

Book == INSTANCE SessionBook WITH books <- Books

ImplementsBook == Book!BookSpec

=============================================================================
