------------------------ MODULE SessionManager_proofs ------------------------
(***************************************************************************)
(* What holds of SessionManager for every set of managers, session ids and *)
(* heap cells: ownership of the heap, and that the managers implement the  *)
(* book of SessionBook.  Ownership is what the refinement rests on: a step *)
(* on one session leaves the books of the others alone because no other    *)
(* session has its cell.                                                   *)
(***************************************************************************)
EXTENDS SessionManager, TLAPS

IInv == TypeOK /\ OwnedByOneManager

-----------------------------------------------------------------------------
(* The invariant. *)

\* Before the first manager exists there is nothing to own.
LEMMA InitInvariant == Init => IInv
<1> SUFFICES ASSUME Init PROVE IInv
    OBVIOUS
<1>1. DOMAIN sessions = {}
    BY DEF Init
<1>2. QED BY <1>1 DEF Init, IInv, TypeOK, OwnedByOneManager

\* A delete of cells that are allocated is not a double one.
LEMMA DeleteOfOwned ==
    ASSUME IInv, NEW m \in DOMAIN sessions, NEW D \in SUBSET Owned(m), Delete(D)
    PROVE  /\ heap' \in [Cells -> Seq(Nat) \cup {Free}]
           /\ deletes' = TRUE
           /\ \A c \in Cells : heap'[c] = IF c \in D THEN Free ELSE heap[c]
<1>1. \A c \in D : heap[c] # Free
    BY DEF Owned, IInv, OwnedByOneManager
<1>2. deletes = TRUE /\ heap \in [Cells -> Seq(Nat) \cup {Free}]
    BY DEF IInv, TypeOK
<1>3. QED BY <1>1, <1>2 DEF Delete

\* A new manager has no sessions.
LEMMA ConstructInvariant ==
    ASSUME IInv, NEW m \in Managers, Construct(m)
    PROVE  IInv'
<1>1. /\ DOMAIN sessions' = DOMAIN sessions \cup {m}
      /\ sessions'[m] = NoSessions
      /\ \A k \in DOMAIN sessions : k # m /\ sessions'[k] = sessions[k]
      /\ DOMAIN NoSessions = {}
      /\ NoSessions \in [{} -> Cells]
    BY DEF Construct, NoSessions
<1>2. heap' = heap /\ deletes' = deletes
    BY DEF Construct
<1>3. TypeOK'
    BY <1>1, <1>2 DEF IInv, TypeOK
<1>4. \A k \in DOMAIN sessions : Owned(k)' = Owned(k)
    BY <1>1 DEF Owned
<1>5. OwnedByOneManager'
    BY <1>1, <1>2, <1>4 DEF IInv, OwnedByOneManager
<1>6. QED BY <1>3, <1>5 DEF IInv

\* The destructor frees what its manager owns, and nothing else.
LEMMA DestroyInvariant ==
    ASSUME IInv, NEW m \in Managers, Destroy(m)
    PROVE  IInv'
<1>1. /\ m \in DOMAIN sessions
      /\ DOMAIN sessions' = DOMAIN sessions \ {m}
      /\ \A k \in DOMAIN sessions \ {m} : sessions'[k] = sessions[k]
    BY DEF Destroy
<1>2. /\ heap' \in [Cells -> Seq(Nat) \cup {Free}]
      /\ deletes' = TRUE
      /\ \A c \in Cells : heap'[c] = IF c \in Owned(m) THEN Free ELSE heap[c]
    BY <1>1, DeleteOfOwned DEF Destroy
<1>3. TypeOK'
    BY <1>1, <1>2 DEF IInv, TypeOK
<1>4. \A k \in DOMAIN sessions \ {m} : Owned(k)' = Owned(k)
    BY <1>1 DEF Owned
<1>5. ASSUME NEW k \in DOMAIN sessions \ {m}, NEW id \in DOMAIN sessions[k]
      PROVE  sessions[k][id] \in Cells /\ sessions[k][id] \notin Owned(m)
    BY <1>1, <1>5 DEF Owned, IInv, TypeOK, OwnedByOneManager
<1>6. OwnedByOneManager'
    BY <1>1, <1>2, <1>4, <1>5 DEF IInv, OwnedByOneManager
<1>7. QED BY <1>3, <1>6 DEF IInv

\* The move constructor gives each session of n to the new manager.
LEMMA MoveConstructInvariant ==
    ASSUME IInv, NEW m \in Managers, NEW n \in Managers, MoveConstruct(m, n)
    PROVE  IInv'
<1>1. /\ m \notin DOMAIN sessions /\ n \in DOMAIN sessions /\ m # n
      /\ DOMAIN sessions' = DOMAIN sessions \cup {m}
      /\ sessions'[m] = sessions[n]
      /\ sessions'[n] = NoSessions
      /\ \A k \in DOMAIN sessions \ {n} : sessions'[k] = sessions[k]
      /\ DOMAIN NoSessions = {}
      /\ NoSessions \in [{} -> Cells]
    BY DEF MoveConstruct, Moved, NoSessions
<1>2. heap' = heap /\ deletes' = deletes
    BY DEF MoveConstruct
<1>3. TypeOK'
    BY <1>1, <1>2 DEF IInv, TypeOK
<1>4. Owned(m)' = Owned(n) /\ \A k \in DOMAIN sessions \ {n} : Owned(k)' = Owned(k)
    BY <1>1 DEF Owned
<1>5. OwnedByOneManager'
    BY <1>1, <1>2, <1>4 DEF IInv, OwnedByOneManager
<1>6. QED BY <1>3, <1>5 DEF IInv

\* Move assignment frees the sessions of m before it takes those of n.
LEMMA MoveAssignInvariant ==
    ASSUME IInv, NEW m \in Managers, NEW n \in Managers, MoveAssign(m, n)
    PROVE  IInv'
<1>1. /\ m \in DOMAIN sessions /\ n \in DOMAIN sessions /\ m # n
      /\ DOMAIN sessions' = DOMAIN sessions
      /\ sessions'[m] = sessions[n]
      /\ sessions'[n] = NoSessions
      /\ \A k \in DOMAIN sessions \ {m, n} : sessions'[k] = sessions[k]
      /\ DOMAIN NoSessions = {}
      /\ NoSessions \in [{} -> Cells]
    BY DEF MoveAssign, Moved, NoSessions
<1>2. /\ heap' \in [Cells -> Seq(Nat) \cup {Free}]
      /\ deletes' = TRUE
      /\ \A c \in Cells : heap'[c] = IF c \in Owned(m) THEN Free ELSE heap[c]
    BY <1>1, DeleteOfOwned DEF MoveAssign, Cleaned
<1>3. TypeOK'
    BY <1>1, <1>2 DEF IInv, TypeOK
<1>4. Owned(m)' = Owned(n) /\ \A k \in DOMAIN sessions \ {m, n} : Owned(k)' = Owned(k)
    BY <1>1 DEF Owned
<1>5. ASSUME NEW k \in DOMAIN sessions \ {m}, NEW id \in DOMAIN sessions[k]
      PROVE  sessions[k][id] \in Cells /\ sessions[k][id] \notin Owned(m)
    BY <1>1, <1>5 DEF Owned, IInv, TypeOK, OwnedByOneManager
<1>6. OwnedByOneManager'
    BY <1>1, <1>2, <1>4, <1>5 DEF IInv, OwnedByOneManager
<1>7. QED BY <1>3, <1>6 DEF IInv

\* A new session gets a cell that no session has.
LEMMA OpenInvariant ==
    ASSUME IInv, NEW m \in Managers, NEW id \in SessionIds, OpenSession(m, id)
    PROVE  IInv'
<1>1. m \in DOMAIN sessions /\ id \notin DOMAIN sessions[m] /\ deletes' = deletes
    BY DEF OpenSession
<1>2. PICK c \in Cells :
          /\ heap[c] = Free
          /\ heap' = [heap EXCEPT ![c] = <<>>]
          /\ sessions' = [sessions EXCEPT ![m] =
                [i \in DOMAIN @ \cup {id} |-> IF i = id THEN c ELSE @[i]]]
    BY DEF OpenSession
<1>3. /\ DOMAIN sessions' = DOMAIN sessions
      /\ DOMAIN sessions'[m] = DOMAIN sessions[m] \cup {id}
      /\ sessions'[m][id] = c
      /\ \A i \in DOMAIN sessions[m] : sessions'[m][i] = sessions[m][i]
      /\ \A k \in DOMAIN sessions \ {m} : sessions'[k] = sessions[k]
      /\ sessions'[m] \in [DOMAIN sessions[m] \cup {id} -> Cells]
    BY <1>1, <1>2 DEF IInv, TypeOK
<1>4. /\ heap' \in [Cells -> Seq(Nat) \cup {Free}]
      /\ heap'[c] # Free
      /\ \A d \in Cells \ {c} : heap'[d] = heap[d]
    <2>1. <<>> \in Seq(Nat) /\ <<>> # Free
        <3>1. <<>> \in Seq(Nat)
            OBVIOUS
        <3>2. QED BY <3>1, SessionConstants, Zenon
    <2>2. heap \in [Cells -> Seq(Nat) \cup {Free}]
        BY DEF IInv, TypeOK
    <2>3. QED BY <1>2, <2>1, <2>2
<1>5. TypeOK'
    BY <1>1, <1>3, <1>4 DEF IInv, TypeOK
<1>6. ASSUME NEW k \in DOMAIN sessions, NEW i \in DOMAIN sessions[k]
      PROVE  sessions[k][i] \in Cells \ {c}
    BY <1>2, <1>6 DEF IInv, TypeOK, OwnedByOneManager
<1>7. /\ Owned(m)' = Owned(m) \cup {c}
      /\ \A k \in DOMAIN sessions \ {m} : Owned(k)' = Owned(k)
    BY <1>1, <1>3 DEF Owned
<1>8. OwnedByOneManager'
    BY <1>1, <1>2, <1>3, <1>4, <1>6, <1>7 DEF IInv, OwnedByOneManager
<1>9. QED BY <1>5, <1>8 DEF IInv

\* close_session frees the one cell it takes out of the map.
LEMMA CloseInvariant ==
    ASSUME IInv, NEW m \in Managers, NEW id \in SessionIds, CloseSession(m, id)
    PROVE  IInv'
<1> DEFINE c == sessions[m][id]
<1>1. m \in DOMAIN sessions /\ id \in DOMAIN sessions[m]
    BY DEF CloseSession
<1>2. /\ DOMAIN sessions' = DOMAIN sessions
      /\ DOMAIN sessions'[m] = DOMAIN sessions[m] \ {id}
      /\ \A i \in DOMAIN sessions[m] \ {id} : sessions'[m][i] = sessions[m][i]
      /\ \A k \in DOMAIN sessions \ {m} : sessions'[k] = sessions[k]
      /\ sessions'[m] \in [DOMAIN sessions[m] \ {id} -> Cells]
    BY <1>1 DEF CloseSession, Without, IInv, TypeOK
<1>3. /\ heap' \in [Cells -> Seq(Nat) \cup {Free}]
      /\ deletes' = TRUE
      /\ \A d \in Cells : heap'[d] = IF d \in {c} THEN Free ELSE heap[d]
    <2>1. {c} \in SUBSET Owned(m) /\ Delete({c})
        BY <1>1 DEF Owned, CloseSession
    <2>2. QED BY <1>1, <2>1, DeleteOfOwned
<1>4. TypeOK'
    BY <1>1, <1>2, <1>3 DEF IInv, TypeOK
<1>5. ASSUME NEW k \in DOMAIN sessions, NEW i \in DOMAIN sessions[k],
             k # m \/ i # id
      PROVE  sessions[k][i] \in Cells \ {c}
    BY <1>1, <1>5 DEF IInv, TypeOK, OwnedByOneManager
<1>6. /\ Owned(m)' = Owned(m) \ {c}
      /\ \A k \in DOMAIN sessions \ {m} : Owned(k)' = Owned(k)
    BY <1>1, <1>2, <1>5 DEF Owned
<1>7. OwnedByOneManager'
    BY <1>1, <1>2, <1>3, <1>5, <1>6 DEF IInv, OwnedByOneManager
<1>8. QED BY <1>4, <1>7 DEF IInv

\* append_telemetry writes to a cell that is allocated.
LEMMA AppendInvariant ==
    ASSUME IInv, NEW m \in Managers, NEW id \in SessionIds, NEW bytes \in Telemetry,
           AppendTelemetry(m, id, bytes)
    PROVE  /\ IInv'
           /\ heap' = [heap EXCEPT ![sessions[m][id]] = @ \o bytes]
<1> DEFINE c == sessions[m][id]
<1>1. /\ m \in DOMAIN sessions /\ id \in DOMAIN sessions[m]
      /\ sessions' = sessions /\ deletes' = deletes
      /\ heap' = [heap EXCEPT ![c] = IF @ = Free THEN bytes ELSE @ \o bytes]
    BY DEF AppendTelemetry
<1>2. c \in Cells /\ heap[c] \in Seq(Nat) /\ heap[c] # Free
    BY <1>1 DEF IInv, TypeOK, OwnedByOneManager
<1>3. heap' = [heap EXCEPT ![c] = heap[c] \o bytes]
    BY <1>1, <1>2
<1>4. heap[c] \o bytes \in Seq(Nat) /\ heap[c] \o bytes # Free
    <2>1. heap[c] \in Seq(Nat) /\ bytes \in Seq(Nat)
        BY <1>2, SessionConstants
    <2>2. heap[c] \o bytes \in Seq(Nat)
        BY <2>1
    <2>3. QED BY <2>2, SessionConstants
<1>5. /\ heap' \in [Cells -> Seq(Nat) \cup {Free}]
      /\ \A d \in Cells : heap'[d] = Free <=> heap[d] = Free
    BY <1>2, <1>3, <1>4 DEF IInv, TypeOK
<1>6. TypeOK'
    BY <1>1, <1>5 DEF IInv, TypeOK
<1>7. OwnedByOneManager'
    <2>1. \A k \in DOMAIN sessions : Owned(k)' = Owned(k)
        BY <1>1 DEF Owned
    <2>2. \A k \in DOMAIN sessions : \A i \in DOMAIN sessions[k] : sessions[k][i] \in Cells
        BY DEF IInv, TypeOK
    <2>3. ASSUME NEW k \in DOMAIN sessions, NEW i \in DOMAIN sessions[k]
          PROVE  heap'[sessions[k][i]] # Free
        BY <1>5, <2>2 DEF IInv, OwnedByOneManager
    <2>4. \A d \in Cells : heap'[d] # Free => \E k \in DOMAIN sessions : d \in Owned(k)
        BY <1>5 DEF IInv, OwnedByOneManager
    <2>5. QED BY <1>1, <2>1, <2>3, <2>4 DEF IInv, OwnedByOneManager
<1>8. QED BY <1>2, <1>3, <1>6, <1>7 DEF IInv

\* The invariant is inductive.
LEMMA NextInvariant == IInv /\ [Next]_vars => IInv'
<1> SUFFICES ASSUME IInv, [Next]_vars PROVE IInv'
    OBVIOUS
<1>1. CASE UNCHANGED vars
    BY <1>1 DEF vars, IInv, TypeOK, OwnedByOneManager, Owned
<1>2. ASSUME NEW m \in Managers, Construct(m) PROVE IInv'
    BY <1>2, ConstructInvariant
<1>3. ASSUME NEW m \in Managers, Destroy(m) PROVE IInv'
    BY <1>3, DestroyInvariant
<1>4. ASSUME NEW m \in Managers, NEW n \in Managers, MoveConstruct(m, n) PROVE IInv'
    BY <1>4, MoveConstructInvariant
<1>5. ASSUME NEW m \in Managers, NEW n \in Managers, MoveAssign(m, n) PROVE IInv'
    BY <1>5, MoveAssignInvariant
<1>6. ASSUME NEW m \in Managers, NEW id \in SessionIds, OpenSession(m, id) PROVE IInv'
    BY <1>6, OpenInvariant
<1>7. ASSUME NEW m \in Managers, NEW id \in SessionIds, CloseSession(m, id) PROVE IInv'
    BY <1>7, CloseInvariant
<1>8. ASSUME NEW m \in Managers, NEW id \in SessionIds, NEW bytes \in Telemetry,
             AppendTelemetry(m, id, bytes)
      PROVE  IInv'
    BY <1>8, AppendInvariant
<1>9. QED BY <1>1, <1>2, <1>3, <1>4, <1>5, <1>6, <1>7, <1>8 DEF Next

\* The invariant holds throughout.
LEMMA Invariance == Spec => []IInv
<1>1. QED BY InitInvariant, NextInvariant, PTL DEF Spec

-----------------------------------------------------------------------------
(* The refinement: every step is a step of the book, or leaves it alone.   *)

\* A cell of the heap is all that a book has of a session.
LEMMA SameBook ==
    ASSUME IInv, NEW k \in DOMAIN sessions,
           \A id \in DOMAIN sessions[k] : heap'[sessions[k][id]] = heap[sessions[k][id]]
    PROVE  BookOf(sessions[k], heap') = Books[k]
BY DEF BookOf, Books

\* No manager, no book.
LEMMA InitRefines == Init => Book!BookInit
<1> SUFFICES ASSUME Init PROVE Book!BookInit
    OBVIOUS
<1>1. DOMAIN sessions = {}
    BY DEF Init
<1>2. QED BY <1>1 DEF Book!BookInit, Books

\* A new manager appears with an empty book.
LEMMA ConstructRefines ==
    ASSUME IInv, NEW m \in Managers, Construct(m)
    PROVE  Book!Appear(m)
<1>1. /\ DOMAIN sessions' = DOMAIN sessions \cup {m}
      /\ m \notin DOMAIN sessions
      /\ sessions'[m] = NoSessions
      /\ \A k \in DOMAIN sessions : sessions'[k] = sessions[k]
      /\ heap' = heap
    BY DEF Construct
<1>2. BookOf(NoSessions, heap) = Book!Empty
    BY DEF BookOf, NoSessions, Book!Empty
<1>3. Books' = [n \in DOMAIN Books \cup {m} |-> IF n = m THEN Book!Empty ELSE Books[n]]
    BY <1>1, <1>2 DEF Books
<1>4. QED BY <1>1, <1>3 DEF Book!Appear, Books

\* The book of a destroyed manager vanishes; the others keep theirs.
LEMMA DestroyRefines ==
    ASSUME IInv, NEW m \in Managers, Destroy(m)
    PROVE  Book!Vanish(m)
<1>1. /\ m \in DOMAIN sessions
      /\ DOMAIN sessions' = DOMAIN sessions \ {m}
      /\ \A k \in DOMAIN sessions \ {m} : sessions'[k] = sessions[k]
    BY DEF Destroy
<1>2. ASSUME NEW k \in DOMAIN sessions \ {m}
      PROVE  BookOf(sessions[k], heap') = Books[k]
    <2>1. \A id \in DOMAIN sessions[k] :
             sessions[k][id] \in Cells /\ sessions[k][id] \notin Owned(m)
        BY <1>1 DEF Owned, IInv, TypeOK, OwnedByOneManager
    <2>2. \A c \in Cells : heap'[c] = IF c \in Owned(m) THEN Free ELSE heap[c]
        BY DEF Destroy, Delete
    <2>3. QED BY <2>1, <2>2, SameBook
<1>3. Books' = [n \in DOMAIN Books \ {m} |-> Books[n]]
    BY <1>1, <1>2 DEF Books
<1>4. QED BY <1>1, <1>3 DEF Book!Vanish, Books

\* The move constructor hands the book of n to a manager that had none.
LEMMA MoveConstructRefines ==
    ASSUME IInv, NEW m \in Managers, NEW n \in Managers, MoveConstruct(m, n)
    PROVE  Book!HandOver(n, m)
<1>1. /\ m \notin DOMAIN sessions /\ n \in DOMAIN sessions /\ m # n
      /\ DOMAIN sessions' = DOMAIN sessions \cup {m}
      /\ sessions'[m] = sessions[n]
      /\ sessions'[n] = NoSessions
      /\ \A k \in DOMAIN sessions \ {n} : sessions'[k] = sessions[k]
      /\ heap' = heap
    BY DEF MoveConstruct, Moved
<1>2. BookOf(NoSessions, heap) = Book!Empty
    BY DEF BookOf, NoSessions, Book!Empty
<1>3. Books' = [k \in DOMAIN Books \cup {m} |->
                  CASE k = m -> Books[n] [] k = n -> Book!Empty [] OTHER -> Books[k]]
    BY <1>1, <1>2 DEF Books
<1>4. QED BY <1>1, <1>3 DEF Book!HandOver, Books

\* Move assignment hands the book of n to m, whose own is gone.
LEMMA MoveAssignRefines ==
    ASSUME IInv, NEW m \in Managers, NEW n \in Managers, MoveAssign(m, n)
    PROVE  Book!HandOver(n, m)
<1>1. /\ m \in DOMAIN sessions /\ n \in DOMAIN sessions /\ m # n
      /\ DOMAIN sessions' = DOMAIN sessions
      /\ sessions'[m] = sessions[n]
      /\ sessions'[n] = NoSessions
      /\ \A k \in DOMAIN sessions \ {m, n} : sessions'[k] = sessions[k]
    BY DEF MoveAssign, Moved
<1>2. ASSUME NEW k \in DOMAIN sessions \ {m}
      PROVE  BookOf(sessions[k], heap') = Books[k]
    <2>1. \A id \in DOMAIN sessions[k] :
             sessions[k][id] \in Cells /\ sessions[k][id] \notin Owned(m)
        BY <1>1 DEF Owned, IInv, TypeOK, OwnedByOneManager
    <2>2. \A c \in Cells : heap'[c] = IF c \in Owned(m) THEN Free ELSE heap[c]
        BY DEF MoveAssign, Delete, Cleaned
    <2>3. QED BY <2>1, <2>2, SameBook
<1>3. BookOf(NoSessions, heap') = Book!Empty
    BY DEF BookOf, NoSessions, Book!Empty
<1>4. Books' = [k \in DOMAIN Books \cup {m} |->
                  CASE k = m -> Books[n] [] k = n -> Book!Empty [] OTHER -> Books[k]]
    BY <1>1, <1>2, <1>3 DEF Books
<1>5. QED BY <1>1, <1>4 DEF Book!HandOver, Books

\* An opened session is an empty entry of its manager's book, whatever the
\* cell it was given held before.
LEMMA OpenRefines ==
    ASSUME IInv, NEW m \in Managers, NEW id \in SessionIds, OpenSession(m, id)
    PROVE  Book!Open(m, id)
<1>1. m \in DOMAIN sessions /\ id \notin DOMAIN sessions[m]
    BY DEF OpenSession
<1>2. PICK c \in Cells :
          /\ heap[c] = Free
          /\ heap' = [heap EXCEPT ![c] = <<>>]
          /\ sessions' = [sessions EXCEPT ![m] =
                [i \in DOMAIN @ \cup {id} |-> IF i = id THEN c ELSE @[i]]]
    BY DEF OpenSession
<1>3. ASSUME NEW k \in DOMAIN sessions
      PROVE  BookOf(sessions[k], heap') = Books[k]
    <2>1. \A i \in DOMAIN sessions[k] : sessions[k][i] \in Cells \ {c}
        BY <1>2 DEF IInv, TypeOK, OwnedByOneManager
    <2>2. \A d \in Cells \ {c} : heap'[d] = heap[d]
        BY <1>2 DEF IInv, TypeOK
    <2>3. QED BY <2>1, <2>2, SameBook
<1>4. /\ DOMAIN sessions' = DOMAIN sessions
      /\ sessions'[m] = [i \in DOMAIN sessions[m] \cup {id} |->
                            IF i = id THEN c ELSE sessions[m][i]]
      /\ \A k \in DOMAIN sessions \ {m} : sessions'[k] = sessions[k]
      /\ heap'[c] = <<>>
    BY <1>1, <1>2 DEF IInv, TypeOK
<1>5. BookOf(sessions'[m], heap') = [i \in DOMAIN Books[m] \cup {id} |->
                                        IF i = id THEN <<>> ELSE Books[m][i]]
    <2>1. DOMAIN Books[m] = DOMAIN sessions[m]
        BY <1>1 DEF Books, BookOf
    <2>2. \A i \in DOMAIN sessions[m] : heap'[sessions[m][i]] = Books[m][i]
        BY <1>1, <1>3 DEF BookOf
    <2>3. QED BY <1>1, <1>4, <2>1, <2>2 DEF BookOf
<1>6. Books' = [Books EXCEPT ![m] = [i \in DOMAIN @ \cup {id} |->
                                        IF i = id THEN <<>> ELSE @[i]]]
    BY <1>1, <1>3, <1>4, <1>5 DEF Books
<1>7. QED BY <1>1, <1>6 DEF Book!Open, Books, BookOf

\* A closed session leaves the book with its telemetry, and no other does.
LEMMA CloseRefines ==
    ASSUME IInv, NEW m \in Managers, NEW id \in SessionIds, CloseSession(m, id)
    PROVE  Book!Close(m, id)
<1> DEFINE c == sessions[m][id]
<1>1. m \in DOMAIN sessions /\ id \in DOMAIN sessions[m]
    BY DEF CloseSession
<1>2. /\ DOMAIN sessions' = DOMAIN sessions
      /\ sessions'[m] = [i \in DOMAIN sessions[m] \ {id} |-> sessions[m][i]]
      /\ \A k \in DOMAIN sessions \ {m} : sessions'[k] = sessions[k]
    BY <1>1 DEF CloseSession, Without, IInv, TypeOK
<1>3. ASSUME NEW k \in DOMAIN sessions, NEW i \in DOMAIN sessions[k],
             k # m \/ i # id
      PROVE  heap'[sessions[k][i]] = heap[sessions[k][i]]
    <2>1. sessions[k][i] \in Cells /\ sessions[k][i] # c
        BY <1>1, <1>3 DEF IInv, TypeOK, OwnedByOneManager
    <2>2. QED BY <2>1 DEF CloseSession, Delete
<1>4. ASSUME NEW k \in DOMAIN sessions \ {m}
      PROVE  BookOf(sessions[k], heap') = Books[k]
    BY <1>3, SameBook
<1>5. BookOf(sessions'[m], heap') = [i \in DOMAIN Books[m] \ {id} |-> Books[m][i]]
    BY <1>1, <1>2, <1>3 DEF Books, BookOf
<1>6. Books' = [Books EXCEPT ![m] = [i \in DOMAIN @ \ {id} |-> @[i]]]
    BY <1>1, <1>2, <1>4, <1>5 DEF Books
<1>7. QED BY <1>1, <1>6 DEF Book!Close, Books, BookOf

\* Telemetry is collected by the session it is addressed to, and no other.
LEMMA AppendRefines ==
    ASSUME IInv, NEW m \in Managers, NEW id \in SessionIds, NEW bytes \in Telemetry,
           AppendTelemetry(m, id, bytes)
    PROVE  Book!Collect(m, id, bytes)
<1> DEFINE c == sessions[m][id]
<1>1. /\ m \in DOMAIN sessions /\ id \in DOMAIN sessions[m]
      /\ sessions' = sessions
    BY DEF AppendTelemetry
<1>2. c \in Cells /\ heap' = [heap EXCEPT ![c] = heap[c] \o bytes]
    BY <1>1, AppendInvariant DEF IInv, TypeOK
<1>3. ASSUME NEW k \in DOMAIN sessions, NEW i \in DOMAIN sessions[k],
             k # m \/ i # id
      PROVE  heap'[sessions[k][i]] = heap[sessions[k][i]]
    BY <1>1, <1>2, <1>3 DEF IInv, TypeOK, OwnedByOneManager
<1>4. ASSUME NEW k \in DOMAIN sessions \ {m}
      PROVE  BookOf(sessions[k], heap') = Books[k]
    BY <1>3, SameBook
<1>5. heap'[c] = heap[c] \o bytes
    BY <1>2 DEF IInv, TypeOK
<1>6. BookOf(sessions[m], heap') = [Books[m] EXCEPT ![id] = @ \o bytes]
    <2>1. Books[m] = [i \in DOMAIN sessions[m] |-> heap[sessions[m][i]]]
        BY <1>1 DEF Books, BookOf
    <2>2. \A i \in DOMAIN sessions[m] :
             heap'[sessions[m][i]] = IF i = id THEN heap[c] \o bytes
                                               ELSE heap[sessions[m][i]]
        BY <1>1, <1>3, <1>5
    <2> HIDE DEF c
    <2>3. BookOf(sessions[m], heap') =
             [i \in DOMAIN sessions[m] |-> IF i = id THEN heap[c] \o bytes
                                                     ELSE heap[sessions[m][i]]]
        BY <2>2 DEF BookOf
    <2>4. heap[c] = heap[sessions[m][id]] /\ id \in DOMAIN sessions[m]
        BY <1>1 DEF c
    <2>5. QED BY <2>1, <2>3, <2>4
<1>7. Books' = [Books EXCEPT ![m] = [Books[m] EXCEPT ![id] = @ \o bytes]]
    BY <1>1, <1>4, <1>6 DEF Books
<1>8. QED BY <1>1, <1>7 DEF Book!Collect, Books, BookOf

\* Every step maps to a step of the book or leaves it as it is.
LEMMA NextRefines == IInv /\ [Next]_vars => [Book!BookNext]_Books
<1> SUFFICES ASSUME IInv, [Next]_vars PROVE [Book!BookNext]_Books
    OBVIOUS
<1>1. CASE UNCHANGED vars
    BY <1>1 DEF vars, Books
<1>2. ASSUME NEW m \in Managers, Construct(m) PROVE Book!BookNext
    BY <1>2, ConstructRefines DEF Book!BookNext
<1>3. ASSUME NEW m \in Managers, Destroy(m) PROVE Book!BookNext
    BY <1>3, DestroyRefines DEF Book!BookNext
<1>4. ASSUME NEW m \in Managers, NEW n \in Managers, MoveConstruct(m, n)
      PROVE  Book!BookNext
    BY <1>4, MoveConstructRefines DEF Book!BookNext
<1>5. ASSUME NEW m \in Managers, NEW n \in Managers, MoveAssign(m, n)
      PROVE  Book!BookNext
    BY <1>5, MoveAssignRefines DEF Book!BookNext
<1>6. ASSUME NEW m \in Managers, NEW id \in SessionIds, OpenSession(m, id)
      PROVE  Book!BookNext
    BY <1>6, OpenRefines DEF Book!BookNext
<1>7. ASSUME NEW m \in Managers, NEW id \in SessionIds, CloseSession(m, id)
      PROVE  Book!BookNext
    BY <1>7, CloseRefines DEF Book!BookNext
<1>8. ASSUME NEW m \in Managers, NEW id \in SessionIds, NEW bytes \in Telemetry,
             AppendTelemetry(m, id, bytes)
      PROVE  Book!BookNext
    BY <1>8, AppendRefines DEF Book!BookNext
<1>9. QED BY <1>1, <1>2, <1>3, <1>4, <1>5, <1>6, <1>7, <1>8 DEF Next

-----------------------------------------------------------------------------
(* The theorems. *)

\* Types hold, and no session is ever deleted twice.
THEOREM TypeCorrect == Spec => []TypeOK
<1>1. IInv => TypeOK
    BY DEF IInv
<1>2. QED BY <1>1, Invariance, PTL

\* Every allocated session belongs to exactly one manager under one id, and
\* every session in a map is allocated.
THEOREM OwnershipIsUnique == Spec => []OwnedByOneManager
<1>1. IInv => OwnedByOneManager
    BY DEF IInv
<1>2. QED BY <1>1, Invariance, PTL

\* The managers, pointers, moves, reused cells and all, keep the book they
\* promise.
THEOREM KeepsTheBook == Spec => ImplementsBook
<1>1. QED BY InitRefines, NextRefines, Invariance, PTL
          DEF Spec, ImplementsBook, Book!BookSpec

=============================================================================
