---------------------------- MODULE SessionBook -----------------------------
(***************************************************************************)
(* What a session manager promises, with no heap in it: a book maps the    *)
(* ids of the open sessions to the telemetry each has collected.  Telemetry *)
(* goes to the session it is addressed to, a closed session takes its      *)
(* telemetry with it, and a whole book can be handed from one manager to   *)
(* another but never copied or mixed.                                      *)
(***************************************************************************)
EXTENDS Naturals, Sequences

CONSTANTS
    Managers,     \* the managers there may be
    SessionIds,
    Telemetry     \* the byte runs that may be appended

VARIABLES
    books         \* the book of every manager that exists

Empty == [id \in {} |-> <<>>]

BookInit == books = [m \in {} |-> Empty]

Appear(m) ==
    /\ m \notin DOMAIN books
    /\ books' = [n \in DOMAIN books \cup {m} |-> IF n = m THEN Empty ELSE books[n]]

Vanish(m) ==
    /\ m \in DOMAIN books
    /\ books' = [n \in DOMAIN books \ {m} |-> books[n]]

Open(m, id) ==
    /\ m \in DOMAIN books
    /\ id \notin DOMAIN books[m]
    /\ books' = [books EXCEPT ![m] = [i \in DOMAIN @ \cup {id} |->
                                         IF i = id THEN <<>> ELSE @[i]]]

Close(m, id) ==
    /\ m \in DOMAIN books
    /\ id \in DOMAIN books[m]
    /\ books' = [books EXCEPT ![m] = [i \in DOMAIN @ \ {id} |-> @[i]]]

Collect(m, id, bytes) ==
    /\ m \in DOMAIN books
    /\ id \in DOMAIN books[m]
    /\ books' = [books EXCEPT ![m][id] = @ \o bytes]

\* The whole book of n goes to m, which loses its own.
HandOver(n, m) ==
    /\ n # m
    /\ n \in DOMAIN books
    /\ books' = [k \in DOMAIN books \cup {m} |->
                    CASE k = m -> books[n] [] k = n -> Empty [] OTHER -> books[k]]

BookNext ==
    \E m \in Managers :
        \/ Appear(m) \/ Vanish(m)
        \/ \E id \in SessionIds : Open(m, id) \/ Close(m, id)
        \/ \E id \in SessionIds, bytes \in Telemetry : Collect(m, id, bytes)
        \/ \E n \in Managers : HandOver(n, m)

BookSpec == BookInit /\ [][BookNext]_books

=============================================================================
