---------------------------- MODULE RoutingTable ----------------------------
(***************************************************************************)
(* aeroframe::RoutingTable (src/src/routing.cpp): a hash map from route    *)
(* ids to routes.  Each operation is one action; a call the code refuses   *)
(* is no step.  lookup scans the map in whatever order the hash gives it.  *)
(* `local` is never read and left out.                                     *)
(***************************************************************************)
EXTENDS Naturals, FiniteSets, SequencesExt

CONSTANTS
    Ids, Dests,          \* route ids and destination addresses
    Priorities,          \* priorities callers pass
    Ttls,                \* times to live callers pass
    Deltas,              \* metric changes callers pass
    HopLists,            \* next_hops arrays callers pass
    ROUTING_TABLE_MAX,   \* routing.h: 256
    METRIC_WRAP,         \* metric is a uint16_t
    MaxAgings            \* bound: age_routes calls in the life of a route

ROUTE_PRIORITY_CRITICAL == 3

ASSUME RoutingConstants ==
    /\ Priorities \subseteq Nat /\ Ttls \subseteq Nat /\ Deltas \subseteq Nat
    /\ HopLists \subseteq Seq(Nat)
    /\ ROUTING_TABLE_MAX \in Nat
    /\ METRIC_WRAP \in Nat \ {0}
    /\ MaxAgings \in Nat

VARIABLES
    routes,   \* routes_: a function on the ids present
    history,  \* history, per route: the ttl it came with, age_routes calls since
    result    \* what the last call, if it was a lookup, returned

vars == <<routes, history, result>>

Route == [dest_addr : Dests, priority : 0 .. ROUTE_PRIORITY_CRITICAL,
          ttl : Nat, metric : 0 .. METRIC_WRAP - 1, next_hops : HopLists,
          active : BOOLEAN]

Past == [ttl : Ttls, agings : 0 .. MaxAgings]

NoResult == [found |-> FALSE]

-----------------------------------------------------------------------------
(* Helpers.  X_Y is X with a plausible mistake, for the mutation runs.     *)

HasRoom_OffByOne == Cardinality(DOMAIN routes) <= ROUTING_TABLE_MAX
HasRoom          == Cardinality(DOMAIN routes) < ROUTING_TABLE_MAX

\* One route in age_routes: a ttl of 0 is not counted, and so never expires.
Aged_ZeroExpires(r) == [r EXCEPT !.ttl = IF @ > 0 THEN @ - 1 ELSE 0,
                                 !.active = r.ttl > 1]
Aged(r) == [r EXCEPT !.ttl = IF @ > 0 THEN @ - 1 ELSE 0,
                     !.active = @ /\ r.ttl # 1]

\* The test of the loop in lookup, the best metric so far being the bound.
Better_OrEqual(r, dest, metric) ==
    r.active /\ r.dest_addr = dest /\ r.metric <= metric
Better(r, dest, metric) ==
    r.active /\ r.dest_addr = dest /\ r.metric < metric

\* One turn of the loop: the best route so far, <<>> for none, gives way to a
\* better one.
Considered(best, id, dest) ==
    IF Better(routes[id], dest, IF best = <<>> THEN METRIC_WRAP - 1
                                               ELSE routes[best[1]].metric)
    THEN <<id>> ELSE best

Scan(order, dest) ==
    LET best[n \in 0 .. Len(order)] ==
          IF n = 0 THEN <<>> ELSE Considered(best[n - 1], order[n], dest)
    IN  best[Len(order)]

\* The next hop is the first one, cut to 16 bits.
Answer(best) ==
    IF best = <<>> THEN NoResult
    ELSE LET hops == routes[best[1]].next_hops
         IN  [found |-> TRUE, entry |-> best[1],
              next_hop |-> IF hops = <<>> THEN 0 ELSE Head(hops) % 65536]

-----------------------------------------------------------------------------
(* The operations. *)

Init ==
    /\ routes = [id \in {} |-> 0]
    /\ history = [id \in {} |-> 0]
    /\ result = NoResult

AddRoute(id, dest, priority, ttl, hops) ==
    /\ HasRoom
    /\ id \notin DOMAIN routes
    /\ priority <= ROUTE_PRIORITY_CRITICAL
    /\ routes' = [k \in DOMAIN routes \cup {id} |->
                     IF k = id
                     THEN [dest_addr |-> dest, priority |-> priority, ttl |-> ttl,
                           metric |-> 0, next_hops |-> hops, active |-> TRUE]
                     ELSE routes[k]]
    /\ history' = [k \in DOMAIN routes \cup {id} |->
                     IF k = id THEN [ttl |-> ttl, agings |-> 0] ELSE history[k]]
    /\ result' = NoResult

RemoveRoute(id) ==
    /\ id \in DOMAIN routes
    /\ routes' = [k \in DOMAIN routes \ {id} |-> routes[k]]
    /\ history' = [k \in DOMAIN routes \ {id} |-> history[k]]
    /\ result' = NoResult

UpdateMetric(id, delta) ==
    /\ id \in DOMAIN routes
    /\ routes' = [routes EXCEPT ![id].metric = (@ + delta) % METRIC_WRAP]
    /\ result' = NoResult
    /\ UNCHANGED history

AgeRoutes ==
    /\ \A id \in DOMAIN routes : history[id].agings < MaxAgings
    /\ routes' = [id \in DOMAIN routes |-> Aged(routes[id])]
    /\ history' = [id \in DOMAIN routes |-> [history[id] EXCEPT !.agings = @ + 1]]
    /\ result' = NoResult

Lookup(dest) ==
    /\ \E order \in SetToSeqs(DOMAIN routes) : result' = Answer(Scan(order, dest))
    /\ UNCHANGED <<routes, history>>

Next ==
    \/ \E id \in Ids, dest \in Dests, priority \in Priorities, ttl \in Ttls,
          hops \in HopLists : AddRoute(id, dest, priority, ttl, hops)
    \/ \E id \in Ids : RemoveRoute(id)
    \/ \E id \in Ids, delta \in Deltas : UpdateMetric(id, delta)
    \/ AgeRoutes
    \/ \E dest \in Dests : Lookup(dest)

Spec == Init /\ [][Next]_vars

-----------------------------------------------------------------------------
(* Properties. *)

\* Every variable has its type, and the table holds at most ROUTING_TABLE_MAX
\* routes, whether they are active or not.
TypeOK ==
    /\ DOMAIN routes \subseteq Ids
    /\ routes \in [DOMAIN routes -> Route]
    /\ history \in [DOMAIN routes -> Past]
    /\ IsFiniteSet(DOMAIN routes)
    /\ Cardinality(DOMAIN routes) <= ROUTING_TABLE_MAX

\* A route that came with a ttl of 0 lives until it is removed, any other for
\* exactly that many age_routes calls.
Alive(id) == history[id].ttl = 0 \/ history[id].agings < history[id].ttl

\* The active flag, which age_routes clears once and nothing sets again, agrees
\* with the age of the route, and ttl is what is left of it: aging others,
\* metric updates and the reuse of a removed id never shorten or stretch a life.
ActiveWhileAlive ==
    \A id \in DOMAIN routes :
        /\ routes[id].active <=> Alive(id)
        /\ Alive(id) => routes[id].ttl + history[id].agings = history[id].ttl
                        \/ history[id].ttl = 0
        /\ history[id].ttl = 0 \/ ~Alive(id) => routes[id].ttl = 0

\* The routes a lookup may answer with: alive, to this destination, and with a
\* metric the scan can tell from its initial bound.
Eligible(dest) ==
    {id \in DOMAIN routes : /\ Alive(id)
                            /\ routes[id].dest_addr = dest
                            /\ routes[id].metric < METRIC_WRAP - 1}

\* Whatever order the hash map is scanned in, a lookup finds a route just when
\* one is eligible, and then one of the cheapest of them with its own next hop.
LookupFindsCheapest ==
    [][\A dest \in Dests :
          Lookup(dest) =>
             /\ result'.found <=> Eligible(dest) # {}
             /\ result'.found =>
                   /\ result'.entry \in Eligible(dest)
                   /\ \A id \in Eligible(dest) :
                         routes[result'.entry].metric <= routes[id].metric
                   /\ routes[result'.entry].next_hops # <<>> =>
                         result'.next_hop = routes[result'.entry].next_hops[1] % 65536]_vars

=============================================================================
