----------------------------- MODULE SearchGraph -----------------------------
(***************************************************************************)
(* What the depth-first and the priority-first search share: one query of  *)
(* the planner at a time, the graph made for it, the status of its nodes   *)
(* and the listeners that the planner hangs on the graph's two events.     *)
(*                                                                         *)
(* A query builds a new graph, creates its end nodes, hangs its listeners, *)
(* runs the search and converts what it found; the graph dies when the     *)
(* planner's function returns.  The command loop then reads the next query.*)
(***************************************************************************)
EXTENDS FlightGraph

CONSTANTS
  Queries,      \* the queries the user may type
  NoQuery,      \* the command loop waits for a line
  NoNode        \* the null PNode

(* `dfs' and `bfs' list airports; they keep one status per airport by      *)
(* hanging SyncAirportStatus on the graph.                                 *)
TourOps == {"dfs", "bfs"}
Op == TourOps \cup {"all_paths", "shortest_path", "minimum_cost_path"}

(* `limit' is the depth limit of all_paths; `to' repeats `from' in a tour. *)
Query == [op : Op, from : Node, to : Node, limit : Nat]

ASSUME QueriesAssumption == Queries \subseteq Query
ASSUME NullAssumption == NoNode \notin Node /\ NoQuery \notin Query

VARIABLES
  query,        \* the query being answered, or NoQuery
  phase,        \* how far it is
  pool,         \* nodes the graph has created
  status,       \* status of each node; a node not created is UNDISCOVERED
  tour          \* airports listed so far by a tour

Status == {"UNDISCOVERED", "DISCOVERED", "VISITED"}

Undiscovered == [n \in Node |-> "UNDISCOVERED"]

Touring == query.op \in TourOps

(* GetNode throws std::out_of_range for an airport outside the range. *)
EndNodes(q) == IF q.op \in TourOps THEN {q.from} ELSE {q.from, q.to}

InRange(q) == \A n \in EndNodes(q) : Within(n.airport)

-----------------------------------------------------------------------------
(* SyncAirportStatus: the two listeners of a tour give every arrival at    *)
(* the node's airport the node's status, without raising events.           *)
Synchronised(st, a, old, new) ==
  [k \in Node |-> IF k \in ArrivalsAt(a) /\ st[k] = old THEN new ELSE st[k]]

(* Faulty variants: the listener is not hung on the event. *)
DiscoverAlone(op, n) == [status EXCEPT ![n] = "DISCOVERED"]
VisitAlone(op, n) == [status EXCEPT ![n] = "VISITED"]

(* Node::Discover and Node::Visit, with the listeners of the query. *)
StatusOnDiscover(op, n) ==
  IF op \in TourOps
  THEN Synchronised([status EXCEPT ![n] = "DISCOVERED"], n.airport, "UNDISCOVERED", "DISCOVERED")
  ELSE [status EXCEPT ![n] = "DISCOVERED"]

StatusOnVisit(op, n) ==
  IF op \in TourOps
  THEN Synchronised([status EXCEPT ![n] = "VISITED"], n.airport, "DISCOVERED", "VISITED")
  ELSE [status EXCEPT ![n] = "VISITED"]

(* The synchronising listener asks for every arrival, hence creates it. *)
CreatedOnDiscover(op, n) == IF op \in TourOps THEN ArrivalsAt(n.airport) ELSE {}

(* The tour's own listener is hung after SyncAirportStatus. *)
TourOnDiscover(op, n) == IF op \in TourOps THEN Append(tour, n.airport) ELSE tour

(* LoadDiscreteChildren creates the far end of every edge. *)
ChildNodes(n) == {Arrival(f) : f \in DiscreteChildrenOf(n)}

-----------------------------------------------------------------------------
(* Vocabulary of the properties *)

(* All nodes of an airport have one status. *)
OneStatusPerAirport ==
  \A m, n \in {query.from} \cup {Arrival(f) : f \in db} :
     m.airport = n.airport => status[m] = status[n]

(* The nodes that a search from the query's start may still discover. *)
Unseen == {n \in NodesFrom(query.from) : status[n] = "UNDISCOVERED"}

TourRepeatsNothing ==
  \A i, j \in 1..Len(tour) : tour[i] = tour[j] => i = j
=============================================================================
