--------------------------- MODULE MCPriorityFirst ---------------------------
(* Small instances of PriorityFirst. *)
EXTENDS PriorityFirst

F(a, b, t, u, p) == [airport_from |-> a, airport_to |-> b,
                     datetime_from |-> 10 + t, datetime_to |-> 10 + u, price |-> p]

(* Four airports and times 10..13.  Nodes 2@11 and 3@11 are reached in     *)
(* several ways, 3@13 from both, flights 3 and 10 are two records of one   *)
(* route that land together, flight 8 returns to the start, airport 4 is   *)
(* two flights away from it and airport 5 has none.                        *)
MCRecord ==
  << F(1,2,0,1,1), F(1,3,0,1,2), F(1,3,1,3,4), F(2,3,1,3,1), F(2,3,1,2,2),
     F(3,2,1,2,1), F(3,2,2,3,3), F(2,1,1,2,1), F(3,4,1,2,1), F(1,3,0,3,1) >>

MCFlight == 1..Len(MCRecord)
MCDatabases == {d \in SUBSET MCFlight : Cardinality(d) \in 1..4}

N(a, t) == [airport |-> a, no_sooner_than |-> 10 + t]

MCTourQueries ==
  {[op |-> "bfs", from |-> N(a, t), to |-> N(a, t), limit |-> 0] : a \in {1,2,5}, t \in {0,1}}

BestQueries(op) ==
  {[op |-> op, from |-> N(1, t), to |-> N(a, u), limit |-> 0] :
     t \in {0,1}, a \in {1,3,5}, u \in {1,3}}
MCTimeQueries == BestQueries("shortest_path")
MCCostQueries == BestQueries("minimum_cost_path")
MCBestQueries == MCTimeQueries \cup MCCostQueries
=============================================================================
