---------------------------- MODULE MCDepthFirst ----------------------------
(* Small instances of DepthFirst. *)
EXTENDS DepthFirst

F(a, b, t, u) == [airport_from |-> a, airport_to |-> b,
                  datetime_from |-> 10 + t, datetime_to |-> 10 + u, price |-> 1]

(* Four airports and times 10..13.  Nodes 2@12 and 3@13 are reached in     *)
(* several ways, flights 4 and 9 are two records of one route that land    *)
(* together, flight 7 returns to the start, airport 4 is reached from 2    *)
(* only and airport 5 has no flights.                                      *)
MCRecord ==
  << F(1,2,0,2), F(1,3,0,1), F(3,2,1,2), F(2,3,2,3), F(1,2,1,2),
     F(1,3,1,3), F(2,1,2,3), F(1,2,0,1), F(2,3,1,3), F(2,4,2,3) >>

MCFlight == 1..Len(MCRecord)
MCDatabases == {d \in SUBSET MCFlight : Cardinality(d) \in 1..4}

N(a, t) == [airport |-> a, no_sooner_than |-> 10 + t]

MCTourQueries ==
  {[op |-> "dfs", from |-> N(a, t), to |-> N(a, t), limit |-> 0] : a \in {1,2,5}, t \in {0,1}}

(* The limit of the program is 2; 1 and 3 show that nothing hangs on it. *)
MCPathQueries ==
  {[op |-> "all_paths", from |-> N(1, 0), to |-> N(a, u), limit |-> k] :
     a \in {1,3,4,5}, u \in {1,3}, k \in 1..3}

MCQueries == MCTourQueries \cup MCPathQueries

MCConnectivityQueries == {q \in MCPathQueries : q.limit = 2}
=============================================================================
