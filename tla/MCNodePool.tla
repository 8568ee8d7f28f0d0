----------------------------- MODULE MCNodePool -----------------------------
(* Small instances of NodePool. *)
EXTENDS NodePool

F(a, b, t, u) == [airport_from |-> a, airport_to |-> b,
                  datetime_from |-> 10 + t, datetime_to |-> 10 + u, price |-> 1]

(* Flights 1 and 2 leave 1 and land at one node, 3 leads there from 3, and *)
(* 4 leads back to the start.                                              *)
MCRecord == << F(1,2,0,1), F(1,2,0,1), F(3,2,0,1), F(2,1,1,2), F(1,3,0,2) >>
MCFlight == 1..Len(MCRecord)
MCDatabases == {d \in SUBSET MCFlight : Cardinality(d) \in 1..4}
N(a, t) == [airport |-> a, no_sooner_than |-> 10 + t]
MCWanted == {N(1,0), N(1,1), N(2,1), N(3,0)}
=============================================================================
