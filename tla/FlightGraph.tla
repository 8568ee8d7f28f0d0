----------------------------- MODULE FlightGraph -----------------------------
(***************************************************************************)
(* The time-expanded flight graph that every query of the planner walks.   *)
(*                                                                         *)
(* A node of the graph is an airport together with the time from which a   *)
(* traveller is there (FlightNodeKey).  Its discrete children are the      *)
(* arrivals of the flights that leave the airport at that time or later;   *)
(* its continuous children are the same airport at a later time.  The      *)
(* graph is never stored: edges are computed from the flight records.      *)
(*                                                                         *)
(* `record' gives every flight that may stand in the data file its fields; *)
(* the variable `db' is the set of flights that the data file really has,  *)
(* read once when the planner is built and never changed afterwards.       *)
(***************************************************************************)
EXTENDS Integers, Sequences, FiniteSets

CONSTANTS
  Airport,      \* airport numbers that a record or a query may name
  Time,         \* encoded DateTimes that a record or a query may name
  Flight,       \* flight ids that may occur in a data file
  record,       \* the fields of each of these flights
  Databases,    \* the data files considered, each a set of flight ids
  IntMax        \* INT_MAX: the widths of `int' priorities and weights

Record == [airport_from : Airport, airport_to : Airport,
           datetime_from : Time, datetime_to : Time, price : Nat]

ASSUME RecordAssumption == record \in [Flight -> Record]
ASSUME DomainAssumption == Airport \subseteq Int /\ Time \subseteq Int
ASSUME DatabasesAssumption == Databases \subseteq SUBSET Flight
ASSUME FinitenessAssumption == \A d \in Databases : IsFiniteSet(d)
ASSUME IntMaxAssumption == IntMax \in Nat \ {0}

(* Flights land after they have taken off: true of every line of the data  *)
(* file, and not checked by the loader.                                    *)
ASSUME DurationAssumption ==
  \A f \in Flight : record[f].datetime_from < record[f].datetime_to

VARIABLE db     \* Planner::db

-----------------------------------------------------------------------------
(* Nodes *)

Node == [airport : Airport, no_sooner_than : Time]

(* Faulty variant used to validate the properties: the two numbers of the  *)
(* key are swapped.                                                        *)
SwappedArrival(f) == [airport |-> record[f].datetime_to,
                      no_sooner_than |-> record[f].airport_to]

Arrival(f) == [airport |-> record[f].airport_to,
               no_sooner_than |-> record[f].datetime_to]

(* AirportRange::Within, for the range that InitAirportRange computes:     *)
(* from the lowest to the highest airport of any record.                   *)
Served == UNION {{record[f].airport_from, record[f].airport_to} : f \in db}

Within(a) == ~(\A b \in Served : a < b) /\ ~(\A b \in Served : b < a)

-----------------------------------------------------------------------------
(* Edges *)

(* Faulty variants: the time is ignored; the comparison is off by one. *)
AnyDeparture(n) == {f \in db : record[f].airport_from = n.airport}
LaterDeparture(n) ==
  {f \in db : record[f].airport_from = n.airport /\ record[f].datetime_from > n.no_sooner_than}

DiscreteChildrenOf(n) ==
  {f \in db : /\ record[f].airport_from = n.airport
              /\ record[f].datetime_from >= n.no_sooner_than}

(* Faulty variant: the deadline is ignored. *)
SameAirport(parent, child) == parent.airport = child.airport

IsContinuousChild(parent, child) ==
  /\ parent.airport = child.airport
  /\ parent.no_sooner_than <= child.no_sooner_than

(* The order of the departures bucket, by departure time and then by       *)
(* destination.  std::sort leaves flights equal in both in either order.   *)
Before(f, g) ==
  \/ record[f].datetime_from < record[g].datetime_from
  \/ /\ record[f].datetime_from = record[g].datetime_from
     /\ record[f].airport_to < record[g].airport_to

(* The edges that a loop over `edges' may take next. *)
FirstOf(edges) == {f \in edges : \A g \in edges : ~Before(g, f)}

(* Narrowing to a 32-bit int, and the wrap-around of the debug build. *)
ToInt(x) == ((x + IntMax + 1) % (2 * IntMax + 2)) - (IntMax + 1)

(* Weight of the edge that flight f makes from node n, in the graph that   *)
(* each query uses: FlightGraphCompleteWithTime, ...WithPrice, ...Complete. *)
Weight(op, n, f) ==
  CASE op = "shortest_path" -> ToInt(record[f].datetime_to - n.no_sooner_than)
    [] op = "minimum_cost_path" -> record[f].price
    [] OTHER -> 0

-----------------------------------------------------------------------------
(* Records of the database *)

(* QueryRecordIdsByAirportTo, as the nodes that the callers make of it. *)
ArrivalsAt(a) == {Arrival(f) : f \in {g \in db : record[g].airport_to = a}}

(* Faulty variant: only the arrival is compared. *)
RecordsInto(from, to) == {f \in db : Arrival(f) = to}

(* The records QueryRecordByAirportsAndArrivalTime finds for a path's step. *)
RecordsBetween(from, to) ==
  {f \in db : record[f].airport_from = from.airport /\ Arrival(f) = to}

(* ConvertPath throws unless every step of the path has exactly one record. *)
Convertible(path) ==
  \A i \in 1..(Len(path) - 1) : \E f \in db : RecordsBetween(path[i], path[i+1]) = {f}

ConvertPath(path) ==
  [i \in 1..(Len(path) - 1) |->
     CHOOSE f \in db : f \in RecordsBetween(path[i], path[i+1])]

-----------------------------------------------------------------------------
(* Itineraries and reachability: the vocabulary of the properties, stated  *)
(* of the records and not of the graph that the code computes from them.   *)

(* A traveller who is at node n can catch flight f. *)
Catches(n, f) ==
  /\ f \in db
  /\ record[f].airport_from = n.airport
  /\ record[f].datetime_from >= n.no_sooner_than

(* The traveller can take the flights of s one after another. *)
IsItinerary(n, s) ==
  \A i \in 1..Len(s) : Catches(IF i = 1 THEN n ELSE Arrival(s[i-1]), s[i])

(* The traveller is at the target airport by the deadline. *)
InTime(n, to) == n.airport = to.airport /\ n.no_sooner_than <= to.no_sooner_than

(* Taking the flights of s from n leads to the target by the deadline. *)
Leads(n, s, to) ==
  /\ IsItinerary(n, s)
  /\ InTime(IF s = <<>> THEN n ELSE Arrival(s[Len(s)]), to)

(* Nodes that can be reached from n: those of every set that holds n and   *)
(* is closed under taking a flight.                                        *)
NodesFrom(n) == {n} \cup {Arrival(f) : f \in db}

Closed(S) == \A k \in S : \A f \in db : Catches(k, f) => Arrival(f) \in S

Reachable(n) ==
  {k \in NodesFrom(n) : \A S \in SUBSET NodesFrom(n) : n \in S /\ Closed(S) => k \in S}

(* Every way from `from' to `to' of at most k flights.  No flight is taken *)
(* twice, since each lands after it has taken off.                         *)
Ways(from, to, k) ==
  {s \in UNION {[1..i -> db] : i \in 0..k} : Leads(from, s, to)}

(* No two flights of one route land at the same time. *)
UniqueArrivals ==
  \A f, g \in db : /\ record[f].airport_from = record[g].airport_from
                   /\ Arrival(f) = Arrival(g)
                   => f = g

(* No two flights at all land at one airport at the same time. *)
NoSharedArrival == \A f, g \in db : Arrival(f) = Arrival(g) => f = g
=============================================================================
