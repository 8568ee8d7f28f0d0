---------------------------- MODULE PriorityFirst ----------------------------
(***************************************************************************)
(* AbstractNode::PFS and the queries built on it: the breadth-first tour   *)
(* `bfs' and the best-path queries `shortest_path' and `minimum_cost_path'.*)
(*                                                                         *)
(* The search keeps a heap of discovered nodes, least priority first.  It  *)
(* expands the top node: every undiscovered child gets its priority and    *)
(* its parent, is discovered and pushed; then the node is visited.  A      *)
(* best-path query stops at the first visited node from which the target   *)
(* is only a wait away, by throwing the path out of the visit listener.    *)
(***************************************************************************)
EXTENDS SearchGraph, FiniteSets

VARIABLES
  priority,     \* Node::priority
  parent,       \* Node::parent
  queue,        \* nodes in the heap
  current,      \* the node being expanded, or NoNode
  edges,        \* edges of current that the loop has not taken yet
  walk,         \* GetPath: the node to put in front of the path, or NoNode
  path,         \* GetPath: the path gathered so far
  answer        \* flights returned by a best-path query

search == <<priority, parent, queue, current, edges>>
vars == <<db, query, phase, pool, status, tour, search, walk, path, answer>>

Phases == {"idle", "search", "walk", "convert", "answered", "no path", "error"}

TypeOK ==
  /\ db \in Databases
  /\ query \in Queries \cup {NoQuery}
  /\ phase \in Phases
  /\ pool \in SUBSET Node
  /\ status \in [Node -> Status]
  /\ tour \in Seq(Airport)
  /\ priority \in [Node -> Int]
  /\ parent \in [Node -> Node \cup {NoNode}]
  /\ queue \in SUBSET Node
  /\ current \in Node \cup {NoNode}
  /\ edges \in SUBSET Flight
  /\ walk \in Node \cup {NoNode}
  /\ path \in Seq(Node)
  /\ answer \in Seq(Flight)

-----------------------------------------------------------------------------
(* A graph without nodes, as a query finds it. *)
Unused ==
  /\ query = NoQuery
  /\ pool = {}
  /\ status = Undiscovered
  /\ tour = <<>>
  /\ priority = [n \in Node |-> IntMax]
  /\ parent = [n \in Node |-> NoNode]
  /\ queue = {}
  /\ current = NoNode
  /\ edges = {}
  /\ walk = NoNode
  /\ path = <<>>
  /\ answer = <<>>

Init ==
  /\ db \in Databases
  /\ phase = "idle"
  /\ Unused

(* The query's function up to the loop of PFS: it creates the end nodes    *)
(* and discovers and pushes the start node with priority 0.                *)
Ask(q) ==
  /\ phase = "idle"
  /\ InRange(q)
  /\ query' = q
  /\ phase' = "search"
  /\ pool' = EndNodes(q) \cup CreatedOnDiscover(q.op, q.from)
  /\ status' = StatusOnDiscover(q.op, q.from)
  /\ tour' = TourOnDiscover(q.op, q.from)
  /\ priority' = [priority EXCEPT ![q.from] = 0]
  /\ queue' = {q.from}
  /\ UNCHANGED <<db, parent, current, edges, walk, path, answer>>

(* GetNode throws before anything is searched. *)
AskOutOfRange(q) ==
  /\ phase = "idle"
  /\ ~InRange(q)
  /\ query' = q
  /\ phase' = "error"
  /\ UNCHANGED <<db, pool, status, tour, search, walk, path, answer>>

-----------------------------------------------------------------------------
(* The loop of PFS *)

(* Faulty variant: the comparator of the heap is reversed. *)
Bottom == {n \in queue : \A m \in queue : priority[n] >= priority[m]}

(* The nodes that may be at the top of the heap: ties are not ordered. *)
Top == {n \in queue : \A m \in queue : priority[n] <= priority[m]}

(* Faulty variant: the top is looked at and not removed. *)
Kept(n) == queue

Popped(n) == queue \ {n}

Pop ==
  /\ phase = "search"
  /\ current = NoNode
  /\ \E n \in Top :
       /\ queue' = Popped(n)
       /\ IF status[n] = "DISCOVERED"
          THEN /\ current' = n
               /\ edges' = DiscreteChildrenOf(n)
               /\ pool' = pool \cup ChildNodes(n)
          ELSE UNCHANGED <<current, edges, pool>>
  /\ UNCHANGED <<db, query, phase, status, tour, priority, parent, walk, path, answer>>

(* Faulty variant: the way to the node is not counted. *)
LastLeg(n, f) == IF Touring THEN 1 ELSE ToInt(Weight(query.op, n, f))

(* update_priority: a tour counts flights, a best-path query adds weights. *)
Candidate(n, f) ==
  IF Touring THEN priority[n] + 1 ELSE ToInt(priority[n] + Weight(query.op, n, f))

Better(n, f) == Candidate(n, f) < priority[Arrival(f)]

(* Faulty variant: a child is looked at again until it is visited. *)
Unvisited(n) == status[n] # "VISITED"

Fresh(n) == status[n] = "UNDISCOVERED"

ScanEdge ==
  /\ current # NoNode
  /\ \E f \in FirstOf(edges) :
       LET child == Arrival(f) IN
       /\ edges' = edges \ {f}
       /\ IF Fresh(child)
          THEN /\ IF Touring \/ Better(current, f)
                  THEN priority' = [priority EXCEPT ![child] = Candidate(current, f)]
                  ELSE UNCHANGED priority
               /\ IF ~Touring /\ Better(current, f)
                  THEN parent' = [parent EXCEPT ![child] = current]
                  ELSE UNCHANGED parent
               /\ status' = StatusOnDiscover(query.op, child)
               /\ pool' = pool \cup CreatedOnDiscover(query.op, child)
               /\ tour' = TourOnDiscover(query.op, child)
               /\ queue' = queue \cup {child}
          ELSE UNCHANGED <<priority, parent, status, pool, tour, queue>>
  /\ UNCHANGED <<db, query, phase, current, walk, path, answer>>

(* Visit with its listeners; that of a best-path query may throw the path. *)
Visit ==
  /\ current # NoNode
  /\ edges = {}
  /\ status' = StatusOnVisit(query.op, current)
  /\ current' = NoNode
  /\ IF ~Touring /\ IsContinuousChild(current, query.to)
     THEN phase' = "walk" /\ walk' = current
     ELSE UNCHANGED <<phase, walk>>
  /\ UNCHANGED <<db, query, pool, tour, priority, parent, queue, edges, path, answer>>

(* Faulty variant: the loop ends with one node left in the heap. *)
ExhaustEarly ==
  /\ phase = "search"
  /\ current = NoNode
  /\ Cardinality(queue) <= 1
  /\ phase' = IF Touring THEN "answered" ELSE "no path"
  /\ UNCHANGED <<db, query, pool, status, tour, search, walk, path, answer>>

Exhaust ==
  /\ phase = "search"
  /\ current = NoNode
  /\ queue = {}
  /\ phase' = IF Touring THEN "answered" ELSE "no path"
  /\ UNCHANGED <<db, query, pool, status, tour, search, walk, path, answer>>

-----------------------------------------------------------------------------
(* GetPath follows the parents back; ConvertPath looks the flights up. *)
Backtrack ==
  /\ phase = "walk"
  /\ walk # NoNode
  /\ path' = <<walk>> \o path
  /\ walk' = parent[walk]
  /\ UNCHANGED <<db, query, phase, pool, status, tour, search, answer>>

Backtracked ==
  /\ phase = "walk"
  /\ walk = NoNode
  /\ phase' = "convert"
  /\ UNCHANGED <<db, query, pool, status, tour, search, walk, path, answer>>

Convert ==
  /\ phase = "convert"
  /\ IF Convertible(path)
     THEN phase' = "answered" /\ answer' = ConvertPath(path)
     ELSE phase' = "error" /\ UNCHANGED answer
  /\ UNCHANGED <<db, query, pool, status, tour, search, walk, path>>

(* The planner's function returns: the graph is gone, the command loop     *)
(* prints the answer or the error and reads the next line.                 *)
Return ==
  /\ phase \in {"answered", "no path", "error"}
  /\ phase' = "idle"
  /\ query' = NoQuery
  /\ pool' = {} /\ status' = Undiscovered /\ tour' = <<>>
  /\ priority' = [n \in Node |-> IntMax] /\ parent' = [n \in Node |-> NoNode]
  /\ queue' = {} /\ current' = NoNode /\ edges' = {}
  /\ walk' = NoNode /\ path' = <<>> /\ answer' = <<>>
  /\ UNCHANGED db

Step ==
  \/ Pop \/ ScanEdge \/ Visit \/ Exhaust
  \/ Backtrack \/ Backtracked \/ Convert \/ Return

Next == Step \/ \E q \in Queries : Ask(q) \/ AskOutOfRange(q)

(* A query is straight-line code of one thread: it goes on until it        *)
(* returns.  Nothing obliges the user to type another.                     *)
Spec == Init /\ [][Next]_vars /\ WF_vars(Step)

-----------------------------------------------------------------------------
(***************************************************************************)
(* Properties                                                              *)
(***************************************************************************)

(* The asserts of abstract_node.hpp never fail: what is in the heap and    *)
(* what is being expanded is discovered and not yet visited, although the  *)
(* listeners of a tour discover and visit other nodes behind the search.   *)
AssertsHold ==
  /\ \A n \in queue : status[n] = "DISCOVERED"
  /\ current # NoNode => status[current] = "DISCOVERED" /\ current \notin queue

(* A breadth-first tour lists no airport twice.                            *)
TourOnce == TourRepeatsNothing

(* After each Discover and Visit all nodes of an airport that the tour     *)
(* knows or may come to know agree on the airport's status.                *)
TourCoherent == phase # "idle" /\ query # NoQuery /\ Touring => OneStatusPerAirport

(* Every airport a tour lists can be reached from the start in time.       *)
TourReachable ==
  phase = "answered" /\ Touring =>
    \A i \in 1..Len(tour) : \E n \in Reachable(query.from) : n.airport = tour[i]

(* Both, although an airport is listed by one search and closed by its     *)
(* listeners behind it.                                                    *)
TourIsSound == TourOnce /\ TourReachable

(* The heap of a breadth-first tour holds at most two consecutive levels,  *)
(* none of them above the node being expanded: nodes are discovered level  *)
(* by level.                                                               *)
LevelOrder ==
  phase = "search" /\ Touring =>
    /\ \A m, n \in queue : priority[m] <= priority[n] + 1
    /\ current # NoNode =>
         \A n \in queue : priority[n] \in {priority[current], priority[current] + 1}

(* Every node that was discovered got a priority.  INT_MAX stands for a    *)
(* node not reached yet: a way that costs just as much is not recorded.    *)
Priced == \A n \in Node : status[n] # "UNDISCOVERED" => priority[n] < IntMax

(* The flights a best-path query returns can be taken one after another    *)
(* from the start node on, and the last of them lands at the target        *)
(* airport by the deadline.                                                *)
AnswerIsItinerary ==
  phase = "answered" /\ ~Touring /\ Priced => Leads(query.from, answer, query.to)

(* The times that shortest_path computes with fit into an int.             *)
NoOverflow ==
  \A f \in db : record[f].datetime_to - query.from.no_sooner_than < IntMax

LandsAt == IF answer = <<>> THEN query.from ELSE Arrival(answer[Len(answer)])

(* shortest_path returns the earliest arrival: the target airport cannot   *)
(* be reached before the answer reaches it, although a node that was       *)
(* discovered once is never looked at again.                               *)
ShortestIsEarliest ==
  phase = "answered" /\ query.op = "shortest_path" /\ NoOverflow =>
    \A n \in Reachable(query.from) :
       n.airport = query.to.airport => LandsAt.no_sooner_than <= n.no_sooner_than

(* "No path" is said only when no node from which the target is a wait     *)
(* away can be reached.                                                    *)
NoPathMeansNone ==
  phase = "no path" => ~\E n \in Reachable(query.from) : InTime(n, query.to)

(* A best-path query whose end nodes exist fails only if two flights of    *)
(* one route land at the same time: then ConvertPath throws.               *)
FailsOnlyIfAmbiguous ==
  phase = "error" /\ InRange(query) => ~UniqueArrivals

(* The heap orders raw pointers by a field of the nodes: that field never  *)
(* changes while the node is in the heap.                                  *)
HeapKeysStable ==
  [][\A n \in queue \cap queue' : priority'[n] = priority[n]]_vars

(* shortest_path expands nodes in order of arrival: whatever is in the     *)
(* heap is no earlier than what was visited or is being expanded.          *)
ExpandsInOrder ==
  phase = "search" /\ query.op = "shortest_path" /\ NoOverflow =>
    \A n \in queue : \A m \in Node :
      m = current \/ status[m] = "VISITED" => m.no_sooner_than <= n.no_sooner_than

(* Every query gets an answer or an error, and the command loop goes on.   *)
QueryReturns == (phase # "idle") ~> (phase = "idle")

(* A bound on the steps that a query has still to take.  A node is pushed  *)
(* once and popped once, with at most as many edges as there are flights;  *)
(* the path goes back through ever earlier nodes.                          *)
EarlierNodes ==
  {k \in NodesFrom(query.from) : walk # NoNode /\ k.no_sooner_than <= walk.no_sooner_than}

SearchWork ==
  (Cardinality(db) + 2) * (Cardinality(Unseen) + Cardinality(queue))
  + Cardinality(edges) + (IF current = NoNode THEN 0 ELSE 1)

Work ==
  CASE phase = "search" -> SearchWork + Cardinality(NodesFrom(query.from)) + 4
    [] phase = "walk" -> Cardinality(EarlierNodes) + 3
    [] phase = "convert" -> 2
    [] phase = "idle" -> 0
    [] OTHER -> 1

(* Each step of a query leaves fewer to take: neither the loop of PFS, nor *)
(* the loop that fills its heap, nor that of GetPath along the parents     *)
(* runs for ever.                                                          *)
QueryGetsOn == [][phase # "idle" => Work' \in 0..(Work - 1)]_vars

(* A node that a breadth-first tour discovers itself is expanded whole:    *)
(* at the end every airport a flight leads to from it is listed.           *)
TourFollowsDepartures ==
  phase = "answered" /\ Touring =>
    \A n \in Node : priority[n] < IntMax =>
      \A f \in db : Catches(n, f) => \E i \in 1..Len(tour) : tour[i] = record[f].airport_to

-----------------------------------------------------------------------------
(* Prices of minimum_cost_path *)

PriceOf(s) ==
  LET sum[i \in 0..Len(s)] == IF i = 0 THEN 0 ELSE sum[i-1] + record[s[i]].price
  IN  sum[Len(s)]

Costed == phase = "answered" /\ query.op = "minimum_cost_path"

(* The prices that minimum_cost_path adds up fit into an int. *)
PricesFit ==
  \A f \in db : \A s \in Ways(query.from, Arrival(f), Cardinality(db)) : PriceOf(s) < IntMax

(* minimum_cost_path returns a path of least price if no two flights land  *)
(* at one airport at the same time: each node is then reached by a single  *)
(* flight, first from the cheapest node it can be taken from.              *)
LeastPriceIfNoSharedArrival ==
  Costed /\ NoSharedArrival /\ PricesFit =>
    \A s \in Ways(query.from, query.to, Cardinality(db)) : PriceOf(answer) <= PriceOf(s)

-----------------------------------------------------------------------------
(***************************************************************************)
(* What the documents say and the code does not do                         *)
(***************************************************************************)

(* README: "query_minimum_cost_path"; the requirement asks for the route   *)
(* of least price.  A node keeps the price of the first flight that        *)
(* discovers it, also when a cheaper way to it is found later.             *)
LeastPrice ==
  Costed =>
    \A s \in Ways(query.from, query.to, Cardinality(db)) : PriceOf(answer) <= PriceOf(s)

(* The requirement asks for a breadth-first traversal that arrives at each *)
(* airport once.  The tour expands an airport only at the arrival by which *)
(* it was discovered, and misses what earlier arrivals connect to.         *)
TourComplete ==
  phase = "answered" /\ Touring =>
    \A n \in Reachable(query.from) : \E i \in 1..Len(tour) : tour[i] = n.airport
=============================================================================
