------------------------- MODULE PriorityFirstProofs -------------------------
(***************************************************************************)
(* Theorems about PriorityFirst, for every data file, every set of queries *)
(* and every width of int.                                                 *)
(***************************************************************************)
EXTENDS PriorityFirst, SearchGraphProofs

-----------------------------------------------------------------------------
(* Typing of the operators *)

LEMMA ToIntType == ASSUME NEW x \in Int PROVE ToInt(x) \in Int
<1>1. IntMax \in Int /\ 2 * IntMax + 2 > 0
  BY IntMaxAssumption
<1>2. (x + IntMax + 1) % (2 * IntMax + 2) \in Int
  BY <1>1
<1> QED BY <1>1, <1>2 DEF ToInt

LEMMA WeightType ==
  ASSUME NEW op, NEW n \in Node, NEW f \in Flight PROVE Weight(op, n, f) \in Int
<1>0. record[f] \in Record /\ n.no_sooner_than \in Time
  BY RecordAssumption DEF Node
<1>1. /\ record[f].datetime_to \in Int /\ n.no_sooner_than \in Int
      /\ record[f].price \in Int
  <2>1. record[f].datetime_to \in Time /\ record[f].price \in Nat
    BY <1>0 DEF Record
  <2>2. \A t \in Time : t \in Int
    BY DomainAssumption
  <2>3. \A k \in Nat : k \in Int
    OBVIOUS
  <2>4. n.no_sooner_than \in Int /\ record[f].datetime_to \in Int
    BY <1>0, <2>1, <2>2
  <2>5. record[f].price \in Int
    BY <2>1, <2>3
  <2> QED BY <2>4, <2>5
<1>2. ToInt(record[f].datetime_to - n.no_sooner_than) \in Int
  BY <1>1, ToIntType
<1>3. CASE op = "shortest_path"
  BY <1>2, <1>3 DEF Weight
<1>4. CASE op = "minimum_cost_path"
  BY <1>1, <1>4 DEF Weight
<1>5. CASE op # "shortest_path" /\ op # "minimum_cost_path"
  BY <1>5 DEF Weight
<1> QED BY <1>3, <1>4, <1>5

LEMMA CandidateType ==
  ASSUME TypeOK, NEW n \in Node, NEW f \in Flight PROVE Candidate(n, f) \in Int
<1>1. priority[n] \in Int
  BY DEF TypeOK
<1>2. Weight(query.op, n, f) \in Int
  BY WeightType
<1>3. ToInt(priority[n] + Weight(query.op, n, f)) \in Int
  BY <1>1, <1>2, ToIntType
<1> QED BY <1>1, <1>3 DEF Candidate

LEMMA PoolType ==
  ASSUME TypeOK, NEW op, NEW n
  PROVE  /\ CreatedOnDiscover(op, n) \subseteq Node
         /\ ChildNodes(n) \subseteq Node
         /\ DiscreteChildrenOf(n) \subseteq Flight
<1>1. db \subseteq Flight
  BY DatabasesAssumption DEF TypeOK
<1> QED BY <1>1, ArrivalType DEF CreatedOnDiscover, ArrivalsAt, ChildNodes, DiscreteChildrenOf

LEMMA ConvertType ==
  ASSUME TypeOK, Convertible(path) PROVE ConvertPath(path) \in Seq(Flight)
<1>1. db \subseteq Flight
  BY DatabasesAssumption DEF TypeOK
<1>2. Len(path) \in Nat
  BY DEF TypeOK
<1>3. \A i \in 1..(Len(path) - 1) :
        (CHOOSE f \in db : f \in RecordsBetween(path[i], path[i+1])) \in Flight
  BY <1>1 DEF Convertible
<1>4. CASE Len(path) = 0
  <2>1. ConvertPath(path) = [i \in 1..0 |-> CHOOSE f \in db : f \in RecordsBetween(path[i], path[i+1])]
    BY <1>4 DEF ConvertPath
  <2> QED BY <1>3, <1>4, <2>1
<1>5. CASE Len(path) > 0
  <2>1. Len(path) - 1 \in Nat
    BY <1>2, <1>5
  <2> QED BY <1>3, <2>1 DEF ConvertPath
<1> QED BY <1>2, <1>4, <1>5

LEMMA TypingInit == Init => TypeOK
<1> SUFFICES ASSUME Init PROVE TypeOK
  OBVIOUS
<1>1. IntMax \in Int
  BY IntMaxAssumption
<1> QED BY <1>1 DEF Init, Unused, TypeOK, Phases, Undiscovered, Status

LEMMA TypingStep == TypeOK /\ [Next]_vars => TypeOK'
<1> SUFFICES ASSUME TypeOK, [Next]_vars PROVE TypeOK'
  OBVIOUS
<1>1. ASSUME NEW q \in Queries, Ask(q) PROVE TypeOK'
  <2>1. q \in Query /\ q.from \in Node /\ q.to \in Node
    BY QueriesAssumption DEF Query
  <2>2. q.from.airport \in Airport
    BY <2>1 DEF Node
  <2>3. EndNodes(q) \subseteq Node /\ CreatedOnDiscover(q.op, q.from) \subseteq Node
    BY <2>1, PoolType DEF EndNodes
  <2>4. status' \in [Node -> Status]
    BY <1>1, <2>1, StatusType DEF Ask, TypeOK
  <2>5. tour' \in Seq(Airport)
    BY <1>1, <2>2 DEF Ask, TourOnDiscover, TypeOK
  <2> QED BY <1>1, <2>1, <2>3, <2>4, <2>5 DEF Ask, TypeOK, Phases
<1>2. ASSUME NEW q \in Queries, AskOutOfRange(q) PROVE TypeOK'
  BY <1>2 DEF AskOutOfRange, search, TypeOK, Phases
<1>3. CASE Pop
  <2>1. PICK n \in Top :
          /\ queue' = Popped(n)
          /\ IF status[n] = "DISCOVERED"
             THEN /\ current' = n
                  /\ edges' = DiscreteChildrenOf(n)
                  /\ pool' = pool \cup ChildNodes(n)
             ELSE UNCHANGED <<current, edges, pool>>
    BY <1>3 DEF Pop
  <2>2. n \in Node /\ queue' \subseteq Node
    BY <2>1 DEF TypeOK, Top, Popped
  <2>3. current' \in Node \cup {NoNode} /\ edges' \subseteq Flight /\ pool' \subseteq Node
    BY <2>1, <2>2, PoolType DEF TypeOK
  <2> QED BY <1>3, <2>2, <2>3 DEF Pop, TypeOK
<1>4. CASE ScanEdge
  <2>1. PICK f \in FirstOf(edges) :
          LET child == Arrival(f) IN
          /\ edges' = edges \ {f}
          /\ IF Fresh(child)
             THEN /\ IF Touring \/ Better(current, f)
                     THEN priority' = [priority EXCEPT ![child] = Candidate(current, f)]
                     ELSE UNCHANGED priority
                  /\ IF ~Touring /\ Better(current, f)
                     THEN parent' = [parent EXCEPT ![child] = current]
                     ELSE UNCHANGED parent
                  /\ status' = StatusOnDiscover(query.op, child)
                  /\ pool' = pool \cup CreatedOnDiscover(query.op, child)
                  /\ tour' = TourOnDiscover(query.op, child)
                  /\ queue' = queue \cup {child}
             ELSE UNCHANGED <<priority, parent, status, pool, tour, queue>>
    BY <1>4 DEF ScanEdge
  <2>2. f \in Flight /\ Arrival(f) \in Node /\ current \in Node
    BY <1>4, <2>1, ArrivalType DEF TypeOK, FirstOf, ScanEdge
  <2>3. Candidate(current, f) \in Int
    BY <2>2, CandidateType
  <2>4. priority' \in [Node -> Int]
    BY <2>1, <2>3 DEF TypeOK
  <2>5. parent' \in [Node -> Node \cup {NoNode}]
    BY <2>1, <2>2 DEF TypeOK
  <2>6. status' \in [Node -> Status]
    BY <2>1, <2>2, StatusType DEF TypeOK
  <2>7. pool' \subseteq Node /\ queue' \subseteq Node /\ edges' \subseteq Flight
    BY <2>1, <2>2, PoolType DEF TypeOK
  <2>8. Arrival(f).airport \in Airport
    BY <2>2 DEF Node
  <2>9. tour' \in Seq(Airport)
    <3>1. tour' = tour \/ tour' = Append(tour, Arrival(f).airport)
      BY <2>1 DEF TourOnDiscover
    <3>2. tour \in Seq(Airport)
      BY DEF TypeOK
    <3>3. Append(tour, Arrival(f).airport) \in Seq(Airport)
      BY <2>8, <3>2
    <3> QED BY <3>1, <3>2, <3>3
  <2> QED BY <1>4, <2>4, <2>5, <2>6, <2>7, <2>9 DEF ScanEdge, TypeOK
<1>5. CASE Visit
  <2>1. current \in Node
    BY <1>5 DEF Visit, TypeOK
  <2>2. status' \in [Node -> Status]
    BY <1>5, <2>1, StatusType DEF Visit, TypeOK
  <2> QED BY <1>5, <2>1, <2>2 DEF Visit, TypeOK, Phases
<1>6. CASE Exhaust
  BY <1>6 DEF Exhaust, search, TypeOK, Phases
<1>7. CASE Backtrack
  <2>1. walk \in Node
    BY <1>7 DEF Backtrack, TypeOK
  <2>2. path' \in Seq(Node) /\ walk' \in Node \cup {NoNode}
    BY <1>7, <2>1 DEF Backtrack, TypeOK
  <2> QED BY <1>7, <2>2 DEF Backtrack, search, TypeOK
<1>8. CASE Backtracked
  BY <1>8 DEF Backtracked, search, TypeOK, Phases
<1>9. CASE Convert
  <2>1. answer' \in Seq(Flight)
    BY <1>9, ConvertType DEF Convert, TypeOK
  <2>2. phase' \in Phases
    BY <1>9 DEF Convert, Phases
  <2> QED BY <1>9, <2>1, <2>2 DEF Convert, search, TypeOK
<1>10. CASE Return
  <2>1. IntMax \in Int
    BY IntMaxAssumption
  <2>2. /\ priority' \in [Node -> Int] /\ status' \in [Node -> Status]
        /\ parent' \in [Node -> Node \cup {NoNode}]
    BY <1>10, <2>1 DEF Return, Undiscovered, Status
  <2>3. tour' \in Seq(Airport) /\ path' \in Seq(Node) /\ answer' \in Seq(Flight)
    <3>1. tour' = <<>> /\ path' = <<>> /\ answer' = <<>>
      BY <1>10 DEF Return
    <3>2. <<>> \in Seq(Airport) /\ <<>> \in Seq(Node) /\ <<>> \in Seq(Flight)
      OBVIOUS
    <3> QED BY <3>1, <3>2
  <2> QED BY <1>10, <2>2, <2>3 DEF Return, TypeOK, Phases
<1>11. CASE UNCHANGED vars
  BY <1>11 DEF vars, search, TypeOK
<1> QED BY <1>1, <1>2, <1>3, <1>4, <1>5, <1>6, <1>7, <1>8, <1>9, <1>10, <1>11 DEF Next, Step

(* The types of the variables, in every state of every session.            *)
THEOREM Typing == Spec => []TypeOK
BY TypingInit, TypingStep, PTL DEF Spec

-----------------------------------------------------------------------------
(***************************************************************************)
(* The asserts of the search, and the tour.  None of the three properties  *)
(* is inductive: that a freshly discovered child is not yet listed, and    *)
(* that no node in the heap is visited behind the search, both hang on     *)
(* there being one open node per airport, and that one on the nodes of an  *)
(* airport having one status.                                              *)
(***************************************************************************)

Open == queue \cup ({current} \ {NoNode})

(* A query is in progress, and a node is expanded only while it searches. *)
Shape ==
  /\ phase = "idle" => Unused
  /\ phase # "idle" => query \in Queries
  /\ current # NoNode => phase = "search" /\ edges \subseteq db

OpenIsDiscovered ==
  /\ \A n \in Open : status[n] = "DISCOVERED"
  /\ current \notin queue

(* While a tour lasts, its open nodes are arrivals of different airports,  *)
(* none of them the start's, and its listed airports are not undiscovered. *)
TourInv ==
  query \in Queries /\ Touring =>
    /\ OneStatusPerAirport
    /\ phase # "error" => status[query.from] # "UNDISCOVERED"
    /\ \A n \in Open : /\ n \in NodesFrom(query.from)
                       /\ n.airport = query.from.airport => n = query.from
    /\ \A m, n \in Open : m.airport = n.airport => m = n
    /\ \A i \in 1..Len(tour) : \A n \in NodesFrom(query.from) :
         n.airport = tour[i] => status[n] # "UNDISCOVERED"

SearchInv == TypeOK /\ Shape /\ OpenIsDiscovered /\ TourInv /\ TourOnce

LEMMA SearchInit == Init => SearchInv
<1> SUFFICES ASSUME Init PROVE SearchInv
  OBVIOUS
<1>1. query \notin Queries
  BY QueriesAssumption, NullAssumption DEF Init, Unused
<1>2. Open = {} /\ current \notin queue /\ tour = <<>> /\ current = NoNode
  BY DEF Init, Unused, Open
<1>3. Shape /\ OpenIsDiscovered
  BY <1>2 DEF Init, Shape, OpenIsDiscovered
<1>4. TourInv
  BY <1>1 DEF TourInv
<1>5. TourOnce
  BY <1>2 DEF TourOnce, TourRepeatsNothing
<1> QED BY <1>3, <1>4, <1>5, TypingInit DEF SearchInv

(* A query starts: its airport is discovered and nothing else.             *)
LEMMA SearchAsk ==
  ASSUME SearchInv, TypeOK', NEW q \in Queries, Ask(q)
  PROVE  SearchInv'
<1> DEFINE K == NodesFrom(q.from)
<1>1. q \in Query /\ q.from \in Node
  BY QueriesAssumption DEF Query
<1>2. /\ query' = q /\ phase' = "search" /\ db' = db /\ queue' = {q.from}
      /\ current' = NoNode /\ edges' = {} /\ q.from # NoNode
      /\ status' = StatusOnDiscover(q.op, q.from)
      /\ tour' = IF q.op \in TourOps THEN <<q.from.airport>> ELSE <<>>
  <2>1. Unused
    BY DEF Ask, SearchInv, Shape
  <2> QED BY <1>1, <2>1, NullAssumption DEF Ask, Unused, TourOnDiscover
<1>3. Open' = {q.from}
  BY <1>2 DEF Open
<1>4. K \subseteq Node
  BY <1>1, ArrivalType, DatabasesAssumption DEF NodesFrom, SearchInv, TypeOK
<1>5. \A k \in Node : status[k] = "UNDISCOVERED"
  BY DEF Ask, SearchInv, Shape, Unused, Undiscovered
<1>6. status'[q.from] = "DISCOVERED"
  BY <1>1, <1>2, DiscoverEffect DEF SearchInv, TypeOK
<1>7. Shape' /\ OpenIsDiscovered'
  BY <1>1, <1>2, <1>3, <1>6 DEF Shape, OpenIsDiscovered
<1>8. TourInv'
  <2> SUFFICES ASSUME q.op \in TourOps PROVE TourInv'
    BY <1>2 DEF TourInv, Touring
  <2>1. \A k \in K : status'[k] = IF k.airport = q.from.airport THEN "DISCOVERED" ELSE "UNDISCOVERED"
    <3> SUFFICES ASSUME NEW k \in K
                 PROVE  status'[k] = IF k.airport = q.from.airport THEN "DISCOVERED" ELSE "UNDISCOVERED"
      OBVIOUS
    <3>1. k \in Node /\ status[k] = "UNDISCOVERED"
      BY <1>4, <1>5
    <3>2. k = q.from \/ \E f \in db : k = Arrival(f)
      BY DEF NodesFrom
    <3>3. k \in ArrivalsAt(q.from.airport) <=> k.airport = q.from.airport /\ \E f \in db : k = Arrival(f)
      BY ArrivalsAtType DEF SearchInv
    <3> QED BY <1>1, <1>2, <3>1, <3>2, <3>3, DiscoverEffect DEF SearchInv, TypeOK
  <2>2. NodesFrom(query.from)' = K
    BY <1>2 DEF NodesFrom, Arrival
  <2>3. OneStatusPerAirport'
    BY <1>2, <2>1, <2>2 DEF OneStatusPerAirport, NodesFrom
  <2>4. q.from \in K
    BY DEF NodesFrom
  <2>5. tour' = <<q.from.airport>> /\ Len(tour') = 1
    BY <1>2
  <2> QED BY <1>2, <1>3, <1>6, <2>1, <2>2, <2>3, <2>4, <2>5 DEF TourInv
<1>9. TourOnce'
  BY <1>2 DEF TourOnce, TourRepeatsNothing
<1> QED BY <1>7, <1>8, <1>9 DEF SearchInv

(* A node is taken off the heap: the open nodes stay the same, or it was   *)
(* not to be expanded and leaves them.                                     *)
LEMMA SearchPop ==
  ASSUME SearchInv, TypeOK', Pop
  PROVE  SearchInv'
<1>1. PICK n \in Top :
        /\ queue' = queue \ {n}
        /\ IF status[n] = "DISCOVERED"
           THEN current' = n /\ edges' = DiscreteChildrenOf(n)
           ELSE UNCHANGED <<current, edges>>
  BY DEF Pop, Popped
<1>2. n \in queue /\ n \in Node
  BY <1>1 DEF Top, SearchInv, TypeOK
<1>3. /\ current = NoNode /\ phase = "search" /\ NoNode \notin Node
      /\ UNCHANGED <<db, query, phase, status, tour>>
  BY NullAssumption DEF Pop
<1>4. Open' \subseteq Open
  BY <1>1, <1>2, <1>3 DEF Open
<1>5. current' \notin queue' /\ (current' # NoNode => edges' \subseteq db')
  <2>1. queue \subseteq Node
    BY DEF SearchInv, TypeOK
  <2>2. CASE status[n] = "DISCOVERED"
    BY <1>1, <1>3, <2>2 DEF DiscreteChildrenOf
  <2>3. CASE status[n] # "DISCOVERED"
    BY <1>1, <1>3, <2>1, <2>3
  <2> QED BY <2>2, <2>3
<1>6. Shape' /\ OpenIsDiscovered'
  BY <1>3, <1>4, <1>5 DEF SearchInv, Shape, OpenIsDiscovered
<1>7. TourInv'
  BY <1>3, <1>4 DEF SearchInv, TourInv, Touring, OneStatusPerAirport, NodesFrom, Arrival
<1>8. TourOnce'
  BY <1>3 DEF SearchInv, TourOnce, TourRepeatsNothing
<1> QED BY <1>6, <1>7, <1>8 DEF SearchInv

(* The loop takes an edge.  The airport of an undiscovered child has no    *)
(* discovered node, hence no open node, and is not listed.                 *)
LEMMA SearchScanEdge ==
  ASSUME SearchInv, TypeOK', ScanEdge
  PROVE  SearchInv'
<1> DEFINE K == NodesFrom(query.from)
<1>1. PICK f \in FirstOf(edges) :
        /\ edges' = edges \ {f}
        /\ IF Fresh(Arrival(f))
           THEN /\ status' = StatusOnDiscover(query.op, Arrival(f))
                /\ tour' = TourOnDiscover(query.op, Arrival(f))
                /\ queue' = queue \cup {Arrival(f)}
           ELSE UNCHANGED <<status, tour, queue>>
  BY DEF ScanEdge
<1> DEFINE child == Arrival(f)
<1>2. /\ current # NoNode /\ current \in Node /\ phase = "search" /\ query \in Queries
      /\ query.from \in Node
      /\ UNCHANGED <<db, query, phase, current>>
  BY QueriesAssumption DEF ScanEdge, SearchInv, Shape, TypeOK, Query
<1>3. f \in db /\ child \in Node /\ child # NoNode /\ child \in K
  <2>1. f \in edges
    BY DEF FirstOf
  <2>2. f \in db
    BY <1>2, <2>1 DEF SearchInv, Shape
  <2> QED BY <2>2, ArrivalType, DatabasesAssumption, NullAssumption DEF SearchInv, TypeOK, NodesFrom
<1>4. Shape'
  BY <1>1, <1>2 DEF SearchInv, Shape
<1>5. K \subseteq Node
  BY <1>2, ArrivalType, DatabasesAssumption DEF NodesFrom, SearchInv, TypeOK
<1>6. NodesFrom(query.from)' = K
  BY <1>2 DEF NodesFrom, Arrival
<1>7. CASE ~Fresh(child)
  <2>1. UNCHANGED <<status, tour, queue>>
    BY <1>1, <1>7
  <2>2. Open' = Open
    BY <1>2, <2>1 DEF Open
  <2>3. OpenIsDiscovered'
    BY <1>2, <2>1, <2>2 DEF SearchInv, OpenIsDiscovered
  <2>4. TourInv' /\ TourOnce'
    BY <1>2, <1>6, <2>1, <2>2
    DEF SearchInv, TourInv, TourOnce, TourRepeatsNothing, Touring, OneStatusPerAirport, Arrival
  <2> QED BY <1>4, <2>3, <2>4 DEF SearchInv
<1>8. CASE Fresh(child)
  <2>1. /\ status' = StatusOnDiscover(query.op, child)
        /\ queue' = queue \cup {child}
        /\ tour' = IF query.op \in TourOps THEN Append(tour, child.airport) ELSE tour
    BY <1>1, <1>8 DEF TourOnDiscover
  <2>2. Open' = Open \cup {child} /\ current \in Open
    BY <1>2, <1>3, <2>1 DEF Open
  <2>3. status[child] = "UNDISCOVERED" /\ child \notin Open /\ child # current
    BY <1>8, <2>2 DEF Fresh, SearchInv, OpenIsDiscovered
  <2>4. OpenIsDiscovered'
    <3>1. \A n \in Open : n \in Node
      BY <1>2 DEF Open, SearchInv, TypeOK
    <3>2. \A n \in Open \cup {child} : status'[n] = "DISCOVERED"
      BY <1>3, <2>1, <3>1, DiscoverEffect DEF SearchInv, OpenIsDiscovered, TypeOK
    <3> QED BY <1>2, <2>1, <2>2, <2>3, <3>2 DEF SearchInv, OpenIsDiscovered
  <2>5. CASE query.op \notin TourOps
    BY <1>2, <1>4, <2>1, <2>4, <2>5
    DEF SearchInv, TourInv, Touring, TourOnce, TourRepeatsNothing
  <2>6. CASE query.op \in TourOps
    <3>1. /\ OneStatusPerAirport
          /\ status[query.from] # "UNDISCOVERED"
          /\ \A n \in Open : /\ n \in K
                             /\ n.airport = query.from.airport => n = query.from
          /\ \A m, n \in Open : m.airport = n.airport => m = n
          /\ \A i \in 1..Len(tour) : \A n \in K :
               n.airport = tour[i] => status[n] # "UNDISCOVERED"
      BY <1>2, <2>6 DEF SearchInv, TourInv, Touring
    <3>2. \A n \in K : n.airport = child.airport => status[n] = "UNDISCOVERED"
      BY <1>3, <2>3, <3>1 DEF OneStatusPerAirport, NodesFrom
    <3>3. query.from \in K /\ child.airport # query.from.airport
      BY <3>1, <3>2 DEF NodesFrom
    <3>4. \A n \in K : status'[n] = IF n.airport = child.airport THEN "DISCOVERED" ELSE status[n]
      <4> SUFFICES ASSUME NEW n \in K
                   PROVE  status'[n] = IF n.airport = child.airport THEN "DISCOVERED" ELSE status[n]
        OBVIOUS
      <4>1. n = query.from \/ \E g \in db : n = Arrival(g)
        BY DEF NodesFrom
      <4>2. n \in ArrivalsAt(child.airport) <=> n.airport = child.airport /\ \E g \in db : n = Arrival(g)
        BY ArrivalsAtType DEF SearchInv
      <4>3. n \in Node
        BY <1>5
      <4> QED BY <1>3, <2>1, <2>6, <3>2, <3>3, <4>1, <4>2, <4>3, DiscoverEffect DEF SearchInv, TypeOK
    <3>5. OneStatusPerAirport'
      BY <1>2, <1>6, <3>1, <3>4 DEF OneStatusPerAirport, NodesFrom
    <3>6. status'[query.from] # "UNDISCOVERED"
      BY <3>1, <3>3, <3>4
    <3>7. \A n \in Open' : n \in K /\ (n.airport = query.from.airport => n = query.from)
      BY <1>3, <2>2, <3>1, <3>3
    <3>8. \A m, n \in Open' : m.airport = n.airport => m = n
      <4>1. \A n \in Open : n.airport # child.airport
        BY <3>1, <3>2 DEF SearchInv, OpenIsDiscovered
      <4> QED BY <2>2, <3>1, <4>1
    <3>9. tour' = Append(tour, child.airport) /\ tour \in Seq(Airport)
      BY <2>1, <2>6 DEF SearchInv, TypeOK
    <3>10. \A i \in 1..Len(tour') : \/ i \in 1..Len(tour) /\ tour'[i] = tour[i]
                                    \/ i = Len(tour) + 1 /\ tour'[i] = child.airport
      BY <1>3, <3>9 DEF Node
    <3>11. \A i \in 1..Len(tour') : \A n \in K : n.airport = tour'[i] => status'[n] # "UNDISCOVERED"
      BY <3>1, <3>4, <3>10
    <3>12. \A i \in 1..Len(tour) : tour[i] # child.airport
      BY <1>3, <2>3, <3>1
    <3>13. TourOnce'
      BY <3>10, <3>12 DEF SearchInv, TourOnce, TourRepeatsNothing
    <3>14. TourInv'
      BY <1>2, <1>6, <3>5, <3>6, <3>7, <3>8, <3>11 DEF TourInv
    <3> QED BY <1>4, <2>4, <3>13, <3>14 DEF SearchInv
  <2> QED BY <2>5, <2>6
<1> QED BY <1>7, <1>8

(* The expanded node is visited.  In a tour this visits the nodes of its   *)
(* airport, of which no other one is open.                                 *)
LEMMA SearchVisit ==
  ASSUME SearchInv, TypeOK', Visit
  PROVE  SearchInv'
<1> DEFINE K == NodesFrom(query.from)
<1>1. /\ current # NoNode /\ current \in Node /\ phase = "search" /\ query \in Queries
      /\ query.from \in Node /\ current \notin queue
      /\ status' = StatusOnVisit(query.op, current)
      /\ current' = NoNode /\ phase' \in {"search", "walk"}
      /\ UNCHANGED <<db, query, queue, tour, edges>>
  BY QueriesAssumption DEF Visit, SearchInv, Shape, TypeOK, Query, OpenIsDiscovered
<1>2. K \subseteq Node
  BY <1>1, ArrivalType, DatabasesAssumption DEF NodesFrom, SearchInv, TypeOK
<1>3. NodesFrom(query.from)' = K
  BY <1>1 DEF NodesFrom, Arrival
<1>4. Open' = queue /\ Open = queue \cup {current} /\ queue \subseteq Node /\ NoNode \notin Node
  BY <1>1, NullAssumption DEF Open, SearchInv, TypeOK
<1>5. Shape' /\ TourOnce'
  BY <1>1 DEF SearchInv, Shape, TourOnce, TourRepeatsNothing
<1>6. CASE query.op \notin TourOps
  <2>1. \A n \in queue : status'[n] = status[n]
    BY <1>1, <1>4, <1>6, VisitEffect DEF SearchInv, TypeOK
  <2> QED
    BY <1>1, <1>4, <1>5, <1>6, <2>1 DEF SearchInv, OpenIsDiscovered, TourInv, Touring
<1>7. CASE query.op \in TourOps
  <2>1. /\ OneStatusPerAirport
        /\ status[query.from] # "UNDISCOVERED"
        /\ \A n \in Open : /\ n \in K
                           /\ n.airport = query.from.airport => n = query.from
        /\ \A m, n \in Open : m.airport = n.airport => m = n
        /\ \A i \in 1..Len(tour) : \A n \in K :
             n.airport = tour[i] => status[n] # "UNDISCOVERED"
    BY <1>1, <1>7 DEF SearchInv, TourInv, Touring
  <2>2. \A n \in K : n.airport = current.airport => status[n] = "DISCOVERED"
    BY <1>4, <2>1 DEF OneStatusPerAirport, NodesFrom, SearchInv, OpenIsDiscovered
  <2>3. \A n \in K : status'[n] = IF n.airport = current.airport THEN "VISITED" ELSE status[n]
    <3> SUFFICES ASSUME NEW n \in K
                 PROVE  status'[n] = IF n.airport = current.airport THEN "VISITED" ELSE status[n]
      OBVIOUS
    <3>1. n = query.from \/ \E g \in db : n = Arrival(g)
      BY DEF NodesFrom
    <3>2. n \in ArrivalsAt(current.airport) <=> n.airport = current.airport /\ \E g \in db : n = Arrival(g)
      BY ArrivalsAtType DEF SearchInv
    <3>3. n \in Node /\ (query.from.airport = current.airport => query.from = current)
      BY <1>2, <1>4, <2>1
    <3> QED BY <1>1, <1>7, <2>2, <3>1, <3>2, <3>3, VisitEffect DEF SearchInv, TypeOK
  <2>4. \A n \in queue : status'[n] = status[n]
    BY <1>1, <1>4, <2>1, <2>3
  <2>5. OpenIsDiscovered'
    BY <1>1, <1>4, <2>4 DEF SearchInv, OpenIsDiscovered
  <2>6. OneStatusPerAirport'
    BY <1>1, <2>1, <2>3 DEF OneStatusPerAirport, NodesFrom, Arrival
  <2>7. query.from \in K
    BY DEF NodesFrom
  <2>8. TourInv'
    BY <1>1, <1>3, <1>4, <2>1, <2>3, <2>6, <2>7 DEF TourInv
  <2> QED BY <1>5, <2>5, <2>8 DEF SearchInv
<1> QED BY <1>6, <1>7

(* The steps that leave the statuses, the heap and the tour alone.         *)
LEMMA SearchOther ==
  ASSUME SearchInv, TypeOK', UNCHANGED <<db, query, status, tour, queue, current, edges>>,
         phase # "idle", phase' # "idle", current # NoNode => phase' = phase,
         phase' = "error" \/ phase # "error"
  PROVE  SearchInv'
<1>1. Open' = Open
  BY DEF Open
<1>2. Shape' /\ OpenIsDiscovered'
  BY <1>1 DEF SearchInv, Shape, OpenIsDiscovered
<1>3. TourInv' /\ TourOnce'
  BY <1>1
  DEF SearchInv, TourInv, TourOnce, TourRepeatsNothing, Touring, OneStatusPerAirport,
      NodesFrom, Arrival
<1> QED BY <1>2, <1>3 DEF SearchInv

LEMMA SearchStep == SearchInv /\ [Next]_vars => SearchInv'
<1> SUFFICES ASSUME SearchInv, [Next]_vars PROVE SearchInv'
  OBVIOUS
<1>1. TypeOK'
  BY TypingStep DEF SearchInv
<1>2. current # NoNode => phase = "search"
  BY DEF SearchInv, Shape
<1>3. ASSUME NEW q \in Queries, Ask(q) PROVE SearchInv'
  BY <1>1, <1>3, SearchAsk
<1>4. ASSUME NEW q \in Queries, AskOutOfRange(q) PROVE SearchInv'
  <2>1. /\ Unused
        /\ query' = q /\ phase' = "error"
        /\ UNCHANGED <<db, pool, status, tour, search, walk, path, answer>>
    BY <1>4 DEF AskOutOfRange, SearchInv, Shape
  <2>2. Open' = {} /\ current' = NoNode /\ current' \notin queue' /\ tour' = <<>>
    BY <2>1 DEF Unused, Open, search
  <2>3. Shape' /\ OpenIsDiscovered' /\ TourOnce'
    BY <2>1, <2>2 DEF Shape, OpenIsDiscovered, TourOnce, TourRepeatsNothing
  <2>4. \A k \in Node : status'[k] = "UNDISCOVERED"
    BY <2>1 DEF Unused, Undiscovered
  <2>5. q.from \in Node
    BY QueriesAssumption DEF Query
  <2>6. {q.from} \cup {Arrival(f) : f \in db} \subseteq Node
    BY <2>5, ArrivalType, DatabasesAssumption DEF SearchInv, TypeOK
  <2>7. OneStatusPerAirport'
    BY <2>1, <2>4, <2>6 DEF OneStatusPerAirport, Arrival
  <2>8. TourInv'
    BY <2>1, <2>2, <2>7 DEF TourInv
  <2> QED BY <1>1, <2>3, <2>8 DEF SearchInv
<1>5. CASE Pop
  BY <1>1, <1>5, SearchPop
<1>6. CASE ScanEdge
  BY <1>1, <1>6, SearchScanEdge
<1>7. CASE Visit
  BY <1>1, <1>7, SearchVisit
<1>8. CASE Exhaust
  BY <1>1, <1>2, <1>8, SearchOther DEF Exhaust, search
<1>9. CASE Backtrack
  BY <1>1, <1>2, <1>9, SearchOther DEF Backtrack, search
<1>10. CASE Backtracked
  BY <1>1, <1>2, <1>10, SearchOther DEF Backtracked, search
<1>11. CASE Convert
  <2>1. phase = "convert" /\ phase' \in {"answered", "error"}
    BY <1>11 DEF Convert
  <2> QED BY <1>1, <1>2, <1>11, <2>1, SearchOther DEF Convert, search
<1>12. CASE Return
  <2>1. query' = NoQuery /\ NoQuery \notin Queries
    BY <1>12, QueriesAssumption, NullAssumption DEF Return
  <2>2. Unused' /\ phase' = "idle"
    BY <1>12 DEF Return, Unused, Undiscovered
  <2>3. Open' = {} /\ current' = NoNode /\ current' \notin queue' /\ tour' = <<>>
    BY <2>2 DEF Unused, Open
  <2>4. Shape' /\ OpenIsDiscovered' /\ TourOnce'
    BY <2>2, <2>3 DEF Shape, OpenIsDiscovered, TourOnce, TourRepeatsNothing
  <2>5. TourInv'
    BY <2>1 DEF TourInv
  <2> QED BY <1>1, <2>4, <2>5 DEF SearchInv
<1>13. CASE UNCHANGED vars
  <2>1. Open' = Open
    BY <1>13 DEF vars, search, Open
  <2>2. Shape' /\ OpenIsDiscovered'
    BY <1>13, <2>1 DEF vars, search, SearchInv, Shape, Unused, OpenIsDiscovered
  <2>3. TourInv' /\ TourOnce'
    BY <1>13, <2>1
    DEF vars, search, SearchInv, TourInv, TourOnce, TourRepeatsNothing, Touring,
        OneStatusPerAirport, NodesFrom, Arrival
  <2> QED BY <1>1, <2>2, <2>3 DEF SearchInv
<1> QED
  BY <1>3, <1>4, <1>5, <1>6, <1>7, <1>8, <1>9, <1>10, <1>11, <1>12, <1>13 DEF Next, Step

(* The asserts of abstract_node.hpp never fail, whatever the query.        *)
THEOREM AssertsNeverFail == Spec => []AssertsHold
<1>1. SearchInv => AssertsHold
  <2> SUFFICES ASSUME SearchInv PROVE AssertsHold
    OBVIOUS
  <2>1. \A n \in queue : n \in Open
    BY DEF Open
  <2>2. current # NoNode => current \in Open
    BY DEF Open
  <2> QED BY <2>1, <2>2 DEF SearchInv, OpenIsDiscovered, AssertsHold
<1> QED BY <1>1, SearchInit, SearchStep, PTL DEF Spec

(* A breadth-first tour lists no airport twice.                            *)
THEOREM TourNeverRepeats == Spec => []TourOnce
<1>1. SearchInv => TourOnce
  BY DEF SearchInv
<1> QED BY <1>1, SearchInit, SearchStep, PTL DEF Spec

(* The nodes of an airport agree on its status throughout a tour.          *)
THEOREM TourStaysCoherent == Spec => []TourCoherent
<1>1. SearchInv => TourCoherent
  <2> SUFFICES ASSUME SearchInv PROVE TourCoherent
    OBVIOUS
  <2>1. query # NoQuery => query \in Queries
    BY DEF SearchInv, TypeOK
  <2> QED BY <2>1 DEF SearchInv, TourInv, TourCoherent
<1> QED BY <1>1, SearchInit, SearchStep, PTL DEF Spec

-----------------------------------------------------------------------------
(* The heap orders raw pointers by a field of the nodes; the field of a    *)
(* node in the heap never changes, because only an undiscovered node gets  *)
(* a priority and what is in the heap is discovered.                       *)
THEOREM HeapKeysNeverChange == Spec => HeapKeysStable
<1> DEFINE Keys == \A n \in queue \cap queue' : priority'[n] = priority[n]
<1>1. SearchInv /\ [Next]_vars => [Keys]_vars
  <2> SUFFICES ASSUME SearchInv, Next PROVE Keys
    OBVIOUS
  <2>1. ASSUME NEW q \in Queries, Ask(q) PROVE Keys
    BY <2>1 DEF Ask, SearchInv, Shape, Unused
  <2>2. ASSUME NEW q \in Queries, AskOutOfRange(q) PROVE Keys
    BY <2>2 DEF AskOutOfRange, search
  <2>3. CASE Pop \/ Visit
    BY <2>3 DEF Pop, Visit
  <2>4. CASE ScanEdge
    <3>1. PICK f \in FirstOf(edges) :
            IF Fresh(Arrival(f))
            THEN priority' = priority
                 \/ priority' = [priority EXCEPT ![Arrival(f)] = Candidate(current, f)]
            ELSE priority' = priority
      BY <2>4 DEF ScanEdge
    <3>2. Fresh(Arrival(f)) => Arrival(f) \notin queue
      BY DEF SearchInv, OpenIsDiscovered, Open, Fresh
    <3> QED BY <3>1, <3>2 DEF SearchInv, TypeOK
  <2>5. CASE Exhaust \/ Backtrack \/ Backtracked \/ Convert
    BY <2>5 DEF Exhaust, Backtrack, Backtracked, Convert, search
  <2>6. CASE Return
    BY <2>6 DEF Return
  <2> QED BY <2>1, <2>2, <2>3, <2>4, <2>5, <2>6 DEF Next, Step
<1> QED BY <1>1, SearchInit, SearchStep, PTL DEF Spec, HeapKeysStable

-----------------------------------------------------------------------------
(***************************************************************************)
(* What the search discovers itself can be reached: its nodes are arrivals *)
(* of flights that can be caught from other such nodes.  What the          *)
(* synchronising listener discovers need not be.                           *)
(***************************************************************************)

ReachInv ==
  /\ SearchInv
  /\ current # NoNode => edges \subseteq DiscreteChildrenOf(current)
  /\ \A n \in Open : n \in Reachable(query.from)
  /\ \A i \in 1..Len(tour) : \E n \in Reachable(query.from) : n.airport = tour[i]

LEMMA ReachInit == Init => ReachInv
<1> SUFFICES ASSUME Init PROVE ReachInv
  OBVIOUS
<1>1. Open = {} /\ current = NoNode /\ Len(tour) = 0
  BY DEF Init, Unused, Open
<1> QED BY <1>1, SearchInit DEF ReachInv

LEMMA ReachScanEdge ==
  ASSUME ReachInv, SearchInv', ScanEdge
  PROVE  ReachInv'
<1>1. PICK f \in FirstOf(edges) :
        /\ edges' = edges \ {f}
        /\ IF Fresh(Arrival(f))
           THEN /\ tour' = TourOnDiscover(query.op, Arrival(f))
                /\ queue' = queue \cup {Arrival(f)}
           ELSE UNCHANGED <<tour, queue>>
  BY DEF ScanEdge
<1>2. current # NoNode /\ UNCHANGED <<db, query, current>>
  BY DEF ScanEdge
<1>3. Reachable(query.from)' = Reachable(query.from)
  BY <1>2, ReachableSame
<1>4. f \in db /\ Catches(current, f) /\ current \in Reachable(query.from)
  BY <1>1, <1>2 DEF ReachInv, FirstOf, DiscreteChildrenOf, Catches, Open
<1>5. Arrival(f) \in Reachable(query.from)
  BY <1>4, ReachableStep
<1>6. edges' \subseteq DiscreteChildrenOf(current)'
  BY <1>1, <1>2 DEF ReachInv, DiscreteChildrenOf
<1>7. \A n \in Open' : n \in Reachable(query.from)
  <2>1. Open' \subseteq Open \cup {Arrival(f)}
    BY <1>1, <1>2 DEF Open
  <2> QED BY <1>5, <2>1 DEF ReachInv
<1>8. \A i \in 1..Len(tour') : \E n \in Reachable(query.from) : n.airport = tour'[i]
  <2>1. Arrival(f).airport \in Airport /\ tour \in Seq(Airport)
    BY <1>4, ArrivalType, DatabasesAssumption DEF ReachInv, SearchInv, TypeOK, Node
  <2>2. tour' = tour \/ tour' = Append(tour, Arrival(f).airport)
    BY <1>1 DEF TourOnDiscover
  <2>3. \A i \in 1..Len(tour') : \/ i \in 1..Len(tour) /\ tour'[i] = tour[i]
                                 \/ tour'[i] = Arrival(f).airport
    BY <2>1, <2>2
  <2> QED BY <1>5, <2>3 DEF ReachInv
<1> QED BY <1>2, <1>3, <1>6, <1>7, <1>8 DEF ReachInv

LEMMA ReachStep == ReachInv /\ [Next]_vars => ReachInv'
<1> SUFFICES ASSUME ReachInv, [Next]_vars PROVE ReachInv'
  OBVIOUS
<1>1. SearchInv' /\ current \notin queue /\ queue \subseteq Node /\ NoNode \notin Node
  BY SearchStep, NullAssumption DEF ReachInv, SearchInv, OpenIsDiscovered, TypeOK
<1>2. ASSUME NEW q \in Queries, Ask(q) PROVE ReachInv'
  <2>1. /\ query' = q /\ queue' = {q.from} /\ current' = NoNode /\ tour = <<>>
        /\ tour' = TourOnDiscover(q.op, q.from)
    BY <1>2 DEF Ask, ReachInv, SearchInv, Shape, Unused
  <2>2. Open' = {q.from}
    <3>1. q.from \in Node
      BY QueriesAssumption DEF Query
    <3> QED BY <1>1, <2>1, <3>1 DEF Open
  <2>3. q.from \in Reachable(query.from)'
    BY <2>1 DEF Reachable, NodesFrom
  <2>4. \A i \in 1..Len(tour') : tour'[i] = q.from.airport
    <3>1. tour' = <<>> \/ tour' = <<q.from.airport>>
      BY <2>1 DEF TourOnDiscover
    <3> QED BY <3>1
  <2> QED BY <1>1, <2>1, <2>2, <2>3, <2>4 DEF ReachInv
<1>3. ASSUME NEW q \in Queries, AskOutOfRange(q) PROVE ReachInv'
  <2>1. current' = NoNode /\ queue' = {} /\ tour' = <<>>
    BY <1>3 DEF AskOutOfRange, search, ReachInv, SearchInv, Shape, Unused
  <2>2. Open' = {} /\ Len(tour') = 0
    BY <2>1 DEF Open
  <2> QED BY <1>1, <2>1, <2>2 DEF ReachInv
<1>4. CASE Pop
  <2>1. PICK n \in queue :
          /\ queue' = queue \ {n}
          /\ IF status[n] = "DISCOVERED"
             THEN current' = n /\ edges' = DiscreteChildrenOf(n)
             ELSE UNCHANGED <<current, edges>>
    BY <1>4 DEF Pop, Popped, Top
  <2>2. UNCHANGED <<db, query, tour>> /\ current = NoNode
    BY <1>4 DEF Pop
  <2>3. Open' \subseteq Open
    BY <1>1, <2>1, <2>2 DEF Open
  <2>4. current' # NoNode => edges' \subseteq DiscreteChildrenOf(current)'
    BY <2>1, <2>2 DEF DiscreteChildrenOf
  <2> QED BY <1>1, <2>2, <2>3, <2>4, ReachableSame DEF ReachInv
<1>5. CASE ScanEdge
  BY <1>1, <1>5, ReachScanEdge
<1>6. CASE Visit
  <2>1. UNCHANGED <<db, query, tour>> /\ queue' = queue /\ current' = NoNode
    BY <1>6 DEF Visit
  <2>2. Open' \subseteq Open
    BY <2>1 DEF Open
  <2> QED BY <1>1, <2>1, <2>2, ReachableSame DEF ReachInv
<1>7. CASE Exhaust \/ Backtrack \/ Backtracked \/ Convert \/ UNCHANGED vars
  <2>1. UNCHANGED <<db, query, tour, queue, current, edges>>
    BY <1>7 DEF Exhaust, Backtrack, Backtracked, Convert, vars, search
  <2>2. Open' = Open /\ DiscreteChildrenOf(current)' = DiscreteChildrenOf(current)
    BY <2>1 DEF Open, DiscreteChildrenOf
  <2> QED BY <1>1, <2>1, <2>2, ReachableSame DEF ReachInv
<1>8. CASE Return
  <2>1. current' = NoNode /\ queue' = {} /\ tour' = <<>>
    BY <1>8 DEF Return
  <2>2. Open' = {} /\ Len(tour') = 0
    BY <2>1 DEF Open
  <2> QED BY <1>1, <2>1, <2>2 DEF ReachInv
<1> QED BY <1>2, <1>3, <1>4, <1>5, <1>6, <1>7, <1>8 DEF Next, Step

(* Every airport a breadth-first tour lists can be reached from the start  *)
(* in time.                                                                *)
THEOREM TourIsReachable == Spec => []TourReachable
<1>1. ReachInv => TourReachable
  BY DEF ReachInv, TourReachable
<1> QED BY <1>1, ReachInit, ReachStep, PTL DEF Spec

(* A breadth-first tour lists no airport twice, and only airports that can *)
(* be reached in time.                                                     *)
THEOREM TourSound == Spec => []TourIsSound
BY TourNeverRepeats, TourIsReachable, PTL DEF TourIsSound

-----------------------------------------------------------------------------
(***************************************************************************)
(* The breadth-first tour as breadth-first search: the heap is a queue of  *)
(* two levels, and what the search discovers itself it expands.            *)
(***************************************************************************)

LevelInv == SearchInv /\ LevelOrder

LEMMA LevelPop == ASSUME LevelInv, Pop PROVE LevelOrder'
<1> SUFFICES ASSUME Touring' PROVE LevelOrder'
  BY DEF LevelOrder
<1>1. PICK n \in Top :
        /\ queue' = queue \ {n}
        /\ IF status[n] = "DISCOVERED" THEN current' = n ELSE current' = current
  BY DEF Pop, Popped
<1>2. /\ current = NoNode /\ phase = "search" /\ Touring
      /\ UNCHANGED <<query, phase, priority>>
  BY DEF Pop, Touring
<1>3. /\ n \in queue /\ queue \subseteq Node
      /\ \A m \in queue : priority[n] <= priority[m] /\ priority[m] \in Int
  BY <1>1 DEF Top, LevelInv, SearchInv, TypeOK
<1>4. \A k, m \in queue : priority[k] <= priority[m] + 1
  BY <1>2 DEF LevelInv, LevelOrder
<1>5. \A m \in queue : priority[m] \in {priority[n], priority[n] + 1}
  BY <1>3, <1>4
<1> QED BY <1>1, <1>2, <1>4, <1>5 DEF LevelOrder

(* A fresh child goes one level below the node being expanded; it was not  *)
(* in the heap, so no priority in the heap changes.                        *)
LEMMA LevelScanEdge == ASSUME LevelInv, ScanEdge PROVE LevelOrder'
<1> SUFFICES ASSUME Touring' PROVE LevelOrder'
  BY DEF LevelOrder
<1>1. PICK f \in FirstOf(edges) :
        IF Fresh(Arrival(f))
        THEN /\ priority' = [priority EXCEPT ![Arrival(f)] = Candidate(current, f)]
             /\ queue' = queue \cup {Arrival(f)}
        ELSE UNCHANGED <<priority, queue>>
  BY DEF ScanEdge, Touring
<1>2. /\ current # NoNode /\ phase = "search" /\ Touring
      /\ UNCHANGED <<query, phase, current>>
  BY DEF ScanEdge, Touring, LevelInv, SearchInv, Shape
<1>3. /\ \A m, n \in queue : priority[m] <= priority[n] + 1
      /\ \A n \in queue : priority[n] \in {priority[current], priority[current] + 1}
  BY <1>2 DEF LevelInv, LevelOrder
<1>4. CASE ~Fresh(Arrival(f))
  BY <1>1, <1>2, <1>3, <1>4 DEF LevelOrder
<1>5. CASE Fresh(Arrival(f))
  <2> DEFINE child == Arrival(f)
  <2>1. child \notin queue /\ child # current
    BY <1>2, <1>5 DEF LevelInv, SearchInv, OpenIsDiscovered, Open, Fresh
  <2>2. child \in Node /\ current \in Node /\ queue \subseteq Node /\ priority \in [Node -> Int]
    BY <1>1, <1>2, ArrivalType DEF FirstOf, LevelInv, SearchInv, TypeOK
  <2>3. Candidate(current, f) = priority[current] + 1
    BY <1>2 DEF Candidate
  <2>4. queue' = queue \cup {child} /\ priority' = [priority EXCEPT ![child] = priority[current] + 1]
    BY <1>1, <1>5, <2>3
  <2>5. priority'[current] = priority[current] /\ priority'[child] = priority[current] + 1
    BY <2>1, <2>2, <2>4
  <2>6. \A n \in queue : priority'[n] = priority[n]
    BY <2>1, <2>2, <2>4
  <2>7. \A n \in queue' : priority'[n] \in {priority[current], priority[current] + 1}
    BY <1>3, <2>4, <2>5, <2>6
  <2>8. priority[current] \in Int
    BY <2>2
  <2>9. \A m, n \in queue' : priority'[m] <= priority'[n] + 1
    BY <2>7, <2>8
  <2> QED BY <1>2, <2>5, <2>7, <2>9 DEF LevelOrder
<1> QED BY <1>4, <1>5

LEMMA LevelStep == LevelInv /\ [Next]_vars => LevelInv'
<1>1. LevelInv /\ [Next]_vars => SearchInv'
  BY SearchStep DEF LevelInv
<1> SUFFICES ASSUME LevelInv, [Next]_vars PROVE LevelOrder'
  BY <1>1 DEF LevelInv
<1>2. ASSUME NEW q \in Queries, Ask(q) PROVE LevelOrder'
  <2>1. /\ q.from \in Node /\ queue' = {q.from} /\ current' = NoNode
        /\ priority' = [priority EXCEPT ![q.from] = 0] /\ priority \in [Node -> Int]
    BY <1>2, QueriesAssumption DEF Ask, Query, LevelInv, SearchInv, TypeOK, Shape, Unused
  <2>2. \A n \in queue' : priority'[n] = 0
    BY <2>1
  <2> QED BY <2>1, <2>2 DEF LevelOrder
<1>3. ASSUME NEW q \in Queries, AskOutOfRange(q) PROVE LevelOrder'
  BY <1>3 DEF AskOutOfRange, LevelOrder
<1>4. CASE Pop
  BY <1>4, LevelPop
<1>5. CASE ScanEdge
  BY <1>5, LevelScanEdge
<1>6. CASE Visit
  <2>1. /\ UNCHANGED <<query, queue, priority>> /\ current' = NoNode
        /\ (Touring => phase = "search")
    BY <1>6 DEF Visit, LevelInv, SearchInv, Shape
  <2> QED BY <2>1 DEF LevelInv, LevelOrder, Touring
<1>7. CASE Exhaust \/ Backtrack \/ Backtracked \/ Convert \/ Return
  <2>1. phase' # "search"
    BY <1>7 DEF Exhaust, Backtrack, Backtracked, Convert, Return
  <2> QED BY <2>1 DEF LevelOrder
<1>8. CASE UNCHANGED vars
  BY <1>8 DEF vars, search, LevelInv, LevelOrder, Touring
<1> QED BY <1>2, <1>3, <1>4, <1>5, <1>6, <1>7, <1>8 DEF Next, Step

(* Nodes are expanded level by level: the heap of a breadth-first tour     *)
(* holds at most two consecutive levels.                                   *)
THEOREM TourGoesByLevels == Spec => []LevelOrder
<1>1. Init => LevelInv
  BY SearchInit DEF Init, LevelInv, LevelOrder
<1>2. LevelInv => LevelOrder
  BY DEF LevelInv
<1> QED BY <1>1, <1>2, LevelStep, PTL DEF Spec

(* Whatever a tour has discovered is listed; of a node with a priority,    *)
(* the search has yet to look at the departures, or the airports that they *)
(* lead to are listed.                                                     *)
Listed(a) == \E i \in 1..Len(tour) : tour[i] = a

Followed(n) == \A f \in db : Catches(n, f) => Listed(record[f].airport_to)

FollowInv ==
  phase \in {"search", "answered"} /\ Touring =>
    /\ phase = "answered" => queue = {}
    /\ \A n \in Node : status[n] # "UNDISCOVERED" => Listed(n.airport)
    /\ current # NoNode =>
         \A f \in db : Catches(current, f) => f \in edges \/ Listed(record[f].airport_to)
    /\ \A n \in Node : priority[n] < IntMax => n \in Open \/ Followed(n)

LEMMA FollowAsk == ASSUME SearchInv, NEW q \in Queries, Ask(q) PROVE FollowInv'
<1> SUFFICES ASSUME Touring' PROVE FollowInv'
  BY DEF FollowInv
<1>1. /\ Unused /\ q.from \in Node /\ q.from.airport \in Airport /\ NoNode \notin Node
      /\ q.op \in TourOps /\ phase' = "search"
      /\ status \in [Node -> Status] /\ status' = StatusOnDiscover(q.op, q.from)
      /\ priority' = [priority EXCEPT ![q.from] = 0]
      /\ tour' = <<q.from.airport>> /\ queue' = {q.from} /\ current' = NoNode
  BY QueriesAssumption, NullAssumption
  DEF Ask, Query, Node, SearchInv, TypeOK, Shape, Unused, Touring, TourOnDiscover
<1>2. Listed(q.from.airport)'
  BY <1>1 DEF Listed
<1>3. \A n \in Node : status'[n] # "UNDISCOVERED" => n.airport = q.from.airport
  <2> SUFFICES ASSUME NEW n \in Node, status'[n] # "UNDISCOVERED" PROVE n.airport = q.from.airport
    OBVIOUS
  <2>1. status[n] = "UNDISCOVERED"
    BY <1>1 DEF Unused, Undiscovered
  <2> QED BY <1>1, <2>1, DiscoverEffect, ArrivalsAtType
<1>4. \A n \in Node : priority'[n] < IntMax => n \in Open'
  <2>1. IntMax \in Int /\ \A n \in Node : n # q.from => priority'[n] = IntMax
    BY <1>1, IntMaxAssumption DEF Unused
  <2> QED BY <1>1, <2>1 DEF Open
<1> QED BY <1>1, <1>2, <1>3, <1>4 DEF FollowInv

(* A fresh child is listed with its airport; the airport of any other      *)
(* child is listed already.                                                *)
LEMMA FollowScanEdge ==
  ASSUME SearchInv, SearchInv', FollowInv, ScanEdge PROVE FollowInv'
<1> SUFFICES ASSUME Touring' PROVE FollowInv'
  BY DEF FollowInv
<1>1. PICK f \in FirstOf(edges) :
        /\ edges' = edges \ {f}
        /\ IF Fresh(Arrival(f))
           THEN /\ priority' = [priority EXCEPT ![Arrival(f)] = Candidate(current, f)]
                /\ status' = StatusOnDiscover(query.op, Arrival(f))
                /\ tour' = TourOnDiscover(query.op, Arrival(f))
                /\ queue' = queue \cup {Arrival(f)}
           ELSE UNCHANGED <<priority, status, tour, queue>>
  BY DEF ScanEdge, Touring
<1>2. /\ current # NoNode /\ phase = "search" /\ Touring /\ current \in Node
      /\ UNCHANGED <<db, query, phase, current>>
  BY DEF ScanEdge, Touring, SearchInv, Shape, TypeOK
<1> DEFINE child == Arrival(f)
<1>3. /\ child \in Node /\ child # NoNode
      /\ child.airport = record[f].airport_to /\ child.airport \in Airport
  BY <1>1, ArrivalType, NullAssumption DEF FirstOf, SearchInv, TypeOK, Arrival, Node
<1>4. /\ \A n \in Node : status[n] # "UNDISCOVERED" => Listed(n.airport)
      /\ \A g \in db : Catches(current, g) => g \in edges \/ Listed(record[g].airport_to)
      /\ \A n \in Node : priority[n] < IntMax => n \in Open \/ Followed(n)
  BY <1>2 DEF FollowInv
<1>5. /\ \A a : Listed(a) => Listed(a)'
      /\ Listed(child.airport)'
  <2>1. tour \in Seq(Airport)
    BY DEF SearchInv, TypeOK
  <2>2. CASE Fresh(child)
    <3>1. tour' = Append(tour, child.airport)
      BY <1>1, <1>2, <2>2 DEF TourOnDiscover, Touring
    <3>2. Len(tour') = Len(tour) + 1 /\ tour'[Len(tour) + 1] = child.airport
          /\ \A i \in 1..Len(tour) : i \in 1..Len(tour') /\ tour'[i] = tour[i]
      BY <1>3, <2>1, <3>1
    <3>3. Len(tour) + 1 \in 1..Len(tour')
      BY <2>1, <3>2
    <3> QED BY <3>2, <3>3 DEF Listed
  <2>3. CASE ~Fresh(child)
    BY <1>1, <1>3, <1>4, <2>3 DEF Fresh, Listed
  <2> QED BY <2>2, <2>3
<1>6. \A n \in Node : status'[n] # "UNDISCOVERED" => status[n] # "UNDISCOVERED" \/ n.airport = child.airport
  <2>1. CASE Fresh(child)
    <3> SUFFICES ASSUME NEW n \in Node
                 PROVE  status'[n] # "UNDISCOVERED" =>
                          status[n] # "UNDISCOVERED" \/ n.airport = child.airport
      OBVIOUS
    <3>1. n \in ArrivalsAt(child.airport) => n.airport = child.airport
      BY ArrivalsAtType
    <3>2. status' = StatusOnDiscover(query.op, child) /\ status \in [Node -> Status]
      BY <1>1, <2>1 DEF SearchInv, TypeOK
    <3> QED BY <1>3, <3>1, <3>2, DiscoverEffect
  <2>2. CASE ~Fresh(child)
    BY <1>1, <2>2
  <2> QED BY <2>1, <2>2
<1>7. \A n \in Node : status'[n] # "UNDISCOVERED" => Listed(n.airport)'
  BY <1>4, <1>5, <1>6
<1>8. \A n : \A g : Catches(n, g)' <=> Catches(n, g)
  BY <1>2 DEF Catches
<1>9. \A n : Followed(n) => Followed(n)'
  BY <1>2, <1>5, <1>8 DEF Followed
<1>10. \A g \in db' : Catches(current, g)' => g \in edges' \/ Listed(record[g].airport_to)'
  BY <1>1, <1>2, <1>3, <1>4, <1>5, <1>8
<1>11. \A n \in Node : priority'[n] < IntMax => n \in Open' \/ Followed(n)'
  <2> SUFFICES ASSUME NEW n \in Node, priority'[n] < IntMax PROVE n \in Open' \/ Followed(n)'
    OBVIOUS
  <2>1. Open \subseteq Open'
    BY <1>1, <1>2 DEF Open
  <2>2. (n = child /\ Fresh(child)) \/ priority'[n] = priority[n]
    BY <1>1 DEF SearchInv, TypeOK
  <2>3. Fresh(child) => child \in Open'
    BY <1>1 DEF Open
  <2> QED BY <1>4, <1>9, <2>1, <2>2, <2>3
<1> QED BY <1>2, <1>7, <1>10, <1>11 DEF FollowInv

(* What the search knows of the tour stays if nothing is listed,           *)
(* discovered or given a priority, and no open node is lost.               *)
LEMMA FollowOther ==
  ASSUME FollowInv, UNCHANGED <<db, query, status, tour, priority>>,
         phase \in {"search", "answered"},
         phase' = "answered" => queue' = {},
         current' # NoNode => \A f \in db : Catches(current', f) => f \in edges' \/ Listed(record[f].airport_to),
         \A n \in Open \ Open' : Followed(n)
  PROVE  FollowInv'
<1> SUFFICES ASSUME Touring PROVE FollowInv'
  BY DEF FollowInv, Touring
<1>1. /\ \A n \in Node : status[n] # "UNDISCOVERED" => Listed(n.airport)
      /\ \A n \in Node : priority[n] < IntMax => n \in Open \/ Followed(n)
  BY DEF FollowInv
<1>2. \A a : Listed(a)' <=> Listed(a)
  BY DEF Listed
<1>3. \A n : \A g : (n = current' /\ Catches(current', g) => Catches(n, g)) /\ (Catches(n, g)' <=> Catches(n, g))
  BY DEF Catches
<1>4. \A n : Followed(n)' <=> Followed(n)
  BY <1>2, <1>3 DEF Followed
<1>5. current' # NoNode => \A f \in db' : Catches(current, f)' => f \in edges' \/ Listed(record[f].airport_to)'
  BY <1>2 DEF Catches
<1>6. \A n \in Node : status'[n] # "UNDISCOVERED" => Listed(n.airport)'
  BY <1>1, <1>2
<1>7. \A n \in Node : priority'[n] < IntMax => n \in Open' \/ Followed(n)'
  BY <1>1, <1>4
<1> QED BY <1>5, <1>6, <1>7 DEF FollowInv

(* A tour never has a path to convert. *)
NoPathInTour == Touring => phase \notin {"walk", "convert"}

LEMMA NoPathStep == NoPathInTour /\ [Next]_vars => NoPathInTour'
BY DEF NoPathInTour, Touring, Next, Step, Ask, AskOutOfRange, Pop, ScanEdge, Visit, Exhaust,
       Backtrack, Backtracked, Convert, Return, vars

LEMMA FollowStep ==
  SearchInv /\ SearchInv' /\ NoPathInTour /\ FollowInv /\ [Next]_vars => FollowInv'
<1> SUFFICES ASSUME SearchInv, SearchInv', NoPathInTour, FollowInv, [Next]_vars PROVE FollowInv'
  OBVIOUS
<1>1. ASSUME NEW q \in Queries, Ask(q) PROVE FollowInv'
  BY <1>1, FollowAsk
<1>2. ASSUME NEW q \in Queries, AskOutOfRange(q) PROVE FollowInv'
  BY <1>2 DEF AskOutOfRange, FollowInv
<1>3. CASE Pop
  <2>1. PICK n \in queue :
          /\ queue' = queue \ {n}
          /\ IF status[n] = "DISCOVERED"
             THEN current' = n /\ edges' = DiscreteChildrenOf(n)
             ELSE UNCHANGED <<current, edges>>
    BY <1>3 DEF Pop, Popped, Top
  <2>2. /\ UNCHANGED <<db, query, phase, status, tour, priority>> /\ current = NoNode
        /\ phase = "search" /\ status[n] = "DISCOVERED" /\ n # NoNode
    BY <1>3, NullAssumption DEF Pop, SearchInv, OpenIsDiscovered, Open, TypeOK
  <2>3. Open' = Open
    BY <2>1, <2>2 DEF Open
  <2>4. \A f \in db : Catches(current', f) => f \in edges'
    BY <2>1, <2>2 DEF Catches, DiscreteChildrenOf
  <2> QED BY <2>2, <2>3, <2>4, FollowOther
<1>4. CASE ScanEdge
  BY <1>4, FollowScanEdge
<1>5. CASE Visit
  <2>1. /\ current # NoNode /\ phase = "search" /\ edges = {}
        /\ UNCHANGED <<db, query, tour, priority, queue>> /\ current' = NoNode
        /\ status' = StatusOnVisit(query.op, current)
    BY <1>5 DEF Visit, SearchInv, Shape
  <2> SUFFICES ASSUME Touring PROVE FollowInv'
    BY <2>1 DEF FollowInv, Touring
  <2>2. phase' = "search"
    BY <1>5, <2>1 DEF Visit
  <2>3. /\ \A n \in Node : status[n] # "UNDISCOVERED" => Listed(n.airport)
        /\ Followed(current)
        /\ \A n \in Node : priority[n] < IntMax => n \in Open \/ Followed(n)
    BY <2>1 DEF FollowInv, Followed
  <2>4. \A n \in Node : status'[n] # "UNDISCOVERED" => status[n] # "UNDISCOVERED"
    BY <2>1, VisitEffect DEF SearchInv, TypeOK, OpenIsDiscovered, Open
  <2>5. \A a : Listed(a)' <=> Listed(a)
    BY <2>1 DEF Listed
  <2>6. \A n : \A g : Catches(n, g)' <=> Catches(n, g)
    BY <2>1 DEF Catches
  <2>7. \A n : Followed(n)' <=> Followed(n)
    BY <2>1, <2>5, <2>6 DEF Followed
  <2>8. Open = Open' \cup {current}
    BY <2>1 DEF Open
  <2> QED BY <2>1, <2>2, <2>3, <2>4, <2>5, <2>7, <2>8 DEF FollowInv
<1>6. CASE Exhaust
  <2>1. /\ UNCHANGED <<db, query, status, tour, priority, queue, current>>
        /\ phase = "search" /\ current = NoNode /\ queue = {}
    BY <1>6 DEF Exhaust, search
  <2>2. Open' = Open
    BY <2>1 DEF Open
  <2> QED BY <2>1, <2>2, FollowOther
<1>7. CASE Backtrack \/ Backtracked \/ Convert
  <2>1. phase \in {"walk", "convert"} /\ query' = query
    BY <1>7 DEF Backtrack, Backtracked, Convert
  <2> QED BY <2>1 DEF NoPathInTour, FollowInv, Touring
<1>8. CASE Return
  BY <1>8 DEF Return, FollowInv
<1>9. CASE UNCHANGED vars
  <2> SUFFICES ASSUME phase \in {"search", "answered"}, Touring PROVE FollowInv'
    BY <1>9 DEF vars, FollowInv, Touring
  <2>1. UNCHANGED <<db, query, phase, status, tour, priority, queue, current, edges>>
    BY <1>9 DEF vars, search
  <2>2. Open' = Open
    BY <2>1 DEF Open
  <2> QED BY <2>1, <2>2, FollowOther DEF FollowInv
<1> QED BY <1>1, <1>2, <1>3, <1>4, <1>5, <1>6, <1>7, <1>8, <1>9 DEF Next, Step
(* A node that a breadth-first tour discovers itself is expanded whole:    *)
(* every airport a flight leads to from it is listed in the end.           *)
THEOREM TourExpandsWhole == Spec => []TourFollowsDepartures
<1> DEFINE I == SearchInv /\ NoPathInTour /\ FollowInv
<1>1. Init => I
  BY SearchInit DEF Init, NoPathInTour, FollowInv
<1>2. I /\ [Next]_vars => I'
  BY SearchStep, NoPathStep, FollowStep
<1>3. I => TourFollowsDepartures
  <2> SUFFICES ASSUME I, phase = "answered", Touring PROVE TourFollowsDepartures
    BY DEF TourFollowsDepartures
  <2>1. Open = {}
    BY DEF FollowInv, Open, SearchInv, Shape
  <2> QED BY <2>1 DEF FollowInv, Followed, Listed, TourFollowsDepartures
<1> QED BY <1>1, <1>2, <1>3, PTL DEF Spec

-----------------------------------------------------------------------------
(***************************************************************************)
(* What shortest_path and minimum_cost_path return.                        *)
(*                                                                         *)
(* The argument for shortest_path: the priority of a discovered node is    *)
(* its time since the start, whatever the way it was discovered by; hence  *)
(* nodes are expanded in order of time; hence the visited nodes together   *)
(* with the nodes no earlier than the one where the search stops are       *)
(* closed under taking a flight, and hold every node that can be reached.  *)
(* That for minimum_cost_path is at the head of its own section below.     *)
(***************************************************************************)

(* The inductive invariant *)

BestPath == query \in Queries /\ ~Touring

Undisc(n) == status[n] = "UNDISCOVERED"

(* What has been discovered is open or visited, and the loop leaves no     *)
(* child of a visited node undiscovered.                                   *)
Explored ==
  BestPath /\ phase # "error" =>
    /\ ~Undisc(query.from)
    /\ \A n \in Node : status[n] = "DISCOVERED" => n \in Open
    /\ \A n \in Node : status[n] = "VISITED" =>
         \A f \in db : Catches(n, f) => ~Undisc(Arrival(f))
    /\ current # NoNode =>
         /\ edges \subseteq DiscreteChildrenOf(current)
         /\ \A f \in db \ edges : Catches(current, f) => ~Undisc(Arrival(f))

(* A parent is discovered and has a flight to its child; only the start    *)
(* and a node without a priority have none.                                *)
Parents ==
  BestPath =>
    /\ \A n \in Node : parent[n] # NoNode =>
         /\ ~Undisc(parent[n])
         /\ \E f \in db : Catches(parent[n], f) /\ Arrival(f) = n
    /\ \A n \in Node : Undisc(n) => priority[n] = IntMax
    /\ \A n \in Node : ~Undisc(n) /\ priority[n] < IntMax =>
         n = query.from \/ parent[n] # NoNode

(* The node where the search stops. *)
Last == IF path = <<>> THEN walk ELSE path[Len(path)]

(* The search goes on until it visits a node from which the target is a    *)
(* wait away.                                                              *)
Stopped ==
  /\ phase \in {"walk", "convert", "no path"} => BestPath
  /\ BestPath =>
       /\ phase \in {"search", "no path"} =>
            path = <<>> /\ \A n \in Node : status[n] = "VISITED" => ~InTime(n, query.to)
       /\ phase = "no path" => Open = {}
       /\ phase \in {"walk", "convert", "answered"} =>
            /\ Last \in Node
            /\ status[Last] = "VISITED" /\ InTime(Last, query.to)
            /\ \A n \in Node : status[n] = "VISITED" /\ InTime(n, query.to) => n = Last

(* GetPath follows the parents. *)
Chained ==
  BestPath =>
    /\ path # <<>> =>
         /\ ~Undisc(path[1])
         /\ phase = "walk" => walk = parent[path[1]]
         /\ phase \in {"convert", "answered"} => parent[path[1]] = NoNode
    /\ phase \in {"convert", "answered"} => path # <<>>
    /\ \A i \in 1..(Len(path) - 1) :
         \E f \in db : Catches(path[i], f) /\ Arrival(f) = path[i+1]
    /\ phase = "answered" => Convertible(path) /\ answer = ConvertPath(path)

(* Nodes are expanded in order of time. *)
Ordered ==
  BestPath /\ query.op = "shortest_path" /\ NoOverflow =>
    /\ \A n \in Node : ~Undisc(n) =>
         /\ n.no_sooner_than >= query.from.no_sooner_than
         /\ priority[n] = n.no_sooner_than - query.from.no_sooner_than
         /\ priority[n] < IntMax
    /\ \A m \in Node : status[m] = "VISITED" =>
         \A n \in Open : m.no_sooner_than <= n.no_sooner_than
    /\ current # NoNode =>
         \A n \in queue : current.no_sooner_than <= n.no_sooner_than

BestInv == SearchInv /\ Explored /\ Parents /\ Stopped /\ Chained /\ Ordered /\ FailsOnlyIfAmbiguous

-----------------------------------------------------------------------------
(* Lemmas *)

LEMMA ToIntFits == ASSUME NEW x \in 0..IntMax PROVE ToInt(x) = x
<1>1. IntMax \in Nat
  BY IntMaxAssumption
<1>2. x + IntMax + 1 \in 0..(2 * IntMax + 1)
  BY <1>1
<1>3. (x + IntMax + 1) % (2 * IntMax + 2) = x + IntMax + 1
  BY <1>1, <1>2
<1> QED BY <1>1, <1>3 DEF ToInt

(* Time passes on a flight, and times are numbers. *)
LEMMA FlightTakesTime ==
  ASSUME TypeOK, NEW n \in Node, NEW f \in db, Catches(n, f)
  PROVE  /\ Arrival(f) \in Node
         /\ n.no_sooner_than < Arrival(f).no_sooner_than
         /\ Arrival(f).no_sooner_than = record[f].datetime_to
<1>1. f \in Flight
  BY DatabasesAssumption DEF TypeOK
<1>2. record[f] \in Record
  BY <1>1, RecordAssumption
<1>3. record[f].datetime_from \in Time /\ record[f].datetime_to \in Time
  BY <1>2 DEF Record
<1>4. n.no_sooner_than \in Time
  BY DEF Node
<1>5. \A t \in Time : t \in Int
  BY DomainAssumption
<1>6. record[f].datetime_from < record[f].datetime_to
  BY <1>1, DurationAssumption
<1>7. record[f].datetime_from >= n.no_sooner_than
  BY DEF Catches
<1>8. n.no_sooner_than < record[f].datetime_to
  BY <1>3, <1>4, <1>5, <1>6, <1>7
<1> QED BY <1>1, <1>8, ArrivalType DEF Arrival

LEMMA TimeType == ASSUME NEW n \in Node PROVE n.no_sooner_than \in Int
<1>1. n.no_sooner_than \in Time
  BY DEF Node
<1> QED BY <1>1, DomainAssumption

LEMMA QueryType ==
  ASSUME NEW q \in Queries
  PROVE  q.from \in Node /\ q.to \in Node /\ q.op \in Op
BY QueriesAssumption DEF Query

(* The operators that depend on the records and the query only. *)
LEMMA SameQuery ==
  ASSUME UNCHANGED <<db, query>>
  PROVE  /\ BestPath' <=> BestPath
         /\ NoOverflow' <=> NoOverflow
         /\ \A n, f : Catches(n, f)' <=> Catches(n, f)
         /\ \A n : InTime(n, query.to)' <=> InTime(n, query.to)
         /\ \A n : DiscreteChildrenOf(n)' = DiscreteChildrenOf(n)
BY DEF BestPath, Touring, NoOverflow, Catches, InTime, DiscreteChildrenOf

(* Only a query that ends in an error has to do with the last conjunct,    *)
(* and only the queries for a best path with the others.                   *)
LEMMA NotBestPath ==
  ASSUME SearchInv', ~BestPath', phase' \notin {"walk", "convert", "no path", "error"}
  PROVE  BestInv'
BY DEF BestInv, Explored, Parents, Stopped, Chained, Ordered, FailsOnlyIfAmbiguous

-----------------------------------------------------------------------------
(* The invariant is inductive *)

LEMMA BestInit == Init => BestInv
<1> SUFFICES ASSUME Init PROVE BestInv
  OBVIOUS
<1>1. query \notin Queries /\ phase = "idle"
  BY QueriesAssumption, NullAssumption DEF Init, Unused
<1>2. ~BestPath
  BY <1>1 DEF BestPath
<1> QED
  BY <1>1, <1>2, SearchInit
  DEF BestInv, Explored, Parents, Stopped, Chained, Ordered, FailsOnlyIfAmbiguous

LEMMA BestPop ==
  ASSUME BestInv, SearchInv', Pop
  PROVE  BestInv'
<1>1. /\ phase = "search" /\ current = NoNode /\ NoNode \notin Node
      /\ UNCHANGED <<db, query, phase, status, priority, parent, walk, path, answer>>
  BY NullAssumption DEF Pop
<1>2. CASE ~BestPath
  BY <1>1, <1>2, NotBestPath, SameQuery
<1>3. CASE BestPath
  <2>1. PICK n \in Top :
          /\ queue' = queue \ {n}
          /\ IF status[n] = "DISCOVERED"
             THEN current' = n /\ edges' = DiscreteChildrenOf(n)
             ELSE UNCHANGED <<current, edges>>
    BY DEF Pop, Popped
  <2>2. n \in queue /\ n \in Node /\ n # NoNode /\ queue \subseteq Node
    BY <1>1, <2>1 DEF Top, BestInv, SearchInv, TypeOK
  <2>3. status[n] = "DISCOVERED"
    BY <2>2 DEF BestInv, SearchInv, OpenIsDiscovered, Open
  <2>4. current' = n /\ edges' = DiscreteChildrenOf(n) /\ Open' = Open
    BY <1>1, <2>1, <2>2, <2>3 DEF Open
  <2>5. Explored'
    <3>1. \A f \in db \ DiscreteChildrenOf(n) : ~Catches(n, f)
      BY DEF DiscreteChildrenOf, Catches
    <3> QED BY <1>1, <1>3, <2>4, <3>1, SameQuery DEF BestInv, Explored, Undisc
  <2>6. Parents' /\ Stopped' /\ Chained' /\ FailsOnlyIfAmbiguous'
    BY <1>1, <1>3, <2>4, SameQuery
    DEF BestInv, Parents, Stopped, Chained, FailsOnlyIfAmbiguous, Undisc, Last, Arrival
  <2>7. Ordered'
    <3> SUFFICES ASSUME query.op = "shortest_path", NoOverflow PROVE Ordered'
      BY <1>1, SameQuery DEF Ordered
    <3>1. \A k \in queue : n.no_sooner_than <= k.no_sooner_than
      <4> SUFFICES ASSUME NEW k \in queue PROVE n.no_sooner_than <= k.no_sooner_than
        OBVIOUS
      <4>1. k \in Node /\ ~Undisc(k) /\ ~Undisc(n)
        BY <2>2 DEF BestInv, SearchInv, OpenIsDiscovered, Open, Undisc
      <4>2. priority[n] <= priority[k]
        BY <2>1 DEF Top
      <4>3. /\ priority[n] = n.no_sooner_than - query.from.no_sooner_than
            /\ priority[k] = k.no_sooner_than - query.from.no_sooner_than
        BY <1>3, <2>2, <4>1 DEF BestInv, Ordered
      <4>4. query.from \in Node
        BY <1>3, QueryType DEF BestPath
      <4> QED BY <2>2, <4>1, <4>2, <4>3, <4>4, TimeType
    <3> QED BY <1>1, <1>3, <2>1, <2>4, <3>1 DEF BestInv, Ordered, Undisc
  <2> QED BY <2>5, <2>6, <2>7 DEF BestInv
<1> QED BY <1>2, <1>3

(* A discovered child keeps the graph's books: it is open, its parent has  *)
(* a flight to it, and its priority is its time since the start.           *)
LEMMA BestScanEdge ==
  ASSUME BestInv, SearchInv', ScanEdge
  PROVE  BestInv'
<1>1. /\ current # NoNode /\ current \in Node /\ phase = "search" /\ NoNode \notin Node
      /\ UNCHANGED <<db, query, phase, current, walk, path, answer>>
  BY NullAssumption DEF ScanEdge, BestInv, SearchInv, Shape, TypeOK
<1>2. CASE ~BestPath
  BY <1>1, <1>2, NotBestPath, SameQuery
<1>3. CASE BestPath
  <2>1. PICK f \in FirstOf(edges) :
          /\ edges' = edges \ {f}
          /\ IF Fresh(Arrival(f))
             THEN /\ IF Better(current, f)
                     THEN /\ priority' = [priority EXCEPT ![Arrival(f)] = Candidate(current, f)]
                          /\ parent' = [parent EXCEPT ![Arrival(f)] = current]
                     ELSE UNCHANGED <<priority, parent>>
                  /\ status' = StatusOnDiscover(query.op, Arrival(f))
                  /\ queue' = queue \cup {Arrival(f)}
             ELSE UNCHANGED <<priority, parent, status, queue>>
    BY <1>3 DEF ScanEdge, BestPath
  <2> DEFINE child == Arrival(f)
  <2>2. f \in db /\ Catches(current, f)
    <3>1. f \in edges /\ edges \subseteq DiscreteChildrenOf(current)
      BY <1>1, <1>3, <2>1 DEF FirstOf, BestInv, Explored
    <3> QED BY <3>1 DEF DiscreteChildrenOf, Catches
  <2>3. /\ child \in Node /\ child.no_sooner_than = record[f].datetime_to
        /\ current.no_sooner_than < child.no_sooner_than
    BY <1>1, <2>2, FlightTakesTime DEF BestInv, SearchInv
  <2>4. status[current] = "DISCOVERED" /\ current \in Open
    BY <1>1 DEF BestInv, SearchInv, OpenIsDiscovered, Open
  <2>5. CASE ~Fresh(child)
    <3>1. UNCHANGED <<priority, parent, status, queue>> /\ Open' = Open
      BY <1>1, <2>1, <2>5 DEF Open
    <3>2. ~Undisc(child)
      BY <2>5 DEF Fresh, Undisc
    <3>3. Explored'
      BY <1>1, <1>3, <2>1, <3>1, <3>2, SameQuery DEF BestInv, Explored, Undisc, Arrival
    <3>4. Parents' /\ Stopped' /\ Chained' /\ FailsOnlyIfAmbiguous' /\ Ordered'
      BY <1>1, <1>3, <3>1, SameQuery
      DEF BestInv, Parents, Stopped, Chained, Ordered, FailsOnlyIfAmbiguous, Undisc, Last, Arrival
    <3> QED BY <3>3, <3>4 DEF BestInv
  <2>6. CASE Fresh(child)
    <3>1. /\ status' = [status EXCEPT ![child] = "DISCOVERED"]
          /\ queue' = queue \cup {child}
          /\ status[child] = "UNDISCOVERED"
          /\ child # current
      BY <1>3, <2>1, <2>4, <2>6 DEF Fresh, StatusOnDiscover, BestPath, Touring
    <3>2. Open' = Open \cup {child}
      BY <1>1, <2>3, <3>1 DEF Open
    <3>3. /\ \A n \in Node : n # child => status'[n] = status[n]
          /\ status'[child] = "DISCOVERED"
      BY <2>3, <3>1 DEF BestInv, SearchInv, TypeOK
    <3>4. Explored'
      <4>1. \A g \in db : Arrival(g) \in Node
        BY ArrivalType, DatabasesAssumption DEF BestInv, SearchInv, TypeOK
      <4>2. \A n \in Node : ~Undisc(n) => ~Undisc(n)'
        BY <3>3 DEF Undisc
      <4>3. ~Undisc(child)'
        BY <3>3 DEF Undisc
      <4>4. query.from \in Node
        BY <1>3, QueryType DEF BestPath
      <4>5. ~Undisc(query.from)'
        BY <1>1, <1>3, <4>2, <4>4 DEF BestInv, Explored, Undisc
      <4>6. \A n \in Node : status'[n] = "DISCOVERED" => n \in Open'
        BY <1>1, <1>3, <3>2, <3>3 DEF BestInv, Explored
      <4>7. \A n \in Node : status'[n] = "VISITED" =>
              \A g \in db : Catches(n, g) => ~Undisc(Arrival(g))'
        BY <1>1, <1>3, <3>3, <4>1, <4>2 DEF BestInv, Explored
      <4>8. /\ edges' \subseteq DiscreteChildrenOf(current)
            /\ \A g \in db \ edges' : Catches(current, g) => ~Undisc(Arrival(g))'
        BY <1>1, <1>3, <2>1, <4>1, <4>2, <4>3 DEF BestInv, Explored
      <4> QED
        BY <1>1, <4>5, <4>6, <4>7, <4>8, SameQuery DEF Explored, Undisc, Arrival
    <3>5. /\ \A n \in Node : n # child => parent'[n] = parent[n] /\ priority'[n] = priority[n]
          /\ Better(current, f) => parent'[child] = current /\ priority'[child] = Candidate(current, f)
          /\ ~Better(current, f) => UNCHANGED <<parent, priority>>
      BY <2>1, <2>3, <2>6 DEF BestInv, SearchInv, TypeOK
    <3>6. Parents'
      <4>1. \A n \in Node : parent[n] # NoNode =>
              /\ parent[n] \in Node /\ status'[parent[n]] # "UNDISCOVERED"
              /\ \E g \in db : Catches(parent[n], g) /\ Arrival(g) = n
        BY <1>3, <3>3 DEF BestInv, Parents, SearchInv, TypeOK, Undisc
      <4>2. status'[current] # "UNDISCOVERED"
        BY <1>1, <2>4, <3>1, <3>3
      <4>3. \A n \in Node : parent'[n] # NoNode =>
              /\ status'[parent'[n]] # "UNDISCOVERED"
              /\ \E g \in db : Catches(parent'[n], g) /\ Arrival(g) = n
        <5> SUFFICES ASSUME NEW n \in Node, parent'[n] # NoNode
                     PROVE  /\ status'[parent'[n]] # "UNDISCOVERED"
                            /\ \E g \in db : Catches(parent'[n], g) /\ Arrival(g) = n
          OBVIOUS
        <5>1. CASE parent'[n] = parent[n]
          BY <4>1, <5>1
        <5>2. CASE parent'[n] # parent[n]
          BY <2>2, <3>5, <4>2, <5>2
        <5> QED BY <5>1, <5>2
      <4>4. \A n \in Node : Undisc(n)' => n # child /\ Undisc(n)
        BY <3>3 DEF Undisc
      <4>5. \A n \in Node : Undisc(n)' => priority'[n] = IntMax
        BY <1>3, <3>5, <4>4 DEF BestInv, Parents
      <4>6. \A n \in Node : ~Undisc(n)' /\ priority'[n] < IntMax =>
              n = query.from \/ parent'[n] # NoNode
        <5> SUFFICES ASSUME NEW n \in Node, ~Undisc(n)', priority'[n] < IntMax
                     PROVE  n = query.from \/ parent'[n] # NoNode
          OBVIOUS
        <5>1. CASE n # child
          BY <1>3, <3>3, <3>5, <5>1 DEF BestInv, Parents, Undisc
        <5>2. CASE n = child /\ Better(current, f)
          BY <1>1, <3>5, <5>2
        <5>3. CASE n = child /\ ~Better(current, f)
          <6>1. priority'[n] = IntMax
            BY <1>3, <2>3, <3>1, <3>5, <5>3 DEF BestInv, Parents, Undisc
          <6> QED BY <6>1, IntMaxAssumption
        <5> QED BY <5>1, <5>2, <5>3
      <4> QED BY <1>1, <4>3, <4>5, <4>6, SameQuery DEF Parents, Undisc, Arrival
    <3>7. Stopped'
      BY <1>1, <1>3, <3>3, SameQuery DEF BestInv, Stopped
    <3>8. Chained' /\ FailsOnlyIfAmbiguous'
      <4>1. path = <<>>
        BY <1>1, <1>3 DEF BestInv, Stopped
      <4> QED BY <1>1, <4>1 DEF Chained, FailsOnlyIfAmbiguous
    <3>9. Ordered'
      <4> SUFFICES ASSUME query.op = "shortest_path", NoOverflow PROVE Ordered'
        BY <1>1, SameQuery DEF Ordered
      <4> DEFINE start == query.from.no_sooner_than
                 now == current.no_sooner_than
                 then == child.no_sooner_than
      <4>1. start \in Int /\ now \in Int /\ then \in Int
        BY <1>1, <1>3, <2>3, QueryType, TimeType DEF BestPath
      <4>2. now >= start /\ priority[current] = now - start
        BY <1>1, <1>3, <2>4 DEF BestInv, Ordered, Undisc
      <4>3. then - start < IntMax /\ then > now
        BY <2>2, <2>3 DEF NoOverflow
      <4>4. then - now \in 0..IntMax /\ then - start \in 0..IntMax
        BY <4>1, <4>2, <4>3, IntMaxAssumption
      <4>5. Weight(query.op, current, f) = then - now
        BY <2>3, <4>4, ToIntFits DEF Weight
      <4>6. Candidate(current, f) = then - start
        <5>1. (now - start) + (then - now) = then - start
          BY <4>1
        <5> QED BY <1>3, <4>2, <4>4, <4>5, <5>1, ToIntFits DEF Candidate, BestPath
      <4>7. Better(current, f)
        BY <1>3, <2>3, <3>1, <4>3, <4>6 DEF Better, BestInv, Parents, Undisc
      <4>8. \A n \in Node : ~Undisc(n)' =>
              /\ n.no_sooner_than >= start
              /\ priority'[n] = n.no_sooner_than - start
              /\ priority'[n] < IntMax
        <5> SUFFICES ASSUME NEW n \in Node, ~Undisc(n)'
                     PROVE  /\ n.no_sooner_than >= start
                            /\ priority'[n] = n.no_sooner_than - start
                            /\ priority'[n] < IntMax
          OBVIOUS
        <5>1. CASE n = child
          BY <3>5, <4>1, <4>2, <4>3, <4>6, <4>7, <5>1
        <5>2. CASE n # child
          BY <1>3, <3>3, <3>5, <5>2 DEF BestInv, Ordered, Undisc
        <5> QED BY <5>1, <5>2
      <4>9. \A m \in Node : status'[m] = "VISITED" =>
              \A n \in Open' : m.no_sooner_than <= n.no_sooner_than
        <5> SUFFICES ASSUME NEW m \in Node, status'[m] = "VISITED", NEW n \in Open'
                     PROVE  m.no_sooner_than <= n.no_sooner_than
          OBVIOUS
        <5>1. status[m] = "VISITED"
          BY <3>3
        <5>2. \A k \in Open : m.no_sooner_than <= k.no_sooner_than
          BY <1>3, <5>1 DEF BestInv, Ordered
        <5>3. m.no_sooner_than \in Int /\ m.no_sooner_than <= now
          BY <2>4, <5>2, TimeType
        <5> QED BY <3>2, <4>1, <4>3, <5>2, <5>3
      <4>10. \A n \in queue' : now <= n.no_sooner_than
        BY <1>1, <1>3, <3>1, <4>1, <4>3 DEF BestInv, Ordered
      <4> QED BY <1>1, <4>8, <4>9, <4>10 DEF Ordered, Undisc
    <3> QED BY <3>4, <3>6, <3>7, <3>8, <3>9 DEF BestInv
  <2> QED BY <2>5, <2>6
<1> QED BY <1>2, <1>3

(* The search stops at the first visited node from which the target is a   *)
(* wait away, so it is the only one.                                       *)
LEMMA BestVisit ==
  ASSUME BestInv, SearchInv', Visit
  PROVE  BestInv'
<1>1. /\ current # NoNode /\ current \in Node /\ phase = "search" /\ edges = {}
      /\ current' = NoNode /\ Open' = queue /\ Open = queue \cup {current}
      /\ UNCHANGED <<db, query, priority, parent, queue, edges, path, answer>>
  BY NullAssumption DEF Visit, BestInv, SearchInv, Shape, TypeOK, Open
<1>2. CASE ~BestPath
  <2>1. phase' = "search"
    BY <1>1, <1>2 DEF Visit, BestPath, BestInv, SearchInv, Shape
  <2> QED BY <1>1, <1>2, <2>1, NotBestPath, SameQuery
<1>3. CASE BestPath
  <2>1. /\ \A n \in Node : n # current => status'[n] = status[n]
        /\ status'[current] = "VISITED" /\ status[current] = "DISCOVERED"
    BY <1>1, <1>3
    DEF Visit, StatusOnVisit, BestPath, Touring, BestInv, SearchInv, TypeOK, OpenIsDiscovered
  <2>2. \A n \in Node : Undisc(n)' <=> Undisc(n)
    BY <2>1 DEF Undisc
  <2>3. InTime(current, query.to) <=> IsContinuousChild(current, query.to)
    BY DEF InTime, IsContinuousChild
  <2>4. \/ InTime(current, query.to) /\ phase' = "walk" /\ walk' = current
        \/ ~InTime(current, query.to) /\ phase' = "search" /\ walk' = walk
    BY <1>1, <1>3, <2>3 DEF Visit, BestPath
  <2>5. path = <<>> /\ \A n \in Node : status[n] = "VISITED" => ~InTime(n, query.to)
    BY <1>1, <1>3 DEF BestInv, Stopped
  <2>6. query.from \in Node /\ \A g \in db : Arrival(g) \in Node
    BY <1>3, QueryType, ArrivalType, DatabasesAssumption DEF BestPath, BestInv, SearchInv, TypeOK
  <2>7. Explored'
    <3>1. status'[query.from] # "UNDISCOVERED"
      BY <1>1, <1>3, <2>1, <2>6 DEF BestInv, Explored, Undisc
    <3>2. \A n \in Node : status'[n] = "DISCOVERED" => n \in Open'
      BY <1>1, <1>3, <2>1 DEF BestInv, Explored
    <3>3. \A n \in Node : status'[n] = "VISITED" =>
            \A g \in db : Catches(n, g) => status'[Arrival(g)] # "UNDISCOVERED"
      BY <1>1, <1>3, <2>1, <2>6 DEF BestInv, Explored, Undisc
    <3> QED BY <1>1, <3>1, <3>2, <3>3, SameQuery DEF Explored, Undisc
  <2>8. Parents'
    <3>1. \A n \in Node : parent[n] # NoNode =>
            /\ status'[parent[n]] # "UNDISCOVERED"
            /\ \E g \in db : Catches(parent[n], g) /\ Arrival(g) = n
      BY <1>3, <2>1 DEF BestInv, SearchInv, TypeOK, Parents, Undisc
    <3> QED BY <1>1, <1>3, <2>2, <3>1, SameQuery DEF BestInv, Parents, Undisc, Arrival
  <2>9. Stopped'
    <3>1. CASE InTime(current, query.to)
      <4>1. phase' = "walk" /\ walk' = current /\ path' = <<>> /\ Last' = current
        BY <1>1, <2>4, <2>5, <3>1 DEF Last
      <4>2. \A n \in Node : status'[n] = "VISITED" /\ InTime(n, query.to) => n = current
        BY <2>1, <2>5
      <4> QED BY <1>1, <1>3, <2>1, <3>1, <4>1, <4>2, SameQuery DEF Stopped, InTime
    <3>2. CASE ~InTime(current, query.to)
      <4>1. phase' = "search" /\ path' = <<>>
        BY <1>1, <2>4, <2>5, <3>2
      <4>2. \A n \in Node : status'[n] = "VISITED" => ~InTime(n, query.to)
        BY <2>1, <2>5, <3>2
      <4> QED BY <1>1, <1>3, <4>1, <4>2, SameQuery DEF Stopped
    <3> QED BY <3>1, <3>2
  <2>10. Chained' /\ FailsOnlyIfAmbiguous'
    <3>1. path' = <<>> /\ phase' \in {"walk", "search"}
      BY <1>1, <2>4, <2>5
    <3>2. 1..(Len(path') - 1) = {}
      BY <3>1
    <3>3. phase' \notin {"convert", "answered", "error"}
      BY <3>1
    <3>4. Chained'
      BY <3>1, <3>2, <3>3 DEF Chained
    <3> QED BY <3>3, <3>4 DEF FailsOnlyIfAmbiguous
  <2>11. Ordered'
    <3> SUFFICES ASSUME query.op = "shortest_path", NoOverflow PROVE Ordered'
      BY <1>1, SameQuery DEF Ordered
    <3>1. \A m \in Node : status'[m] = "VISITED" =>
            \A n \in Open' : m.no_sooner_than <= n.no_sooner_than
      BY <1>1, <1>3, <2>1 DEF BestInv, Ordered
    <3> QED BY <1>1, <1>3, <2>2, <3>1 DEF BestInv, Ordered, Undisc
  <2> QED BY <2>7, <2>8, <2>9, <2>10, <2>11 DEF BestInv
<1> QED BY <1>2, <1>3

LEMMA BestExhaust ==
  ASSUME BestInv, SearchInv', Exhaust
  PROVE  BestInv'
<1>1. /\ phase = "search" /\ current = NoNode /\ queue = {}
      /\ phase' = IF Touring THEN "answered" ELSE "no path"
      /\ UNCHANGED <<db, query, status, priority, parent, queue, current, edges, walk, path, answer>>
  BY DEF Exhaust, search
<1>2. query \in Queries
  BY <1>1 DEF BestInv, SearchInv, Shape
<1>3. CASE ~BestPath
  BY <1>1, <1>2, <1>3, NotBestPath, SameQuery DEF BestPath
<1>4. CASE BestPath
  <2>1. phase' = "no path" /\ Open' = {} /\ Open = {} /\ path = <<>>
    BY <1>1, <1>4 DEF BestPath, Open, BestInv, Stopped
  <2>2. Explored' /\ Parents' /\ Ordered'
    BY <1>1, <1>4, <2>1, SameQuery DEF BestInv, Explored, Parents, Ordered, Undisc, Arrival
  <2>3. Stopped'
    BY <1>1, <1>4, <2>1, SameQuery DEF BestInv, Stopped
  <2>4. Chained' /\ FailsOnlyIfAmbiguous'
    <3>1. path' = <<>>
      BY <1>1, <2>1
    <3>2. 1..(Len(path') - 1) = {}
      BY <3>1
    <3> QED BY <2>1, <3>1, <3>2 DEF Chained, FailsOnlyIfAmbiguous
  <2> QED BY <2>2, <2>3, <2>4 DEF BestInv
<1> QED BY <1>3, <1>4

(* What the steps after the search leave alone. *)
LEMMA BestFound ==
  ASSUME BestInv, BestPath, phase \in {"walk", "convert"}, phase' \in {"walk", "convert", "answered"},
         UNCHANGED <<db, query, status, priority, parent, queue, current, edges>>
  PROVE  /\ Explored' /\ Parents' /\ Ordered' /\ FailsOnlyIfAmbiguous'
         /\ Last' = Last => Stopped'
<1>1. Open' = Open
  BY DEF Open
<1>2. Explored' /\ Parents' /\ Ordered' /\ FailsOnlyIfAmbiguous'
  BY <1>1, SameQuery
  DEF BestInv, Explored, Parents, Ordered, Undisc, Arrival, FailsOnlyIfAmbiguous
<1>3. ASSUME Last' = Last PROVE Stopped'
  BY <1>1, <1>3, SameQuery DEF BestInv, Stopped
<1> QED BY <1>2, <1>3

LEMMA BestBacktrack ==
  ASSUME BestInv, SearchInv', Backtrack
  PROVE  BestInv'
<1>1. /\ phase = "walk" /\ walk # NoNode /\ walk \in Node /\ path \in Seq(Node)
      /\ path' = <<walk>> \o path /\ walk' = parent[walk]
      /\ UNCHANGED <<db, query, phase, status, priority, parent, queue, current, edges, answer>>
  BY DEF Backtrack, search, BestInv, SearchInv, TypeOK
<1>2. BestPath
  BY <1>1 DEF BestInv, Stopped
<1>3. /\ Len(path') = Len(path) + 1 /\ path' # <<>> /\ path'[1] = walk
      /\ \A i \in 1..Len(path) : path'[i + 1] = path[i]
      /\ Len(path) \in Nat
  BY <1>1
<1>4. Last' = Last
  <2>1. CASE path = <<>>
    BY <1>1, <1>3, <2>1 DEF Last
  <2>2. CASE path # <<>>
    <3>1. Len(path) \in 1..Len(path)
      BY <1>1, <2>2
    <3> QED BY <1>3, <2>2, <3>1 DEF Last
  <2> QED BY <2>1, <2>2
<1>5. Explored' /\ Parents' /\ Ordered' /\ FailsOnlyIfAmbiguous' /\ Stopped'
  BY <1>1, <1>2, <1>4, BestFound
<1>6. status[walk] # "UNDISCOVERED"
  <2>1. CASE path = <<>>
    BY <1>1, <1>2, <2>1 DEF BestInv, Stopped, Last
  <2>2. CASE path # <<>>
    <3>1. walk = parent[path[1]] /\ path[1] \in Node
      BY <1>1, <1>2, <2>2 DEF BestInv, Chained
    <3> QED BY <1>1, <1>2, <3>1 DEF BestInv, Parents, Undisc
  <2> QED BY <2>1, <2>2
<1>7. \A i \in 1..(Len(path') - 1) :
        \E f \in db : Catches(path'[i], f) /\ Arrival(f) = path'[i+1]
  <2> SUFFICES ASSUME NEW i \in 1..(Len(path') - 1)
               PROVE  \E f \in db : Catches(path'[i], f) /\ Arrival(f) = path'[i+1]
    OBVIOUS
  <2>1. CASE i = 1
    <3>1. path # <<>> /\ path[1] \in Node /\ path'[2] = path[1]
      BY <1>1, <1>3, <2>1
    <3>2. walk = parent[path[1]]
      BY <1>1, <1>2, <3>1 DEF BestInv, Chained
    <3> QED BY <1>1, <1>2, <1>3, <2>1, <3>1, <3>2 DEF BestInv, Parents
  <2>2. CASE i # 1
    <3>1. i - 1 \in 1..(Len(path) - 1)
      BY <1>3, <2>2
    <3>2. path'[i] = path[i - 1] /\ path'[i + 1] = path[(i - 1) + 1]
      BY <1>3, <3>1
    <3> QED BY <1>2, <3>1, <3>2 DEF BestInv, Chained
  <2> QED BY <2>1, <2>2
<1>8. Chained'
  BY <1>1, <1>3, <1>6, <1>7, SameQuery DEF Chained, Undisc, Arrival
<1> QED BY <1>5, <1>8 DEF BestInv

LEMMA BestBacktracked ==
  ASSUME BestInv, SearchInv', Backtracked
  PROVE  BestInv'
<1>1. /\ phase = "walk" /\ walk = NoNode /\ phase' = "convert"
      /\ UNCHANGED <<db, query, status, priority, parent, queue, current, edges, walk, path, answer>>
  BY DEF Backtracked, search
<1>2. BestPath
  BY <1>1 DEF BestInv, Stopped
<1>3. path # <<>>
  BY <1>1, <1>2, NullAssumption DEF BestInv, Stopped, Last
<1>4. Last' = Last
  BY <1>1 DEF Last
<1>5. Explored' /\ Parents' /\ Ordered' /\ FailsOnlyIfAmbiguous' /\ Stopped'
  BY <1>1, <1>2, <1>4, BestFound
<1>6. Chained'
  BY <1>1, <1>2, <1>3, SameQuery DEF BestInv, Chained, Undisc, Arrival
<1> QED BY <1>5, <1>6 DEF BestInv

(* A step of the path has the record that the parent was set by; if it has *)
(* another one, two flights of the route land together.                    *)
LEMMA BestConvert ==
  ASSUME BestInv, SearchInv', Convert
  PROVE  BestInv'
<1>1. /\ phase = "convert"
      /\ UNCHANGED <<db, query, status, priority, parent, queue, current, edges, walk, path>>
  BY DEF Convert, search
<1>2. BestPath
  BY <1>1 DEF BestInv, Stopped
<1>3. CASE Convertible(path)
  <2>1. phase' = "answered" /\ answer' = ConvertPath(path)
    BY <1>3 DEF Convert
  <2>2. Last' = Last
    BY <1>1 DEF Last
  <2>3. Explored' /\ Parents' /\ Ordered' /\ FailsOnlyIfAmbiguous' /\ Stopped'
    BY <1>1, <1>2, <2>1, <2>2, BestFound
  <2>4. Convertible(path)' /\ answer' = ConvertPath(path)'
    <3>1. \A m, n : RecordsBetween(m, n)' = RecordsBetween(m, n)
      BY <1>1 DEF RecordsBetween, Arrival
    <3>2. Convertible(path)'
      BY <1>1, <1>3, <3>1 DEF Convertible
    <3>3. ConvertPath(path)' = ConvertPath(path)
      BY <1>1, <3>1 DEF ConvertPath
    <3> QED BY <2>1, <3>2, <3>3
  <2>5. Chained'
    BY <1>1, <1>2, <2>1, <2>4, SameQuery DEF BestInv, Chained, Undisc, Arrival
  <2> QED BY <2>3, <2>5 DEF BestInv
<1>4. CASE ~Convertible(path)
  <2>1. phase' = "error" /\ answer' = answer
    BY <1>4 DEF Convert
  <2>2. PICK i \in 1..(Len(path) - 1) : ~\E f \in db : RecordsBetween(path[i], path[i+1]) = {f}
    BY <1>4 DEF Convertible
  <2>3. PICK f \in db : Catches(path[i], f) /\ Arrival(f) = path[i+1]
    BY <1>2 DEF BestInv, Chained
  <2>4. f \in RecordsBetween(path[i], path[i+1])
    BY <2>3 DEF RecordsBetween, Catches
  <2>5. PICK g \in RecordsBetween(path[i], path[i+1]) : g # f
    BY <2>2, <2>4
  <2>6. ~UniqueArrivals
    BY <2>4, <2>5 DEF RecordsBetween, UniqueArrivals
  <2>7. ~UniqueArrivals'
    BY <1>1, <2>6 DEF UniqueArrivals, Arrival
  <2>8. FailsOnlyIfAmbiguous'
    BY <2>7 DEF FailsOnlyIfAmbiguous
  <2>9. Open' = Open
    BY <1>1 DEF Open
  <2>10. Explored' /\ Parents' /\ Stopped' /\ Ordered'
    BY <1>1, <1>2, <2>1, <2>9, SameQuery
    DEF BestInv, Explored, Parents, Stopped, Ordered, Undisc, Arrival
  <2>11. Chained'
    BY <1>1, <1>2, <2>1, SameQuery DEF BestInv, Chained, Undisc, Arrival
  <2> QED BY <2>8, <2>10, <2>11 DEF BestInv
<1> QED BY <1>3, <1>4

(* The first steps of a best-path query: its start is open and nothing     *)
(* else is discovered.                                                     *)
LEMMA BestAsk ==
  ASSUME BestInv, SearchInv', NEW q \in Queries, Ask(q)
  PROVE  BestInv'
<1>1. /\ q.from \in Node /\ q.from # NoNode
      /\ query' = q /\ phase' = "search" /\ db' = db /\ queue' = {q.from}
      /\ current' = NoNode /\ path' = <<>> /\ parent' = [n \in Node |-> NoNode]
      /\ priority' = [n \in Node |-> IF n = q.from THEN 0 ELSE IntMax]
      /\ status' = StatusOnDiscover(q.op, q.from)
      /\ status = Undiscovered
  <2>1. Unused
    BY DEF Ask, BestInv, SearchInv, Shape
  <2> QED BY <2>1, QueryType, NullAssumption DEF Ask, Unused
<1>2. CASE ~BestPath'
  BY <1>1, <1>2, NotBestPath
<1>3. CASE BestPath'
  <2>1. \A n \in Node : status'[n] = IF n = q.from THEN "DISCOVERED" ELSE "UNDISCOVERED"
    BY <1>1, <1>3 DEF BestPath, Touring, StatusOnDiscover, Undiscovered
  <2>2. Open' = {q.from}
    BY <1>1 DEF Open
  <2>3. Explored'
    BY <1>1, <2>1, <2>2 DEF Explored, Undisc
  <2>4. Parents'
    BY <1>1, <2>1 DEF Parents, Undisc
  <2>5. Stopped'
    BY <1>1, <2>1 DEF Stopped
  <2>6. Chained' /\ FailsOnlyIfAmbiguous'
    <3>1. 1..(Len(path') - 1) = {}
      BY <1>1
    <3> QED BY <1>1, <3>1 DEF Chained, FailsOnlyIfAmbiguous
  <2>7. Ordered'
    <3>1. q.from.no_sooner_than \in Int
      BY <1>1, TimeType
    <3> QED BY <1>1, <2>1, <3>1, IntMaxAssumption DEF Ordered, Undisc
  <2> QED BY <2>3, <2>4, <2>5, <2>6, <2>7 DEF BestInv
<1> QED BY <1>2, <1>3

(* A query that names an unserved airport fails before it has done a thing. *)
LEMMA BestAskOutOfRange ==
  ASSUME BestInv, SearchInv', NEW q \in Queries, AskOutOfRange(q)
  PROVE  BestInv'
<1>1. /\ Unused /\ ~InRange(q) /\ query' = q /\ phase' = "error"
      /\ UNCHANGED <<db, pool, status, tour, search, walk, path, answer>>
  BY DEF AskOutOfRange, BestInv, SearchInv, Shape
<1>2. /\ path' = <<>> /\ current' = NoNode /\ parent' = [n \in Node |-> NoNode]
      /\ priority' = [n \in Node |-> IntMax] /\ 1..(Len(path') - 1) = {}
      /\ \A n \in Node : status'[n] = "UNDISCOVERED"
  BY <1>1 DEF search, Unused, Undiscovered
<1>3. ~InRange(query)'
  BY <1>1 DEF InRange, EndNodes, Within, Served
<1>4. Explored' /\ Parents' /\ Stopped' /\ Chained' /\ Ordered' /\ FailsOnlyIfAmbiguous'
  BY <1>1, <1>2, <1>3
  DEF Explored, Parents, Stopped, Chained, Ordered, FailsOnlyIfAmbiguous, Undisc
<1> QED BY <1>4 DEF BestInv

LEMMA BestStep == BestInv /\ [Next]_vars => BestInv'
<1> SUFFICES ASSUME BestInv, [Next]_vars PROVE BestInv'
  OBVIOUS
<1>1. SearchInv'
  BY SearchStep DEF BestInv
<1>2. ASSUME NEW q \in Queries, Ask(q) PROVE BestInv'
  BY <1>1, <1>2, BestAsk
<1>3. ASSUME NEW q \in Queries, AskOutOfRange(q) PROVE BestInv'
  BY <1>1, <1>3, BestAskOutOfRange
<1>4. CASE Pop
  BY <1>1, <1>4, BestPop
<1>5. CASE ScanEdge
  BY <1>1, <1>5, BestScanEdge
<1>6. CASE Visit
  BY <1>1, <1>6, BestVisit
<1>7. CASE Exhaust
  BY <1>1, <1>7, BestExhaust
<1>8. CASE Backtrack
  BY <1>1, <1>8, BestBacktrack
<1>9. CASE Backtracked
  BY <1>1, <1>9, BestBacktracked
<1>10. CASE Convert
  BY <1>1, <1>10, BestConvert
<1>11. CASE Return
  <2>1. query' = NoQuery /\ NoQuery \notin Queries /\ phase' = "idle"
    BY <1>11, QueriesAssumption, NullAssumption DEF Return
  <2>2. ~BestPath'
    BY <2>1 DEF BestPath
  <2> QED BY <1>1, <2>1, <2>2, NotBestPath
<1>12. CASE UNCHANGED vars
  <2>1. Open' = Open /\ Last' = Last
    BY <1>12 DEF vars, search, Open, Last
  <2>2. UNCHANGED <<db, query, phase, status, priority, parent, queue, current, edges, walk, path, answer>>
    BY <1>12 DEF vars, search
  <2>3. Explored' /\ Parents' /\ Stopped' /\ Ordered'
    BY <2>1, <2>2, SameQuery DEF BestInv, Explored, Parents, Stopped, Ordered, Undisc, Arrival
  <2>4. \A m, n : RecordsBetween(m, n)' = RecordsBetween(m, n)
    BY <2>2 DEF RecordsBetween, Arrival
  <2>5. (Convertible(path)' <=> Convertible(path)) /\ ConvertPath(path)' = ConvertPath(path)
    <3>1. Convertible(path)' <=> Convertible(path)
      BY <2>2, <2>4 DEF Convertible
    <3>2. ConvertPath(path)' = ConvertPath(path)
      BY <2>2, <2>4 DEF ConvertPath
    <3> QED BY <3>1, <3>2
  <2>6. Chained'
    BY <2>2, <2>5, SameQuery DEF BestInv, Chained, Undisc, Arrival
  <2>7. (InRange(query)' <=> InRange(query)) /\ (UniqueArrivals' <=> UniqueArrivals)
    BY <2>2 DEF InRange, EndNodes, Within, Served, UniqueArrivals, Arrival
  <2>8. FailsOnlyIfAmbiguous'
    BY <2>2, <2>7 DEF BestInv, FailsOnlyIfAmbiguous
  <2> QED BY <1>1, <2>3, <2>6, <2>8 DEF BestInv
<1> QED
  BY <1>2, <1>3, <1>4, <1>5, <1>6, <1>7, <1>8, <1>9, <1>10, <1>11, <1>12 DEF Next, Step

-----------------------------------------------------------------------------
(* The theorems *)

LEMMA BestInvariant == Spec => []BestInv
BY BestInit, BestStep, PTL DEF Spec

(* Nothing that can be reached is earlier than a set of nodes lets be: it  *)
(* belongs to every set that holds the start and is closed under taking a  *)
(* flight.                                                                 *)
LEMMA ReachableWithin ==
  ASSUME NEW from, NEW S \in SUBSET NodesFrom(from), from \in S, Closed(S)
  PROVE  Reachable(from) \subseteq S
BY DEF Reachable

(* The flights of the answer lead from node to node of the path. *)
LEMMA AnswerMatchesPath ==
  ASSUME BestInv, BestPath, phase = "answered", Priced
  PROVE  /\ Len(answer) = Len(path) - 1 /\ Len(answer) \in Nat
         /\ path[1] = query.from
         /\ \A i \in 1..Len(answer) : Catches(path[i], answer[i]) /\ Arrival(answer[i]) = path[i+1]
<1>1. /\ path \in Seq(Node) /\ path # <<>> /\ answer = ConvertPath(path) /\ Convertible(path)
  BY DEF BestInv, Chained, SearchInv, TypeOK
<1>2. Len(path) \in Nat /\ Len(path) >= 1 /\ path[1] \in Node
  BY <1>1
<1>3. Len(answer) = Len(path) - 1 /\ DOMAIN answer = 1..(Len(path) - 1)
  <2>1. Len(path) - 1 \in Nat
    BY <1>2
  <2> QED BY <1>1, <2>1 DEF ConvertPath
<1>4. path[1] = query.from
  <2>1. ~Undisc(path[1]) /\ parent[path[1]] = NoNode
    BY <1>1 DEF BestInv, Chained
  <2>2. priority[path[1]] < IntMax
    BY <1>2, <2>1 DEF Priced, Undisc
  <2> QED BY <1>2, <2>1, <2>2 DEF BestInv, Parents
<1>5. ASSUME NEW i \in 1..Len(answer)
      PROVE  Catches(path[i], answer[i]) /\ Arrival(answer[i]) = path[i+1]
  <2>1. i \in 1..(Len(path) - 1)
    BY <1>3
  <2>2. answer[i] = CHOOSE f \in db : f \in RecordsBetween(path[i], path[i+1])
    BY <1>1, <2>1 DEF ConvertPath
  <2>3. PICK f \in db : Catches(path[i], f) /\ Arrival(f) = path[i+1]
    BY <2>1 DEF BestInv, Chained
  <2>4. f \in RecordsBetween(path[i], path[i+1])
    BY <2>3 DEF RecordsBetween, Catches
  <2>5. \E g \in db : RecordsBetween(path[i], path[i+1]) = {g}
    BY <1>1, <2>1 DEF Convertible
  <2>6. answer[i] = f
    BY <2>2, <2>4, <2>5
  <2> QED BY <2>3, <2>6
<1> QED BY <1>2, <1>3, <1>4, <1>5

(* The flights returned by shortest_path and minimum_cost_path can be      *)
(* taken one after another and lead to the target by the deadline.         *)
THEOREM AnswersAreItineraries == Spec => []AnswerIsItinerary
<1>1. BestInv => AnswerIsItinerary
  <2> SUFFICES ASSUME BestInv, phase = "answered", ~Touring, Priced
               PROVE  Leads(query.from, answer, query.to)
    BY DEF AnswerIsItinerary
  <2>1. BestPath
    BY DEF BestPath, BestInv, SearchInv, Shape
  <2>2. /\ Len(answer) = Len(path) - 1 /\ Len(answer) \in Nat
        /\ path[1] = query.from
        /\ \A i \in 1..Len(answer) : Catches(path[i], answer[i]) /\ Arrival(answer[i]) = path[i+1]
    BY <2>1, AnswerMatchesPath
  <2>3. path \in Seq(Node) /\ path # <<>> /\ answer \in Seq(Flight)
    BY <2>1 DEF BestInv, Chained, SearchInv, TypeOK
  <2>4. IsItinerary(query.from, answer)
    <3> SUFFICES ASSUME NEW i \in 1..Len(answer)
                 PROVE  Catches(IF i = 1 THEN query.from ELSE Arrival(answer[i-1]), answer[i])
      BY DEF IsItinerary
    <3>1. CASE i = 1
      BY <2>2, <3>1
    <3>2. CASE i # 1
      <4>1. i - 1 \in 1..Len(answer) /\ (i - 1) + 1 = i
        BY <2>2, <3>2
      <4> QED BY <2>2, <3>2, <4>1
    <3> QED BY <3>1, <3>2
  <2>5. InTime(path[Len(path)], query.to)
    BY <2>1, <2>3 DEF BestInv, Stopped, Last
  <2>6. path[Len(path)] = IF answer = <<>> THEN query.from ELSE Arrival(answer[Len(answer)])
    <3>1. CASE answer = <<>>
      <4>1. Len(path) = 1
        BY <2>2, <2>3, <3>1
      <4> QED BY <2>2, <3>1, <4>1
    <3>2. CASE answer # <<>>
      <4>1. Len(answer) \in 1..Len(answer) /\ Len(answer) + 1 = Len(path)
        BY <2>2, <2>3, <3>2
      <4> QED BY <2>2, <3>2, <4>1
    <3> QED BY <3>1, <3>2
  <2> QED BY <2>4, <2>5, <2>6 DEF Leads
<1> QED BY <1>1, BestInvariant, PTL

(* "No path" is the truth.  The visited nodes are closed under taking a    *)
(* flight when the search has run dry.                                     *)
THEOREM NoPathIsTrue == Spec => []NoPathMeansNone
<1>1. BestInv => NoPathMeansNone
  <2> SUFFICES ASSUME BestInv, phase = "no path"
               PROVE  ~\E n \in Reachable(query.from) : InTime(n, query.to)
    BY DEF NoPathMeansNone
  <2> DEFINE V == {n \in NodesFrom(query.from) : status[n] = "VISITED"}
  <2>1. BestPath /\ Open = {}
    BY DEF BestInv, Stopped
  <2>2. query.from \in Node /\ \A g \in db : Arrival(g) \in Node
    BY <2>1, QueryType, ArrivalType, DatabasesAssumption DEF BestPath, BestInv, SearchInv, TypeOK
  <2>3. \A n \in Node : ~Undisc(n) => status[n] = "VISITED"
    BY <2>1 DEF BestInv, Explored, SearchInv, TypeOK, Status, Undisc
  <2>4. query.from \in V
    BY <2>1, <2>2, <2>3 DEF BestInv, Explored, NodesFrom
  <2>5. Closed(V)
    <3> SUFFICES ASSUME NEW n \in V, NEW g \in db, Catches(n, g) PROVE Arrival(g) \in V
      BY DEF Closed
    <3>1. n \in Node
      BY <2>2 DEF NodesFrom
    <3>2. ~Undisc(Arrival(g))
      BY <2>1, <3>1 DEF BestInv, Explored
    <3> QED BY <2>2, <2>3, <3>2 DEF NodesFrom
  <2>6. Reachable(query.from) \subseteq V
    BY <2>4, <2>5, ReachableWithin
  <2>7. \A n \in V : n \in Node
    BY <2>2 DEF NodesFrom
  <2> QED BY <2>1, <2>6, <2>7 DEF BestInv, Stopped
<1> QED BY <1>1, BestInvariant, PTL

(* A best-path query fails only if an airport is unserved or two flights   *)
(* of one route land at the same time.                                     *)
THEOREM OnlyAmbiguityFails == Spec => []FailsOnlyIfAmbiguous
<1>1. BestInv => FailsOnlyIfAmbiguous
  BY DEF BestInv
<1> QED BY <1>1, BestInvariant, PTL

(* shortest_path expands nodes in order of time. *)
THEOREM ExpansionIsOrdered == Spec => []ExpandsInOrder
<1>1. BestInv => ExpandsInOrder
  <2> SUFFICES ASSUME BestInv, phase = "search", query.op = "shortest_path", NoOverflow,
                      NEW n \in queue, NEW m \in Node,
                      m = current \/ status[m] = "VISITED"
               PROVE  m.no_sooner_than <= n.no_sooner_than
    BY DEF ExpandsInOrder
  <2>1. BestPath
    BY DEF BestPath, Touring, TourOps, BestInv, SearchInv, Shape
  <2>2. n \in Open /\ NoNode \notin Node
    BY NullAssumption DEF Open
  <2> QED BY <2>1, <2>2 DEF BestInv, Ordered
<1> QED BY <1>1, BestInvariant, PTL

(* shortest_path returns the earliest arrival.  What has been visited      *)
(* when it stops, and everything that is no earlier than the node where it *)
(* stops, are closed under taking a flight.                                *)
THEOREM ShortestPathIsEarliest == Spec => []ShortestIsEarliest
<1>1. BestInv => ShortestIsEarliest
  <2> SUFFICES ASSUME BestInv, phase = "answered", query.op = "shortest_path", NoOverflow,
                      NEW n \in Reachable(query.from), n.airport = query.to.airport
               PROVE  LandsAt.no_sooner_than <= n.no_sooner_than
    BY DEF ShortestIsEarliest
  <2> DEFINE S == {k \in NodesFrom(query.from) :
                     status[k] = "VISITED" \/ Last.no_sooner_than <= k.no_sooner_than}
  <2>1. BestPath
    BY DEF BestPath, Touring, TourOps, BestInv, SearchInv, Shape
  <2>2. /\ Last \in Node /\ status[Last] = "VISITED" /\ InTime(Last, query.to)
        /\ \A k \in Node : status[k] = "VISITED" /\ InTime(k, query.to) => k = Last
    BY <2>1 DEF BestInv, Stopped
  <2>3. /\ query.from \in Node /\ query.to \in Node
        /\ \A g \in db : Arrival(g) \in Node
    BY <2>1, QueryType, ArrivalType, DatabasesAssumption DEF BestPath, BestInv, SearchInv, TypeOK
  <2>4. \A k \in Node : ~Undisc(k) =>
          status[k] = "VISITED" \/ Last.no_sooner_than <= k.no_sooner_than
    BY <2>1, <2>2 DEF BestInv, Explored, Ordered, SearchInv, TypeOK, Status, Undisc
  <2>5. query.from \in S
    BY <2>1, <2>3, <2>4 DEF BestInv, Explored, NodesFrom
  <2>6. Closed(S)
    <3> SUFFICES ASSUME NEW k \in S, NEW g \in db, Catches(k, g) PROVE Arrival(g) \in S
      BY DEF Closed
    <3>1. k \in Node /\ Arrival(g) \in Node /\ Arrival(g) \in NodesFrom(query.from)
      BY <2>3 DEF NodesFrom
    <3>2. CASE status[k] = "VISITED"
      <4>1. ~Undisc(Arrival(g))
        BY <2>1, <3>1, <3>2 DEF BestInv, Explored
      <4> QED BY <2>4, <3>1, <4>1
    <3>3. CASE Last.no_sooner_than <= k.no_sooner_than
      <4>1. k.no_sooner_than < Arrival(g).no_sooner_than
        BY <3>1, FlightTakesTime DEF BestInv, SearchInv
      <4>2. Last.no_sooner_than <= Arrival(g).no_sooner_than
        BY <2>2, <3>1, <3>3, <4>1, TimeType
      <4> QED BY <3>1, <4>2
    <3> QED BY <3>2, <3>3
  <2>7. n \in S
    BY <2>5, <2>6, ReachableWithin
  <2>8. n \in Node
    BY <2>3, <2>7 DEF NodesFrom
  <2>9. Last.no_sooner_than <= n.no_sooner_than
    <3>1. CASE status[n] = "VISITED" /\ InTime(n, query.to)
      <4>1. n = Last
        BY <2>2, <2>8, <3>1
      <4> QED BY <2>8, <4>1, TimeType
    <3>2. CASE ~InTime(n, query.to)
      <4>1. Last.no_sooner_than <= query.to.no_sooner_than
        BY <2>2 DEF InTime
      <4>2. ~(n.no_sooner_than <= query.to.no_sooner_than)
        BY <3>2 DEF InTime
      <4> QED BY <2>2, <2>3, <2>8, <4>1, <4>2, TimeType
    <3> QED BY <2>7, <3>1, <3>2
  <2>10. Priced
    BY <2>1 DEF BestInv, Ordered, Priced, Undisc
  <2>11. LandsAt = Last
    <3>1. /\ Len(answer) = Len(path) - 1 /\ Len(answer) \in Nat /\ path[1] = query.from
          /\ \A i \in 1..Len(answer) : Arrival(answer[i]) = path[i+1]
      BY <2>1, <2>10, AnswerMatchesPath
    <3>2. path \in Seq(Node) /\ path # <<>> /\ answer \in Seq(Flight)
      BY <2>1 DEF BestInv, Chained, SearchInv, TypeOK
    <3>3. CASE answer = <<>>
      <4>1. Len(path) = 1
        BY <3>1, <3>2, <3>3
      <4> QED BY <3>1, <3>2, <3>3, <4>1 DEF LandsAt, Last
    <3>4. CASE answer # <<>>
      <4>1. Len(answer) \in 1..Len(answer) /\ Len(answer) + 1 = Len(path)
        BY <3>1, <3>2, <3>4
      <4> QED BY <3>1, <3>2, <3>4, <4>1 DEF LandsAt, Last
    <3> QED BY <3>3, <3>4
  <2> QED BY <2>9, <2>11
<1> QED BY <1>1, BestInvariant, PTL

-----------------------------------------------------------------------------
(***************************************************************************)
(* The price of what minimum_cost_path returns.                            *)
(*                                                                         *)
(* While no two flights land at one airport at the same time, a node can   *)
(* be entered by one flight only, and the loop takes that flight first     *)
(* from the cheapest node it can be taken from.  Hence the priority of a   *)
(* node is never stale; nodes are expanded in order of price; and a way    *)
(* cheaper than the answer would have been followed to its end before.     *)
(***************************************************************************)

(* Sums of prices.  PriceOf is a function defined by recursion: that there *)
(* is one is shown by induction on the number of flights.                  *)

(* What an itinerary costs up to each of its flights. *)
IsSum(g, s) ==
  g = [i \in 0..Len(s) |-> IF i = 0 THEN 0 ELSE g[i-1] + record[s[i]].price]

(* There is such a function: it is extended flight by flight. *)
LEMMA SumExists ==
  ASSUME NEW s \in Seq(Flight)
  PROVE  \E g : IsSum(g, s)
<1> DEFINE Part(k) == {g \in [0..k -> Int] :
                         g[0] = 0 /\ \A i \in 1..k : g[i] = g[i-1] + record[s[i]].price}
           S == {k \in 0..Len(s) : Part(k) # {}}
<1>0. Len(s) \in Nat
  OBVIOUS
<1>1. 0 \in S
  <2>1. [i \in 0..0 |-> 0] \in Part(0)
    OBVIOUS
  <2> QED BY <1>0, <2>1
<1>2. ASSUME NEW k \in 0..(Len(s) - 1), k \in S PROVE k + 1 \in S
  <2>1. PICK g \in Part(k) : TRUE
    BY <1>2
  <2> DEFINE p == record[s[k + 1]].price
             h == [i \in 0..(k + 1) |-> IF i = k + 1 THEN g[k] + p ELSE g[i]]
  <2>2. p \in Int
    <3>1. s[k + 1] \in Flight
      BY <1>0
    <3> QED BY <3>1, RecordAssumption DEF Record
  <2>3. h \in [0..(k + 1) -> Int]
    BY <2>2
  <2>4. h[0] = 0 /\ \A i \in 1..(k + 1) : h[i] = h[i-1] + record[s[i]].price
    <3>1. h[0] = 0
      OBVIOUS
    <3>2. ASSUME NEW i \in 1..(k + 1) PROVE h[i] = h[i-1] + record[s[i]].price
      <4>1. CASE i = k + 1
        <5>1. i - 1 = k /\ h[i] = g[k] + p /\ h[k] = g[k]
          BY <4>1
        <5> QED BY <4>1, <5>1
      <4>2. CASE i # k + 1
        <5>1. i \in 1..k /\ i - 1 \in 0..k /\ i - 1 # k + 1
          BY <4>2
        <5>2. h[i] = g[i] /\ h[i-1] = g[i-1]
          BY <5>1
        <5> QED BY <5>1, <5>2
      <4> QED BY <4>1, <4>2
    <3> QED BY <3>1, <3>2
  <2>5. h \in Part(k + 1)
    BY <2>3, <2>4
  <2>6. k + 1 \in 0..Len(s)
    BY <1>0
  <2> QED BY <2>5, <2>6
<1>3. Len(s) \in S
  <2> HIDE DEF S
  <2>1. 0..Len(s) \subseteq S
    BY <1>0, <1>1, <1>2, UpTo
  <2> QED BY <1>0, <2>1
<1>4. PICK g \in Part(Len(s)) : TRUE
  BY <1>3
<1>5. ASSUME NEW i \in 0..Len(s)
      PROVE  g[i] = IF i = 0 THEN 0 ELSE g[i-1] + record[s[i]].price
  BY <1>0
<1> QED BY <1>5 DEF IsSum

LEMMA PriceIsSum ==
  ASSUME NEW s \in Seq(Flight)
  PROVE  \E g : IsSum(g, s) /\ PriceOf(s) = g[Len(s)]
<1>1. IsSum(CHOOSE g : IsSum(g, s), s)
  BY SumExists
<1>2. PriceOf(s) = (CHOOSE g : IsSum(g, s))[Len(s)]
  BY DEF PriceOf, IsSum
<1> QED BY <1>1, <1>2

(* It starts at 0, adds up the prices, and never gets less. *)
LEMMA SumSteps ==
  ASSUME NEW s \in Seq(Flight), NEW g, IsSum(g, s)
  PROVE  /\ g[0] = 0
         /\ \A i \in 1..Len(s) : g[i] = g[i-1] + record[s[i]].price
         /\ \A i \in 0..Len(s) : g[i] \in Nat /\ g[i] <= g[Len(s)]
<1>0. Len(s) \in Nat /\ \A i \in 1..Len(s) : record[s[i]].price \in Nat
  <2>1. \A i \in 1..Len(s) : s[i] \in Flight
    OBVIOUS
  <2> QED BY <2>1, RecordAssumption DEF Record
<1>1. \A i \in 0..Len(s) : g[i] = IF i = 0 THEN 0 ELSE g[i-1] + record[s[i]].price
  BY DEF IsSum
<1>2. g[0] = 0
  BY <1>0, <1>1
<1>3. ASSUME NEW i \in 1..Len(s) PROVE g[i] = g[i-1] + record[s[i]].price
  <2>1. i \in 0..Len(s) /\ i # 0
    OBVIOUS
  <2> QED BY <1>1, <2>1
<1> DEFINE S == {k \in 0..Len(s) : \A i \in 0..k : g[i] \in Nat /\ g[i] <= g[k]}
<1>4. 0 \in S
  BY <1>0, <1>2
<1>5. ASSUME NEW k \in 0..(Len(s) - 1), k \in S PROVE k + 1 \in S
  <2>1. k + 1 \in 1..Len(s) /\ (k + 1) - 1 = k /\ k + 1 \in 0..Len(s)
    BY <1>0
  <2>2. g[k + 1] = g[k] + record[s[k + 1]].price
    BY <1>3, <2>1
  <2>3. /\ record[s[k + 1]].price \in Nat /\ g[k] \in Nat
        /\ \A i \in 0..k : g[i] \in Nat /\ g[i] <= g[k]
    BY <1>0, <1>5, <2>1
  <2>4. g[k + 1] \in Nat /\ g[k] <= g[k + 1]
    BY <2>2, <2>3
  <2>5. ASSUME NEW i \in 0..(k + 1) PROVE g[i] \in Nat /\ g[i] <= g[k + 1]
    <3>1. CASE i = k + 1
      BY <2>4, <3>1
    <3>2. CASE i # k + 1
      <4>1. i \in 0..k
        BY <3>2
      <4> QED BY <2>3, <2>4, <4>1
    <3> QED BY <3>1, <3>2
  <2> QED BY <2>1, <2>4, <2>5
<1>6. Len(s) \in S /\ 0..Len(s) \subseteq S
  <2> HIDE DEF S
  <2>1. 0..Len(s) \subseteq S
    BY <1>0, <1>4, <1>5, UpTo
  <2> QED BY <1>0, <2>1
<1> QED BY <1>2, <1>3, <1>6

(* An itinerary with a further flight costs the price of that flight more. *)
LEMMA PriceOfOneMore ==
  ASSUME NEW s \in Seq(Flight), NEW f \in Flight
  PROVE  PriceOf(Append(s, f)) = PriceOf(s) + record[f].price
<1> DEFINE t == Append(s, f)
<1>1. /\ t \in Seq(Flight) /\ Len(t) = Len(s) + 1 /\ Len(s) \in Nat
      /\ t[Len(t)] = f /\ \A i \in 1..Len(s) : t[i] = s[i]
  OBVIOUS
<1> HIDE DEF t
<1>2. PICK g : IsSum(g, s) /\ PriceOf(s) = g[Len(s)]
  BY PriceIsSum
<1>3. PICK h : IsSum(h, t) /\ PriceOf(t) = h[Len(t)]
  BY <1>1, PriceIsSum
<1>4. g[0] = 0 /\ \A i \in 1..Len(s) : g[i] = g[i-1] + record[s[i]].price
  BY <1>2, SumSteps
<1>5. h[0] = 0 /\ \A i \in 1..Len(t) : h[i] = h[i-1] + record[t[i]].price
  BY <1>1, <1>3, SumSteps
<1> DEFINE S == {k \in 0..Len(s) : h[k] = g[k]}
<1>6. 0 \in S
  BY <1>1, <1>4, <1>5
<1>7. ASSUME NEW k \in 0..(Len(s) - 1), k \in S PROVE k + 1 \in S
  <2>1. k + 1 \in 1..Len(s) /\ k + 1 \in 1..Len(t) /\ (k + 1) - 1 = k /\ k + 1 \in 0..Len(s)
    BY <1>1
  <2>2. g[k + 1] = g[k] + record[s[k + 1]].price
    BY <1>4, <2>1
  <2>3. h[k + 1] = h[k] + record[t[k + 1]].price
    BY <1>5, <2>1
  <2> QED BY <1>1, <1>7, <2>1, <2>2, <2>3
<1>8. h[Len(s)] = g[Len(s)]
  <2> HIDE DEF S
  <2>1. 0..Len(s) \subseteq S
    BY <1>1, <1>6, <1>7, UpTo
  <2>2. Len(s) \in S
    BY <1>1, <2>1
  <2> QED BY <2>2 DEF S
<1>9. h[Len(t)] = h[Len(s)] + record[f].price
  <2>1. Len(t) \in 1..Len(t) /\ Len(t) - 1 = Len(s)
    BY <1>1
  <2> QED BY <1>1, <1>5, <2>1
<1> QED BY <1>2, <1>3, <1>8, <1>9 DEF t

LEMMA PriceOfNone == PriceOf(<<>>) = 0
<1>1. << >> \in Seq(Flight) /\ Len(<< >>) = 0
  OBVIOUS
<1>2. PICK g : IsSum(g, << >>) /\ PriceOf(<< >>) = g[0]
  BY <1>1, PriceIsSum
<1> QED BY <1>1, <1>2, SumSteps

-----------------------------------------------------------------------------
(* What the ways from one node to another cost that end just there. *)
CostsOf(m, n) ==
  {PriceOf(s) : s \in {t \in Ways(m, n, Cardinality(db)) : LandsFrom(m, t) = n}}

(* Staying costs nothing. *)
LEMMA CostOfStart ==
  ASSUME db \in Databases, NEW m \in Node
  PROVE  0 \in CostsOf(m, m)
<1>1. m.no_sooner_than \in Int
  BY TimeType
<1>2. Cardinality(db) \in Nat
  BY FinitenessAssumption, FS_CardinalityType
<1>3. /\ << >> \in Seq(db) /\ Len(<< >>) <= Cardinality(db)
      /\ IsItinerary(m, << >>) /\ LandsFrom(m, << >>) = m
  BY <1>2 DEF IsItinerary, LandsFrom
<1>4. InTime(m, m)
  BY <1>1 DEF InTime
<1>5. << >> \in Ways(m, m, Cardinality(db))
  BY <1>2, <1>3, <1>4, WaysAre
<1> QED BY <1>3, <1>5, PriceOfNone DEF CostsOf

(* A flight that can be caught at the end of a way makes a way of it. *)
LEMMA CostOfOneMore ==
  ASSUME db \in Databases, NEW m, NEW n, NEW c \in CostsOf(m, n), NEW f \in db, Catches(n, f)
  PROVE  c + record[f].price \in CostsOf(m, Arrival(f))
<1>1. db \subseteq Flight /\ Cardinality(db) \in Nat
  BY DatabasesAssumption, FinitenessAssumption, FS_CardinalityType
<1>2. PICK s \in Ways(m, n, Cardinality(db)) : LandsFrom(m, s) = n /\ c = PriceOf(s)
  BY DEF CostsOf
<1>3. s \in Seq(db) /\ IsItinerary(m, s)
  BY <1>1, <1>2, WaysAre
<1> DEFINE t == Append(s, f)
<1>4. t \in Seq(db) /\ IsItinerary(m, t) /\ LandsFrom(m, t) = Arrival(f)
  BY <1>2, <1>3, ItineraryOneMore
<1>5. PriceOf(t) = c + record[f].price
  <2>1. s \in Seq(Flight) /\ f \in Flight
    BY <1>1, <1>3
  <2> QED BY <1>2, <2>1, PriceOfOneMore
<1> HIDE DEF t
<1>6. Len(t) <= Cardinality(db)
  BY <1>4, ItineraryLength
<1>7. InTime(Arrival(f), Arrival(f))
  <2>1. Arrival(f) \in Node
    BY <1>1, ArrivalType
  <2> QED BY <2>1, TimeType DEF InTime
<1>8. t \in Ways(m, Arrival(f), Cardinality(db))
  BY <1>1, <1>4, <1>6, <1>7, WaysAre
<1> QED BY <1>4, <1>5, <1>8 DEF CostsOf

(* What the ways to an arrival cost fits into an int. *)
LEMMA CostFits ==
  ASSUME PricesFit, NEW f \in db, NEW c \in CostsOf(query.from, Arrival(f)) PROVE c < IntMax
BY DEF PricesFit, CostsOf

-----------------------------------------------------------------------------
(* The inductive invariant of a query for the least price *)

(* A query whose answer LeastPriceIfNoSharedArrival is about. *)
Costing ==
  /\ BestPath /\ query.op = "minimum_cost_path" /\ phase # "error"
  /\ NoSharedArrival /\ PricesFit

(* The priority of a node is what some way to it costs. *)
PricedByWay ==
  /\ priority[query.from] = 0
  /\ \A n \in Node : ~Undisc(n) => priority[n] \in CostsOf(query.from, n) \cap 0..(IntMax - 1)

(* A node costs what its parent costs and the flight from there. *)
PricedByParent ==
  \A n \in Node : parent[n] # NoNode =>
    /\ status[parent[n]] = "VISITED" \/ parent[n] = current
    /\ \E f \in db : /\ Catches(parent[n], f) /\ Arrival(f) = n
                     /\ priority[n] = priority[parent[n]] + record[f].price

(* Nodes are expanded in order of price. *)
CheapestFirst ==
  /\ \A m \in Node : status[m] = "VISITED" => \A n \in Open : priority[m] <= priority[n]
  /\ current # NoNode => \A n \in queue : priority[current] <= priority[n]

(* No flight from an expanded node would make the price of its end less.   *)
Settled ==
  \A m \in Node : \A f \in db :
    Catches(m, f) /\ (status[m] = "VISITED" \/ (m = current /\ f \notin edges)) =>
      priority[Arrival(f)] <= priority[m] + record[f].price

(* GetPath gathers parents. *)
PathOfParents == \A i \in 1..(Len(path) - 1) : path[i] = parent[path[i+1]]

Cheapest ==
  Costing => PricedByWay /\ PricedByParent /\ CheapestFirst /\ Settled /\ PathOfParents

-----------------------------------------------------------------------------
(* The operators that depend on the records and the query only. *)
LEMMA SameCosts ==
  ASSUME UNCHANGED db
  PROVE  /\ \A a, b, k : Ways(a, b, k)' = Ways(a, b, k)
         /\ \A s : PriceOf(s)' = PriceOf(s)
         /\ \A m, n : CostsOf(m, n)' = CostsOf(m, n)
<1>1. \A a, b, k : Ways(a, b, k)' = Ways(a, b, k)
  BY DEF Ways, Leads, IsItinerary, InTime, Catches, Arrival
<1>2. \A a, b : LandsFrom(a, b)' = LandsFrom(a, b)
  BY DEF LandsFrom, Arrival
<1>3. \A s : PriceOf(s)' = PriceOf(s)
  BY DEF PriceOf
<1> QED BY <1>1, <1>2, <1>3 DEF CostsOf

LEMMA SameCosting ==
  ASSUME UNCHANGED <<db, query>>
  PROVE  /\ NoSharedArrival' <=> NoSharedArrival
         /\ PricesFit' <=> PricesFit
<1>1. NoSharedArrival' <=> NoSharedArrival
  BY DEF NoSharedArrival, Arrival
<1>2. PricesFit' <=> PricesFit
  BY SameCosts DEF PricesFit, Arrival
<1> QED BY <1>1, <1>2

(* A step that leaves the nodes alone. *)
LEMMA CostKept ==
  ASSUME Cheapest, phase # "error", Costing',
         UNCHANGED <<db, query, status, priority, parent, queue, current, edges>>
  PROVE  Costing /\ PricedByWay' /\ PricedByParent' /\ CheapestFirst' /\ Settled'
<1>1. Costing
  BY SameQuery, SameCosting DEF Costing
<1>2. Open' = Open /\ (\A n : Undisc(n)' <=> Undisc(n)) /\ \A f : Arrival(f)' = Arrival(f)
  BY DEF Open, Undisc, Arrival
<1>3. PricedByWay'
  BY <1>1, <1>2, SameCosts DEF Cheapest, PricedByWay
<1>4. PricedByParent'
  BY <1>1, <1>2, SameQuery DEF Cheapest, PricedByParent
<1>5. CheapestFirst'
  BY <1>1, <1>2 DEF Cheapest, CheapestFirst
<1>6. Settled'
  BY <1>1, <1>2, SameQuery DEF Cheapest, Settled
<1> QED BY <1>1, <1>3, <1>4, <1>5, <1>6

(* Prices are numbers, none less than 0. *)
LEMMA PriceType ==
  ASSUME TypeOK, NEW f \in db PROVE record[f].price \in Nat /\ Arrival(f) \in Node
<1>1. f \in Flight
  BY DatabasesAssumption DEF TypeOK
<1> QED BY <1>1, ArrivalType, RecordAssumption DEF Record

(* The start costs nothing. *)
LEMMA CheapestAsk ==
  ASSUME BestInv, NEW q \in Queries, Ask(q)
  PROVE  Cheapest'
<1> SUFFICES ASSUME Costing' PROVE Cheapest'
  BY DEF Cheapest
<1>1. /\ q.from \in Node /\ q.from # NoNode
      /\ query' = q /\ db' = db /\ queue' = {q.from}
      /\ current' = NoNode /\ path' = <<>> /\ parent' = [n \in Node |-> NoNode]
      /\ priority' = [n \in Node |-> IF n = q.from THEN 0 ELSE IntMax]
      /\ status' = StatusOnDiscover(q.op, q.from)
      /\ status = Undiscovered /\ db \in Databases
  <2>1. Unused /\ db \in Databases
    BY DEF Ask, BestInv, SearchInv, Shape, TypeOK
  <2> QED BY <2>1, QueryType, NullAssumption DEF Ask, Unused
<1>2. \A n \in Node : status'[n] = IF n = q.from THEN "DISCOVERED" ELSE "UNDISCOVERED"
  BY <1>1 DEF Costing, BestPath, Touring, StatusOnDiscover, Undiscovered
<1>3. Open' = {q.from}
  BY <1>1 DEF Open
<1>4. 0 \in CostsOf(q.from, q.from)
  BY <1>1, CostOfStart
<1>5. PricedByWay'
  BY <1>1, <1>2, <1>4, SameCosts, IntMaxAssumption DEF PricedByWay, Undisc
<1>6. PricedByParent'
  BY <1>1 DEF PricedByParent
<1>7. CheapestFirst' /\ Settled'
  BY <1>1, <1>2, <1>3, NullAssumption DEF CheapestFirst, Settled
<1>8. PathOfParents'
  <2>1. 1..(Len(path') - 1) = {}
    BY <1>1
  <2> QED BY <2>1 DEF PathOfParents
<1> QED BY <1>5, <1>6, <1>7, <1>8 DEF Cheapest

(* The node taken from the heap is a cheapest one. *)
LEMMA CheapestPop ==
  ASSUME BestInv, Cheapest, Pop
  PROVE  Cheapest'
<1> SUFFICES ASSUME Costing' PROVE Cheapest'
  BY DEF Cheapest
<1>1. /\ phase = "search" /\ current = NoNode /\ NoNode \notin Node
      /\ UNCHANGED <<db, query, phase, status, priority, parent, walk, path, answer>>
  BY NullAssumption DEF Pop
<1>2. PICK n \in Top :
        /\ queue' = queue \ {n}
        /\ IF status[n] = "DISCOVERED"
           THEN current' = n /\ edges' = DiscreteChildrenOf(n)
           ELSE UNCHANGED <<current, edges>>
  BY DEF Pop, Popped
<1>3. n \in queue /\ n \in Node /\ n # NoNode /\ queue \subseteq Node
  BY <1>1, <1>2 DEF Top, BestInv, SearchInv, TypeOK
<1>4. status[n] = "DISCOVERED"
  BY <1>3 DEF BestInv, SearchInv, OpenIsDiscovered, Open
<1>5. /\ current' = n /\ edges' = DiscreteChildrenOf(n) /\ Open' = Open
      /\ \A f : Arrival(f)' = Arrival(f)
  BY <1>1, <1>2, <1>3, <1>4 DEF Open, Arrival
<1>6. Costing
  BY <1>1, SameQuery, SameCosting DEF Costing
<1>7. PricedByWay'
  BY <1>1, <1>6, SameCosts DEF Cheapest, PricedByWay, Undisc
<1>8. PricedByParent'
  BY <1>1, <1>5, <1>6, SameQuery DEF Cheapest, PricedByParent
<1>9. CheapestFirst'
  BY <1>1, <1>2, <1>5, <1>6 DEF Cheapest, CheapestFirst, Top
<1>10. Settled'
  <2>1. \A f \in db : Catches(n, f) => f \in DiscreteChildrenOf(n)
    BY DEF DiscreteChildrenOf, Catches
  <2> QED BY <1>1, <1>5, <1>6, <2>1, SameQuery DEF Cheapest, Settled
<1>11. PathOfParents'
  BY <1>1, <1>6 DEF Cheapest, PathOfParents
<1> QED BY <1>7, <1>8, <1>9, <1>10, <1>11 DEF Cheapest

(* When a node is visited the flights from it have all been looked at. *)
LEMMA CheapestVisit ==
  ASSUME BestInv, Cheapest, Visit
  PROVE  Cheapest'
<1> SUFFICES ASSUME Costing' PROVE Cheapest'
  BY DEF Cheapest
<1>1. /\ current # NoNode /\ current \in Node /\ phase = "search" /\ edges = {}
      /\ current' = NoNode /\ Open' = queue /\ Open = queue \cup {current}
      /\ UNCHANGED <<db, query, priority, parent, queue, edges, path, answer>>
      /\ NoNode \notin Node /\ queue \subseteq Node
      /\ \A f : Arrival(f)' = Arrival(f)
  BY NullAssumption DEF Visit, BestInv, SearchInv, Shape, TypeOK, Open, Arrival
<1>2. Costing
  BY <1>1, SameQuery, SameCosting DEF Costing
<1>3. /\ \A n \in Node : n # current => status'[n] = status[n]
      /\ status'[current] = "VISITED" /\ status[current] = "DISCOVERED"
  BY <1>1, <1>2
  DEF Visit, StatusOnVisit, Costing, BestPath, Touring, BestInv, SearchInv, TypeOK, OpenIsDiscovered
<1>4. \A n \in Node : Undisc(n)' <=> Undisc(n)
  BY <1>3 DEF Undisc
<1>5. PricedByWay'
  BY <1>1, <1>2, <1>4, SameCosts DEF Cheapest, PricedByWay
<1>6. PricedByParent'
  BY <1>1, <1>2, <1>3, SameQuery DEF Cheapest, PricedByParent, BestInv, SearchInv, TypeOK
<1>7. CheapestFirst'
  BY <1>1, <1>2, <1>3 DEF Cheapest, CheapestFirst
<1>8. Settled'
  BY <1>1, <1>2, <1>3, SameQuery DEF Cheapest, Settled
<1>9. PathOfParents'
  BY <1>1, <1>2 DEF Cheapest, PathOfParents
<1> QED BY <1>5, <1>6, <1>7, <1>8, <1>9 DEF Cheapest

(* A flight to a node that is discovered already is the flight from its    *)
(* parent, since no other one lands there then: and the parent is no       *)
(* dearer than the node being expanded.                                    *)
LEMMA KnownIsNoDearer ==
  ASSUME BestInv, Cheapest, Costing, current # NoNode,
         NEW f \in db, Catches(current, f), ~Undisc(Arrival(f))
  PROVE  priority[Arrival(f)] <= priority[current] + record[f].price
<1> DEFINE child == Arrival(f)
<1>1. child \in Node /\ record[f].price \in Nat /\ current \in Node /\ current \in Open
  BY PriceType DEF BestInv, SearchInv, TypeOK, Open
<1>2. priority[current] \in Nat
  <2>1. ~Undisc(current)
    BY <1>1 DEF BestInv, SearchInv, OpenIsDiscovered, Undisc
  <2> QED BY <1>1, <2>1, IntMaxAssumption DEF Cheapest, PricedByWay
<1>3. CASE child = query.from
  BY <1>1, <1>2, <1>3 DEF Cheapest, PricedByWay
<1>4. CASE child # query.from
  <2>0. parent[child] \in Node /\ parent[child] # NoNode
    <3>1. priority[child] < IntMax
      BY <1>1, IntMaxAssumption DEF Cheapest, PricedByWay
    <3> QED BY <1>1, <1>4, <3>1 DEF BestInv, Parents, Costing, SearchInv, TypeOK
  <2>1. status[parent[child]] = "VISITED" \/ parent[child] = current
    BY <1>1, <2>0 DEF Cheapest, PricedByParent
  <2>2. PICK g \in db : /\ Arrival(g) = child
                        /\ priority[child] = priority[parent[child]] + record[g].price
    BY <1>1, <2>0 DEF Cheapest, PricedByParent
  <2>3. g = f
    BY <2>2 DEF Costing, NoSharedArrival
  <2>4. priority[parent[child]] <= priority[current]
    BY <1>1, <1>2, <2>0, <2>1 DEF Cheapest, CheapestFirst
  <2>5. priority[parent[child]] \in Int
    BY <2>0 DEF BestInv, SearchInv, TypeOK
  <2> QED BY <1>1, <1>2, <2>2, <2>3, <2>4, <2>5
<1> QED BY <1>3, <1>4

(* A new child costs what its parent costs and the flight: the candidate   *)
(* fits into an int, and is less than the INT_MAX of a node not reached.   *)
LEMMA CheapestScanEdge ==
  ASSUME BestInv, Cheapest, ScanEdge
  PROVE  Cheapest'
<1> SUFFICES ASSUME Costing' PROVE Cheapest'
  BY DEF Cheapest
<1>1. /\ current # NoNode /\ current \in Node /\ phase = "search"
      /\ UNCHANGED <<db, query, phase, current, walk, path, answer>>
      /\ \A g : Arrival(g)' = Arrival(g)
  BY DEF ScanEdge, BestInv, SearchInv, Shape, TypeOK, Arrival
<1>2. Costing
  BY <1>1, SameQuery, SameCosting DEF Costing
<1>3. PICK f \in FirstOf(edges) :
        /\ edges' = edges \ {f}
        /\ IF Fresh(Arrival(f))
           THEN /\ IF Better(current, f)
                   THEN /\ priority' = [priority EXCEPT ![Arrival(f)] = Candidate(current, f)]
                        /\ parent' = [parent EXCEPT ![Arrival(f)] = current]
                   ELSE UNCHANGED <<priority, parent>>
                /\ status' = StatusOnDiscover(query.op, Arrival(f))
                /\ queue' = queue \cup {Arrival(f)}
           ELSE UNCHANGED <<priority, parent, status, queue>>
  BY <1>2 DEF ScanEdge, Costing, BestPath
<1> DEFINE child == Arrival(f)
           cost == priority[current] + record[f].price
<1>4. f \in db /\ Catches(current, f)
  <2>1. f \in edges /\ edges \subseteq DiscreteChildrenOf(current)
    BY <1>1, <1>2, <1>3 DEF FirstOf, BestInv, Explored, Costing
  <2> QED BY <2>1 DEF DiscreteChildrenOf, Catches
<1>5. child \in Node /\ record[f].price \in Nat
  BY <1>4, PriceType DEF BestInv, SearchInv
<1>6. /\ current \in Open /\ ~Undisc(current) /\ status[current] = "DISCOVERED"
      /\ priority[current] \in CostsOf(query.from, current)
      /\ priority[current] \in Nat
  <2>1. current \in Open /\ status[current] = "DISCOVERED"
    BY <1>1, NullAssumption DEF BestInv, SearchInv, OpenIsDiscovered, Open
  <2> QED BY <1>1, <1>2, <2>1, IntMaxAssumption DEF Cheapest, PricedByWay, Undisc
<1>7. \A g \in db : Arrival(g) \in Node
  BY PriceType DEF BestInv, SearchInv
<1>8. CASE ~Fresh(child)
  <2>1. UNCHANGED <<priority, parent, status, queue>> /\ Open' = Open
    BY <1>1, <1>3, <1>8 DEF Open
  <2>2. priority[child] <= cost
    BY <1>1, <1>2, <1>4, <1>8, KnownIsNoDearer DEF Fresh, Undisc
  <2>3. PricedByWay'
    BY <1>1, <1>2, <2>1, SameCosts DEF Cheapest, PricedByWay, Undisc
  <2>4. PricedByParent'
    BY <1>1, <1>2, <2>1, SameQuery DEF Cheapest, PricedByParent
  <2>5. CheapestFirst'
    BY <1>1, <1>2, <2>1 DEF Cheapest, CheapestFirst
  <2>6. Settled'
    BY <1>1, <1>2, <1>3, <2>1, <2>2, SameQuery DEF Cheapest, Settled
  <2>7. PathOfParents'
    BY <1>1, <1>2, <2>1 DEF Cheapest, PathOfParents
  <2> QED BY <2>3, <2>4, <2>5, <2>6, <2>7 DEF Cheapest
<1>9. CASE Fresh(child)
  <2>1. /\ status' = [status EXCEPT ![child] = "DISCOVERED"]
        /\ queue' = queue \cup {child}
        /\ Undisc(child)
    BY <1>2, <1>3, <1>9 DEF Fresh, StatusOnDiscover, Costing, BestPath, Touring, Undisc
  <2>2. child # current /\ Open' = Open \cup {child}
    BY <1>1, <1>5, <1>6, <2>1, NullAssumption DEF Open
  <2>3. cost \in CostsOf(query.from, child) /\ cost \in 0..(IntMax - 1)
    <3>1. cost \in CostsOf(query.from, child)
      BY <1>4, <1>6, CostOfOneMore DEF BestInv, SearchInv, TypeOK
    <3>2. cost < IntMax
      BY <1>2, <1>4, <3>1, CostFits DEF Costing
    <3> QED BY <1>5, <1>6, <3>1, <3>2, IntMaxAssumption
  <2>4. Candidate(current, f) = cost
    <3>1. Weight(query.op, current, f) = record[f].price
      BY <1>2 DEF Weight, Costing
    <3>2. cost \in 0..IntMax
      BY <2>3, IntMaxAssumption
    <3> HIDE DEF cost
    <3>3. ToInt(cost) = cost
      BY <3>2, ToIntFits
    <3> QED BY <1>2, <3>1, <3>3 DEF Candidate, Costing, BestPath, cost
  <2>5. Better(current, f)
    <3>1. priority[child] = IntMax
      BY <1>2, <1>5, <2>1 DEF BestInv, Parents, Costing
    <3> QED BY <2>3, <2>4, <3>1, IntMaxAssumption DEF Better
  <2> HIDE DEF cost
  <2>6. /\ \A n \in Node : n # child => /\ priority'[n] = priority[n] /\ parent'[n] = parent[n]
                                        /\ status'[n] = status[n]
        /\ priority'[child] = cost /\ parent'[child] = current /\ status'[child] = "DISCOVERED"
    BY <1>3, <1>5, <1>9, <2>1, <2>4, <2>5 DEF BestInv, SearchInv, TypeOK
  <2>7. \A n \in Node : n # child => (Undisc(n)' <=> Undisc(n))
    BY <2>6 DEF Undisc
  <2>8. query.from \in Node /\ query.from # child
    <3>1. ~Undisc(query.from)
      BY <1>1, <1>2 DEF BestInv, Explored, Costing
    <3> QED BY <1>2, <2>1, <3>1, QueryType DEF Costing, BestPath
  <2>9. cost >= priority[current] /\ cost \in Nat
    BY <1>5, <1>6 DEF cost
  <2>10. PricedByWay'
    BY <1>1, <1>2, <2>3, <2>6, <2>7, <2>8, SameCosts DEF Cheapest, PricedByWay
  <2>11. PricedByParent'
    <3> SUFFICES ASSUME NEW n \in Node, parent'[n] # NoNode
                 PROVE  /\ status'[parent'[n]] = "VISITED" \/ parent'[n] = current
                        /\ \E g \in db : /\ Catches(parent'[n], g) /\ Arrival(g) = n
                                         /\ priority'[n] = priority'[parent'[n]] + record[g].price
      BY <1>1, SameQuery DEF PricedByParent
    <3>1. CASE n = child
      BY <1>1, <1>4, <2>2, <2>6, <3>1 DEF cost
    <3>2. CASE n # child
      <4>1. parent[n] # NoNode /\ parent[n] \in Node
        BY <2>6, <3>2 DEF BestInv, SearchInv, TypeOK
      <4>2. /\ status[parent[n]] = "VISITED" \/ parent[n] = current
            /\ \E g \in db : /\ Catches(parent[n], g) /\ Arrival(g) = n
                             /\ priority[n] = priority[parent[n]] + record[g].price
        BY <1>2, <4>1 DEF Cheapest, PricedByParent
      <4>3. parent[n] # child
        BY <1>2, <2>1, <4>1 DEF BestInv, Parents, Costing
      <4> QED BY <2>6, <3>2, <4>1, <4>2, <4>3
    <3> QED BY <3>1, <3>2
  <2>12. CheapestFirst'
    <3>1. ASSUME NEW m \in Node, status'[m] = "VISITED", NEW n \in Open'
          PROVE  priority'[m] <= priority'[n]
      <4>1. m # child /\ status[m] = "VISITED"
        BY <2>6, <3>1
      <4>2. \A k \in Open : priority[m] <= priority[k]
        BY <1>2, <4>1 DEF Cheapest, CheapestFirst
      <4>3. \A k \in Open : k \in Node /\ k # child
        BY <1>1, <2>1 DEF Open, BestInv, SearchInv, TypeOK, OpenIsDiscovered, Undisc
      <4>4. priority[m] \in Int
        BY DEF BestInv, SearchInv, TypeOK
      <4>5. CASE n = child
        <5>1. priority[m] <= priority[current]
          BY <1>6, <4>2
        <5> QED BY <1>6, <2>6, <2>9, <4>1, <4>4, <4>5, <5>1
      <4>6. CASE n # child
        BY <2>2, <2>6, <4>1, <4>2, <4>3, <4>6
      <4> QED BY <4>5, <4>6
    <3>2. ASSUME NEW n \in queue' PROVE priority'[current] <= priority'[n]
      <4>1. CASE n = child
        BY <1>1, <2>2, <2>6, <2>9, <4>1
      <4>2. CASE n # child
        <5>1. n \in queue /\ n \in Node
          BY <2>1, <4>2 DEF BestInv, SearchInv, TypeOK
        <5> QED BY <1>1, <1>2, <2>2, <2>6, <4>2, <5>1 DEF Cheapest, CheapestFirst
      <4> QED BY <4>1, <4>2
    <3> QED BY <1>1, <3>1, <3>2 DEF CheapestFirst
  <2>13. Settled'
    <3> SUFFICES ASSUME NEW m \in Node, NEW g \in db, Catches(m, g),
                        status'[m] = "VISITED" \/ (m = current /\ g \notin edges')
                 PROVE  priority'[Arrival(g)] <= priority'[m] + record[g].price
      BY <1>1, SameQuery DEF Settled
    <3>1. m # child
      BY <2>2, <2>6
    <3>2. CASE m = current /\ g = f
      BY <1>1, <2>2, <2>6, <2>9, <3>2 DEF cost
    <3>3. CASE ~(m = current /\ g = f)
      <4>1. status[m] = "VISITED" \/ (m = current /\ g \notin edges)
        BY <1>3, <2>6, <3>1, <3>3
      <4>2. priority[Arrival(g)] <= priority[m] + record[g].price
        BY <1>2, <4>1 DEF Cheapest, Settled
      <4>3. Arrival(g) # child
        <5>1. ~Undisc(Arrival(g))
          BY <1>1, <1>2, <4>1 DEF BestInv, Explored, Costing
        <5> QED BY <2>1, <5>1
      <4> QED BY <1>7, <2>6, <3>1, <4>2, <4>3
    <3> QED BY <3>2, <3>3
  <2>14. PathOfParents'
    <3>1. path = <<>>
      BY <1>1, <1>2 DEF BestInv, Stopped, Costing
    <3>2. 1..(Len(path') - 1) = {}
      BY <1>1, <3>1
    <3> QED BY <3>2 DEF PathOfParents
  <2> QED BY <2>10, <2>11, <2>12, <2>13, <2>14 DEF Cheapest
<1> QED BY <1>8, <1>9

(* Each step back along the path is to a parent. *)
LEMMA CheapestBacktrack ==
  ASSUME BestInv, Cheapest, Backtrack
  PROVE  Cheapest'
<1> SUFFICES ASSUME Costing' PROVE Cheapest'
  BY DEF Cheapest
<1>1. /\ phase = "walk" /\ path \in Seq(Node)
      /\ path' = <<walk>> \o path
      /\ UNCHANGED <<db, query, phase, status, priority, parent, queue, current, edges>>
  BY DEF Backtrack, search, BestInv, SearchInv, TypeOK
<1>2. Costing /\ PricedByWay' /\ PricedByParent' /\ CheapestFirst' /\ Settled'
  BY <1>1, CostKept
<1>3. /\ Len(path') = Len(path) + 1 /\ path'[1] = walk
      /\ \A i \in 1..Len(path) : path'[i + 1] = path[i]
      /\ Len(path) \in Nat
  BY <1>1
<1>4. ASSUME NEW i \in 1..(Len(path') - 1) PROVE path'[i] = parent'[path'[i+1]]
  <2>1. CASE i = 1
    <3>1. path # <<>> /\ path'[2] = path[1]
      BY <1>1, <1>3, <2>1
    <3>2. walk = parent[path[1]]
      BY <1>1, <1>2, <3>1 DEF BestInv, Chained, Costing
    <3> QED BY <1>1, <1>3, <2>1, <3>1, <3>2
  <2>2. CASE i # 1
    <3>1. i - 1 \in 1..(Len(path) - 1)
      BY <1>3, <2>2
    <3>2. path'[i] = path[i - 1] /\ path'[i + 1] = path[(i - 1) + 1]
      BY <1>3, <3>1
    <3> QED BY <1>1, <1>2, <3>1, <3>2 DEF Cheapest, PathOfParents
  <2> QED BY <2>1, <2>2
<1>5. PathOfParents'
  BY <1>4 DEF PathOfParents
<1> QED BY <1>2, <1>5 DEF Cheapest

-----------------------------------------------------------------------------
(* The invariant holds, and the answer costs least *)

CostInv == BestInv /\ Cheapest

LEMMA CostInit == Init => CostInv
<1> SUFFICES ASSUME Init PROVE CostInv
  OBVIOUS
<1>1. query \notin Queries
  BY QueriesAssumption, NullAssumption DEF Init, Unused
<1> QED BY <1>1, BestInit DEF CostInv, Cheapest, Costing, BestPath

LEMMA CostStep == CostInv /\ [Next]_vars => CostInv'
<1> SUFFICES ASSUME CostInv, [Next]_vars PROVE CostInv'
  OBVIOUS
<1>1. BestInv /\ Cheapest /\ BestInv'
  BY BestStep DEF CostInv
<1> SUFFICES ASSUME Costing' PROVE Cheapest'
  BY <1>1 DEF CostInv, Cheapest
<1>2. ASSUME NEW q \in Queries, Ask(q) PROVE Cheapest'
  BY <1>1, <1>2, CheapestAsk
<1>3. ASSUME NEW q \in Queries, AskOutOfRange(q) PROVE Cheapest'
  BY <1>3 DEF AskOutOfRange, Costing
<1>4. CASE Pop
  BY <1>1, <1>4, CheapestPop
<1>5. CASE ScanEdge
  BY <1>1, <1>5, CheapestScanEdge
<1>6. CASE Visit
  BY <1>1, <1>6, CheapestVisit
<1>7. CASE Backtrack
  BY <1>1, <1>7, CheapestBacktrack
<1>8. CASE Exhaust \/ Backtracked \/ Convert \/ UNCHANGED vars
  <2>1. /\ phase # "error"
        /\ UNCHANGED <<db, query, status, priority, parent, queue, current, edges, path>>
    BY <1>8 DEF Exhaust, Backtracked, Convert, vars, search, Costing
  <2>2. Costing /\ PricedByWay' /\ PricedByParent' /\ CheapestFirst' /\ Settled'
    BY <1>1, <2>1, CostKept
  <2>3. PathOfParents'
    BY <1>1, <2>1, <2>2 DEF Cheapest, PathOfParents
  <2> QED BY <2>2, <2>3 DEF Cheapest
<1>9. CASE Return
  <2>1. query' = NoQuery /\ NoQuery \notin Queries
    BY <1>9, QueriesAssumption, NullAssumption DEF Return
  <2> QED BY <2>1 DEF Costing, BestPath
<1> QED
  BY <1>2, <1>3, <1>4, <1>5, <1>6, <1>7, <1>8, <1>9 DEF Next, Step

LEMMA CostInvariant == Spec => []CostInv
BY CostInit, CostStep, PTL DEF Spec

(* The flights of the answer cost what the node where the search stops     *)
(* costs: each of them is the one that its end was discovered by.          *)
LEMMA AnswerCosts ==
  ASSUME CostInv, Costing, phase = "answered"
  PROVE  PriceOf(answer) = priority[Last]
<1>1. BestInv /\ BestPath /\ Priced
  BY IntMaxAssumption DEF CostInv, Costing, Cheapest, PricedByWay, Priced, Undisc
<1>2. /\ Len(answer) = Len(path) - 1 /\ Len(answer) \in Nat
      /\ path[1] = query.from
      /\ \A i \in 1..Len(answer) : Catches(path[i], answer[i]) /\ Arrival(answer[i]) = path[i+1]
  BY <1>1, AnswerMatchesPath
<1>3. path \in Seq(Node) /\ path # <<>> /\ answer \in Seq(Flight)
  BY <1>1 DEF BestInv, Chained, SearchInv, TypeOK
<1>4. ASSUME NEW i \in 1..Len(answer)
      PROVE  priority[path[i+1]] = priority[path[i]] + record[answer[i]].price
  <2> DEFINE n == path[i+1]
  <2>1. n \in Node /\ path[i] \in Node /\ path[i] = parent[n] /\ answer[i] \in db /\ Arrival(answer[i]) = n
    <3>1. i \in 1..(Len(path) - 1) /\ i \in 1..Len(path) /\ i + 1 \in 1..Len(path)
      BY <1>2, <1>3
    <3> QED BY <1>2, <1>3, <3>1 DEF CostInv, Cheapest, PathOfParents, Catches
  <2>2. PICK g \in db : Arrival(g) = n /\ priority[n] = priority[parent[n]] + record[g].price
    BY <2>1, NullAssumption DEF CostInv, Cheapest, PricedByParent
  <2>3. g = answer[i]
    BY <2>1, <2>2 DEF Costing, NoSharedArrival
  <2> QED BY <2>1, <2>2, <2>3
<1>5. PICK g : IsSum(g, answer) /\ PriceOf(answer) = g[Len(answer)]
  BY <1>3, PriceIsSum
<1>6. g[0] = 0 /\ \A i \in 1..Len(answer) : g[i] = g[i-1] + record[answer[i]].price
  BY <1>3, <1>5, SumSteps
<1> DEFINE S == {k \in 0..Len(answer) : g[k] = priority[path[k+1]]}
<1>7. 0 \in S
  BY <1>2, <1>6 DEF CostInv, Cheapest, PricedByWay
<1>8. ASSUME NEW k \in 0..(Len(answer) - 1), k \in S PROVE k + 1 \in S
  <2>1. k + 1 \in 1..Len(answer) /\ k + 1 \in 0..Len(answer) /\ (k + 1) - 1 = k
    BY <1>2
  <2>2. g[k + 1] = g[k] + record[answer[k + 1]].price
    BY <1>6, <2>1
  <2>3. priority[path[(k + 1) + 1]] = priority[path[k + 1]] + record[answer[k + 1]].price
    BY <1>4, <2>1
  <2> QED BY <1>8, <2>1, <2>2, <2>3
<1>9. g[Len(answer)] = priority[path[Len(answer) + 1]]
  <2> HIDE DEF S
  <2>1. 0..Len(answer) \subseteq S
    BY <1>2, <1>7, <1>8, UpTo
  <2>2. Len(answer) \in S
    BY <1>2, <2>1
  <2> QED BY <2>2 DEF S
<1> QED BY <1>2, <1>3, <1>5, <1>9 DEF Last

(* A way that costs less than the node where the search stopped would have *)
(* been followed to its end, and the search would have stopped there: each *)
(* node on it is visited, and costs no more than the way up to it.         *)
LEMMA NoWayIsCheaper ==
  ASSUME CostInv, Costing, phase = "answered",
         NEW s \in Ways(query.from, query.to, Cardinality(db))
  PROVE  priority[Last] <= PriceOf(s)
<1>1. BestInv /\ BestPath /\ db \in Databases /\ db \subseteq Flight /\ TypeOK
  BY DatabasesAssumption DEF CostInv, Costing, BestInv, SearchInv, TypeOK
<1>2. Cardinality(db) \in Nat
  BY <1>1, FinitenessAssumption, FS_CardinalityType
<1>3. /\ s \in Seq(db) /\ Len(s) \in Nat /\ s \in Seq(Flight)
      /\ IsItinerary(query.from, s) /\ InTime(LandsFrom(query.from, s), query.to)
  <2>1. s \in Seq(db) /\ IsItinerary(query.from, s) /\ InTime(LandsFrom(query.from, s), query.to)
    BY <1>2, WaysAre
  <2> QED BY <1>1, <2>1
<1>4. PICK g : IsSum(g, s) /\ PriceOf(s) = g[Len(s)]
  BY <1>3, PriceIsSum
<1>5. /\ g[0] = 0
      /\ \A i \in 1..Len(s) : g[i] = g[i-1] + record[s[i]].price
      /\ \A i \in 0..Len(s) : g[i] \in Nat /\ g[i] <= g[Len(s)]
  BY <1>3, <1>4, SumSteps
<1>6. /\ Last \in Node /\ status[Last] = "VISITED"
      /\ \A n \in Node : status[n] = "VISITED" /\ InTime(n, query.to) => n = Last
  BY <1>1 DEF BestInv, Stopped
<1>7. priority[Last] \in Int
  BY <1>6 DEF BestInv, SearchInv, TypeOK, CostInv
<1> SUFFICES ASSUME g[Len(s)] < priority[Last] PROVE FALSE
  <2>1. g[Len(s)] \in Int
    BY <1>3, <1>5
  <2> QED BY <1>4, <1>7, <2>1
<1> DEFINE At(k) == IF k = 0 THEN query.from ELSE Arrival(s[k])
           S == {k \in 0..Len(s) : /\ At(k) \in Node /\ status[At(k)] = "VISITED"
                                   /\ priority[At(k)] <= g[k]}
<1>8. ASSUME NEW k \in 0..Len(s), At(k) \in Node, ~Undisc(At(k)), priority[At(k)] <= g[k]
      PROVE  k \in S
  <2>1. priority[At(k)] < priority[Last]
    <3>1. priority[At(k)] \in Int /\ g[k] \in Int /\ g[Len(s)] \in Int /\ g[k] <= g[Len(s)]
      BY <1>1, <1>3, <1>5, <1>8 DEF TypeOK
    <3> QED BY <1>7, <1>8, <3>1
  <2>2. At(k) \notin Open
    <3>1. ASSUME At(k) \in Open PROVE FALSE
      <4>1. priority[Last] <= priority[At(k)]
        BY <1>6, <3>1 DEF CostInv, Cheapest, CheapestFirst
      <4>2. priority[At(k)] \in Int
        BY <1>1, <1>8 DEF TypeOK
      <4> QED BY <1>7, <2>1, <4>1, <4>2
    <3> QED BY <3>1
  <2>3. status[At(k)] = "VISITED"
    BY <1>1, <1>8, <2>2 DEF BestInv, Explored, TypeOK, Status, Undisc
  <2> QED BY <1>8, <2>3
<1>9. 0 \in S
  <2>1. query.from \in Node /\ ~Undisc(query.from) /\ priority[query.from] = 0
    BY <1>1, QueryType DEF CostInv, Cheapest, PricedByWay, BestInv, Explored, BestPath
  <2> QED BY <1>3, <1>5, <1>8, <2>1
<1>10. ASSUME NEW k \in 0..(Len(s) - 1), k \in S PROVE k + 1 \in S
  <2> DEFINE f == s[k + 1]
  <2>1. /\ k + 1 \in 1..Len(s) /\ k + 1 \in 0..Len(s) /\ k \in 0..Len(s)
        /\ (k + 1) - 1 = k /\ k + 1 # 0 /\ f \in db
    BY <1>3
  <2>2. Catches(At(k), f)
    <3>1. CASE k = 0
      BY <1>3, <2>1, <3>1 DEF IsItinerary
    <3>2. CASE k # 0
      <4>1. k + 1 # 1
        BY <3>2
      <4> QED BY <1>3, <2>1, <3>2, <4>1 DEF IsItinerary
    <3> QED BY <3>1, <3>2
  <2>3. At(k) \in Node /\ status[At(k)] = "VISITED" /\ priority[At(k)] <= g[k]
    BY <1>10
  <2>4. At(k + 1) = Arrival(f) /\ Arrival(f) \in Node /\ record[f].price \in Nat
    BY <1>1, <2>1, PriceType
  <2>5. ~Undisc(Arrival(f))
    BY <1>1, <2>1, <2>2, <2>3 DEF BestInv, Explored
  <2>6. priority[Arrival(f)] <= priority[At(k)] + record[f].price
    BY <2>1, <2>2, <2>3 DEF CostInv, Cheapest, Settled
  <2>7. g[k + 1] = g[k] + record[f].price /\ g[k] \in Nat
    BY <1>5, <2>1
  <2>8. priority[Arrival(f)] \in Int /\ priority[At(k)] \in Int
    BY <1>1, <2>3, <2>4 DEF TypeOK
  <2>9. priority[Arrival(f)] <= g[k + 1]
    BY <2>3, <2>4, <2>6, <2>7, <2>8
  <2> QED BY <1>8, <2>1, <2>4, <2>5, <2>9
<1>11. Len(s) \in S
  <2> HIDE DEF S
  <2>1. 0..Len(s) \subseteq S
    BY <1>3, <1>9, <1>10, UpTo
  <2> QED BY <1>3, <2>1
<1>12. At(Len(s)) = LandsFrom(query.from, s)
  <2>1. Len(s) = 0 <=> s = <<>>
    BY <1>3
  <2> QED BY <2>1 DEF LandsFrom
<1>13. At(Len(s)) = Last
  BY <1>3, <1>6, <1>11, <1>12
<1> QED BY <1>7, <1>11, <1>13, <1>5

(* minimum_cost_path returns a path of least price if no two flights land  *)
(* at one airport at the same time and the prices fit into an int.         *)
THEOREM LeastPriceWithoutSharedArrival == Spec => []LeastPriceIfNoSharedArrival
<1>1. CostInv => LeastPriceIfNoSharedArrival
  <2> SUFFICES ASSUME CostInv, Costed, NoSharedArrival, PricesFit,
                      NEW s \in Ways(query.from, query.to, Cardinality(db))
               PROVE  PriceOf(answer) <= PriceOf(s)
    BY DEF LeastPriceIfNoSharedArrival
  <2>1. Costing /\ phase = "answered"
    BY DEF Costing, Costed, BestPath, Touring, TourOps, CostInv, BestInv, SearchInv, Shape
  <2> QED BY <2>1, AnswerCosts, NoWayIsCheaper
<1> QED BY <1>1, CostInvariant, PTL

-----------------------------------------------------------------------------
(***************************************************************************)
(* No query runs for ever                                                  *)
(***************************************************************************)

WorkInv == DiscoveredWithin /\ edges \subseteq db

LEMMA WorkInit == Init => WorkInv
BY QueriesAssumption, NullAssumption DEF Init, Unused, WorkInv, DiscoveredWithin

(* The numbers that Work is made of. *)
LEMMA WorkNumbers ==
  ASSUME SearchInv, WorkInv, query \in Queries
  PROVE  /\ IsFiniteSet(db) /\ Cardinality(db) \in Nat
         /\ IsFiniteSet(NodesFrom(query.from)) /\ Cardinality(NodesFrom(query.from)) \in Nat
         /\ Open \subseteq NodesFrom(query.from)
         /\ IsFiniteSet(queue) /\ Cardinality(queue) \in Nat
         /\ IsFiniteSet(edges) /\ Cardinality(edges) \in Nat
         /\ IsFiniteSet(Unseen) /\ Cardinality(Unseen) \in Nat
<1>1. query.from \in Node /\ db \in Databases
  BY QueryType DEF SearchInv, TypeOK
<1>2. /\ IsFiniteSet(db) /\ Cardinality(db) \in Nat
      /\ IsFiniteSet(NodesFrom(query.from)) /\ NodesFrom(query.from) \subseteq Node
  BY <1>1, NodesAreFinite
<1>3. Open \subseteq Node /\ queue \subseteq Open
  BY DEF Open, SearchInv, TypeOK
<1>4. Open \subseteq NodesFrom(query.from)
  <2> SUFFICES ASSUME NEW n \in Open PROVE n \in NodesFrom(query.from)
    OBVIOUS
  <2>1. n \in Node /\ status[n] = "DISCOVERED"
    BY <1>3 DEF SearchInv, OpenIsDiscovered
  <2> QED BY <2>1 DEF WorkInv, DiscoveredWithin
<1>5. Unseen \subseteq NodesFrom(query.from) /\ queue \subseteq NodesFrom(query.from) /\ edges \subseteq db
  BY <1>3, <1>4 DEF Unseen, WorkInv
<1>6. IsFiniteSet(queue) /\ Cardinality(queue) \in Nat /\ Cardinality(NodesFrom(query.from)) \in Nat
  BY <1>2, <1>5, Fewer
<1>7. IsFiniteSet(Unseen) /\ Cardinality(Unseen) \in Nat
  BY <1>2, <1>5, Fewer
<1>8. IsFiniteSet(edges) /\ Cardinality(edges) \in Nat
  BY <1>2, <1>5, Fewer
<1> QED BY <1>2, <1>4, <1>6, <1>7, <1>8

LEMMA SearchWorkIs ==
  ASSUME SearchInv, WorkInv, phase = "search"
  PROVE  SearchWork \in Nat /\ Work = SearchWork + Cardinality(NodesFrom(query.from)) + 4
<1>1. query \in Queries
  BY DEF SearchInv, Shape
<1>2. /\ Cardinality(db) \in Nat /\ Cardinality(queue) \in Nat /\ Cardinality(edges) \in Nat
      /\ Cardinality(Unseen) \in Nat
  BY <1>1, WorkNumbers
<1>3. (Cardinality(db) + 2) * (Cardinality(Unseen) + Cardinality(queue)) \in Nat
  BY <1>2
<1>4. SearchWork \in Nat
  BY <1>2, <1>3 DEF SearchWork
<1> QED BY <1>4 DEF Work

LessToDo == Work' \in 0..(Work - 1)

(* Two states of one search. *)
LEMMA SearchGetsOn ==
  ASSUME SearchInv, WorkInv, SearchInv', WorkInv', phase = "search", phase' = "search",
         UNCHANGED <<db, query>>, SearchWork' < SearchWork
  PROVE  LessToDo
<1>1. SearchWork \in Nat /\ Work = SearchWork + Cardinality(NodesFrom(query.from)) + 4
  BY SearchWorkIs
<1>2. SearchWork' \in Nat /\ Work' = SearchWork' + Cardinality(NodesFrom(query.from))' + 4
  <2>1. (SearchInv /\ WorkInv /\ phase = "search" =>
          SearchWork \in Nat /\ Work = SearchWork + Cardinality(NodesFrom(query.from)) + 4)'
    BY SearchWorkIs, PTL
  <2> QED BY <2>1
<1>3. Cardinality(NodesFrom(query.from))' = Cardinality(NodesFrom(query.from))
  BY ReachableSame
<1>4. Cardinality(NodesFrom(query.from)) \in Nat
  BY WorkNumbers DEF SearchInv, Shape
<1> QED BY <1>1, <1>2, <1>3, <1>4 DEF LessToDo

(* A node leaves the heap, for which its edges come in; or it just leaves. *)
LEMMA WorkPop ==
  ASSUME SearchInv, WorkInv, SearchInv', Pop
  PROVE  WorkInv' /\ LessToDo
<1>1. PICK n \in Top :
        /\ queue' = queue \ {n}
        /\ IF status[n] = "DISCOVERED"
           THEN current' = n /\ edges' = DiscreteChildrenOf(n)
           ELSE UNCHANGED <<current, edges>>
  BY DEF Pop, Popped
<1>2. n \in queue /\ n \in Node /\ n # NoNode
  BY <1>1, NullAssumption DEF Top, SearchInv, TypeOK
<1>3. /\ current = NoNode /\ phase = "search" /\ phase' = "search" /\ query \in Queries
      /\ UNCHANGED <<db, query, status>>
  BY DEF Pop, SearchInv, Shape
<1>4. WorkInv' /\ Unseen' = Unseen
  BY <1>1, <1>3, SameUnseen DEF WorkInv, DiscreteChildrenOf
<1>5. /\ IsFiniteSet(db) /\ Cardinality(db) \in Nat /\ IsFiniteSet(queue)
      /\ Cardinality(queue) \in Nat /\ Cardinality(edges) \in Nat /\ Cardinality(Unseen) \in Nat
  BY <1>3, WorkNumbers
<1>6. Cardinality(queue') \in Nat /\ Cardinality(queue') <= Cardinality(queue) - 1
  BY <1>1, <1>2, <1>5, Fewer
<1>7. Cardinality(edges') \in Nat /\ Cardinality(edges') <= Cardinality(db)
  BY <1>3, <1>4, <1>5, Fewer DEF WorkInv
<1>8. SearchWork' < SearchWork
  <2> DEFINE k == Cardinality(db) + 2
             a == Cardinality(Unseen) + Cardinality(queue')
             b == Cardinality(Unseen) + Cardinality(queue)
  <2>1. k * a \in Nat /\ k * b \in Nat /\ k * a + k <= k * b
    <3>1. k \in Nat /\ a \in Nat /\ b \in Nat /\ a + 1 <= b
      BY <1>5, <1>6
    <3> HIDE DEF k, a, b
    <3> QED BY <3>1, Times
  <2>2. SearchWork = k * b + Cardinality(edges) + 0
    BY <1>3 DEF SearchWork
  <2>3. PICK e \in 0..1 : SearchWork' = k * a + Cardinality(edges') + e
    BY <1>3, <1>4 DEF SearchWork
  <2> HIDE DEF a, b
  <2> QED BY <1>5, <1>7, <2>1, <2>2, <2>3
<1> QED BY <1>3, <1>4, <1>8, SearchGetsOn

(* An edge is taken; the child may go from the undiscovered nodes to the   *)
(* heap.                                                                   *)
LEMMA WorkScanEdge ==
  ASSUME SearchInv, WorkInv, SearchInv', ScanEdge
  PROVE  WorkInv' /\ LessToDo
<1>1. PICK f \in FirstOf(edges) :
        /\ edges' = edges \ {f}
        /\ IF Fresh(Arrival(f))
           THEN status' = StatusOnDiscover(query.op, Arrival(f)) /\ queue' = queue \cup {Arrival(f)}
           ELSE UNCHANGED <<status, queue>>
  BY DEF ScanEdge
<1> DEFINE child == Arrival(f)
<1>2. /\ current # NoNode /\ current' = current /\ phase = "search" /\ phase' = "search"
      /\ query \in Queries /\ UNCHANGED <<db, query>>
  BY DEF ScanEdge, SearchInv, Shape
<1>3. f \in edges /\ f \in db /\ child \in NodesFrom(query.from)
  BY <1>1 DEF FirstOf, WorkInv, NodesFrom
<1>4. /\ Cardinality(db) \in Nat /\ IsFiniteSet(queue) /\ Cardinality(queue) \in Nat
      /\ IsFiniteSet(edges) /\ Cardinality(edges) \in Nat /\ Cardinality(Unseen) \in Nat
  BY <1>2, WorkNumbers
<1>5. Cardinality(edges') \in Nat /\ Cardinality(edges') <= Cardinality(edges) - 1
  BY <1>1, <1>3, <1>4, Fewer
<1>6. /\ WorkInv' /\ Cardinality(Unseen') \in Nat /\ Cardinality(queue') \in Nat
      /\ Cardinality(Unseen') + Cardinality(queue') <= Cardinality(Unseen) + Cardinality(queue)
  <2>1. edges' \subseteq db'
    BY <1>1, <1>2 DEF WorkInv
  <2>2. CASE ~Fresh(child)
    BY <1>1, <1>2, <1>4, <2>1, <2>2, SameUnseen DEF WorkInv
  <2>3. CASE Fresh(child)
    <3>1. /\ status' = StatusOnDiscover(query.op, child) /\ queue' = queue \cup {child}
          /\ status[child] = "UNDISCOVERED"
      BY <1>1, <2>3 DEF Fresh
    <3>2. /\ DiscoveredWithin' /\ Cardinality(Unseen') \in Nat
          /\ Cardinality(Unseen') <= Cardinality(Unseen) - 1
      BY <1>2, <1>3, <3>1, DiscoverLeavesFewer DEF SearchInv, TypeOK, WorkInv
    <3>3. Cardinality(queue') \in Nat /\ Cardinality(queue') <= Cardinality(queue) + 1
      <4>1. Cardinality(queue \cup {child}) =
              IF child \in queue THEN Cardinality(queue) ELSE Cardinality(queue) + 1
        BY <1>4, FS_AddElement
      <4> QED BY <1>4, <3>1, <4>1
    <3> QED BY <1>4, <2>1, <3>2, <3>3 DEF WorkInv
  <2> QED BY <2>2, <2>3
<1>7. SearchWork' < SearchWork
  <2> DEFINE k == Cardinality(db) + 2
             a == Cardinality(Unseen') + Cardinality(queue')
             b == Cardinality(Unseen) + Cardinality(queue)
  <2>1. k * a \in Nat /\ k * b \in Nat /\ k * a <= k * b
    <3>1. k \in Nat /\ a \in Nat /\ b \in Nat /\ a <= b
      BY <1>4, <1>6
    <3> HIDE DEF k, a, b
    <3> QED BY <3>1, Times
  <2>2. SearchWork = k * b + Cardinality(edges) + 1
    BY <1>2 DEF SearchWork
  <2>3. SearchWork' = k * a + Cardinality(edges') + 1
    BY <1>2 DEF SearchWork
  <2> HIDE DEF a, b
  <2> QED BY <1>4, <1>5, <2>1, <2>2, <2>3
<1> QED BY <1>2, <1>6, <1>7, SearchGetsOn

(* What is left to do when a path has been found. *)
LEMMA WorkOfPath ==
  ASSUME SearchInv, WorkInv, query \in Queries
  PROVE  /\ IsFiniteSet(EarlierNodes) /\ Cardinality(EarlierNodes) \in Nat
         /\ Cardinality(EarlierNodes) <= Cardinality(NodesFrom(query.from))
<1>1. IsFiniteSet(NodesFrom(query.from)) /\ EarlierNodes \subseteq NodesFrom(query.from)
  BY WorkNumbers DEF EarlierNodes
<1> QED BY <1>1, Fewer

LEMMA WorkVisit ==
  ASSUME SearchInv, WorkInv, SearchInv', Visit
  PROVE  WorkInv' /\ LessToDo
<1>1. /\ phase = "search" /\ query \in Queries /\ current # NoNode /\ current' = NoNode
      /\ status' = StatusOnVisit(query.op, current)
      /\ UNCHANGED <<db, query, queue, edges>>
      /\ \/ phase' = "search"
         \/ phase' = "walk"
  BY DEF Visit, SearchInv, Shape
<1>2. /\ current \in NodesFrom(query.from) /\ status[current] # "UNDISCOVERED"
  BY <1>1, WorkNumbers DEF Open, SearchInv, OpenIsDiscovered
<1>3. /\ DiscoveredWithin' /\ Cardinality(Unseen) \in Nat /\ Cardinality(Unseen') \in Nat
      /\ Cardinality(Unseen') <= Cardinality(Unseen)
  BY <1>1, <1>2, VisitLeavesNoMore DEF SearchInv, TypeOK, WorkInv
<1>4. WorkInv'
  BY <1>1, <1>3 DEF WorkInv
<1>5. CASE phase' = "search"
  <2>1. Cardinality(db) \in Nat /\ Cardinality(queue) \in Nat /\ Cardinality(edges) \in Nat
    BY <1>1, WorkNumbers
  <2> DEFINE k == Cardinality(db) + 2
             a == Cardinality(Unseen') + Cardinality(queue)
             b == Cardinality(Unseen) + Cardinality(queue)
  <2>2. k * a \in Nat /\ k * b \in Nat /\ k * a <= k * b
    <3>1. k \in Nat /\ a \in Nat /\ b \in Nat /\ a <= b
      BY <1>3, <2>1
    <3> HIDE DEF k, a, b
    <3> QED BY <3>1, Times
  <2>3. SearchWork = k * b + Cardinality(edges) + 1 /\ SearchWork' = k * a + Cardinality(edges) + 0
    BY <1>1 DEF SearchWork
  <2> HIDE DEF k, a, b
  <2>4. SearchWork' < SearchWork
    BY <2>1, <2>2, <2>3
  <2> QED BY <1>1, <1>4, <1>5, <2>4, SearchGetsOn
<1>6. CASE phase' = "walk"
  <2>1. SearchWork \in Nat /\ Work = SearchWork + Cardinality(NodesFrom(query.from)) + 4
    BY <1>1, SearchWorkIs
  <2>2. /\ Cardinality(EarlierNodes)' \in Nat
        /\ Cardinality(EarlierNodes)' <= Cardinality(NodesFrom(query.from))'
    <3>1. (SearchInv /\ WorkInv /\ query \in Queries =>
             /\ Cardinality(EarlierNodes) \in Nat
             /\ Cardinality(EarlierNodes) <= Cardinality(NodesFrom(query.from)))'
      BY WorkOfPath, PTL
    <3>2. query' \in Queries
      BY <1>1
    <3> QED BY <1>4, <3>1, <3>2
  <2>3. Work' = Cardinality(EarlierNodes)' + 3
    BY <1>6 DEF Work
  <2>4. Cardinality(NodesFrom(query.from))' = Cardinality(NodesFrom(query.from))
    BY <1>1, ReachableSame
  <2>5. Cardinality(NodesFrom(query.from)) \in Nat
    BY <1>1, WorkNumbers
  <2> QED BY <1>4, <2>1, <2>2, <2>3, <2>4, <2>5 DEF LessToDo
<1> QED BY <1>1, <1>5, <1>6

(* The node that GetPath is at has been discovered. *)
LEMMA WalkIsDiscovered ==
  ASSUME BestInv, phase = "walk", walk # NoNode
  PROVE  BestPath /\ walk \in Node /\ status[walk] # "UNDISCOVERED"
<1>1. BestPath /\ walk \in Node /\ path \in Seq(Node)
  BY DEF BestInv, Stopped, SearchInv, TypeOK
<1>2. CASE path = <<>>
  BY <1>1, <1>2 DEF BestInv, Stopped, Last
<1>3. CASE path # <<>>
  <2>1. walk = parent[path[1]] /\ path[1] \in Node
    BY <1>1, <1>3 DEF BestInv, Chained
  <2> QED BY <1>1, <2>1 DEF BestInv, Parents, Undisc
<1> QED BY <1>1, <1>2, <1>3

(* A parent is an earlier node than its child. *)
LEMMA WorkBacktrack ==
  ASSUME BestInv, WorkInv, SearchInv', Backtrack
  PROVE  WorkInv' /\ LessToDo
<1>1. /\ phase = "walk" /\ phase' = "walk" /\ walk # NoNode /\ walk' = parent[walk]
      /\ UNCHANGED <<db, query, status, edges>>
  BY DEF Backtrack, search
<1>2. query \in Queries /\ walk \in Node /\ status[walk] # "UNDISCOVERED" /\ SearchInv /\ BestPath
  BY <1>1, WalkIsDiscovered DEF BestPath, BestInv
<1>3. walk \in NodesFrom(query.from)
  BY <1>2 DEF WorkInv, DiscoveredWithin
<1>4. WorkInv' /\ NodesFrom(query.from)' = NodesFrom(query.from)
  BY <1>1, SameUnseen, ReachableSame DEF WorkInv
<1>5. NodesFrom(query.from) \subseteq Node
  BY <1>2, NodesAreFinite, QueryType DEF SearchInv, TypeOK
<1>6. walk.no_sooner_than \in Int /\ \A k \in NodesFrom(query.from) : k.no_sooner_than \in Int
  BY <1>2, <1>5, TimeType
<1>7. walk \in EarlierNodes
  BY <1>1, <1>3, <1>6 DEF EarlierNodes
<1>8. EarlierNodes' \subseteq EarlierNodes /\ walk \notin EarlierNodes'
  <2>1. CASE walk' = NoNode
    BY <2>1 DEF EarlierNodes
  <2>2. CASE walk' # NoNode
    <3>1. PICK f \in db : Catches(walk', f) /\ Arrival(f) = walk
      BY <1>1, <1>2, <2>2 DEF BestInv, Parents
    <3>2. walk' \in Node
      BY <2>2 DEF SearchInv, TypeOK
    <3>3. walk'.no_sooner_than < walk.no_sooner_than /\ walk'.no_sooner_than \in Int
      BY <1>2, <3>1, <3>2, FlightTakesTime, TimeType DEF SearchInv
    <3>4. \A k : k \in EarlierNodes' =>
            k \in NodesFrom(query.from) /\ k.no_sooner_than <= walk'.no_sooner_than
      BY <1>4 DEF EarlierNodes
    <3> QED BY <1>1, <1>6, <3>3, <3>4 DEF EarlierNodes
  <2> QED BY <2>1, <2>2
<1>9. /\ Cardinality(EarlierNodes) \in Nat /\ Cardinality(EarlierNodes') \in Nat
      /\ Cardinality(EarlierNodes') <= Cardinality(EarlierNodes) - 1
  BY <1>2, <1>7, <1>8, WorkOfPath, Fewer
<1>10. Work = Cardinality(EarlierNodes) + 3 /\ Work' = Cardinality(EarlierNodes') + 3
  BY <1>1 DEF Work
<1> QED BY <1>4, <1>9, <1>10 DEF LessToDo

(* The other steps of a query end a phase. *)
LEMMA WorkOther ==
  ASSUME SearchInv, WorkInv, Exhaust \/ Backtracked \/ Convert \/ Return
  PROVE  WorkInv' /\ LessToDo
<1>1. CASE Exhaust
  <2>1. /\ phase = "search" /\ phase' \in {"answered", "no path"} /\ query \in Queries
        /\ UNCHANGED <<db, query, status, edges>>
    BY <1>1 DEF Exhaust, search, SearchInv, Shape
  <2>2. SearchWork \in Nat /\ Work = SearchWork + Cardinality(NodesFrom(query.from)) + 4
        /\ Cardinality(NodesFrom(query.from)) \in Nat
    BY <2>1, SearchWorkIs, WorkNumbers
  <2>3. Work' = 1
    BY <2>1 DEF Work
  <2>4. WorkInv'
    BY <2>1, SameUnseen DEF WorkInv
  <2>5. 1 <= Work - 1 /\ Work - 1 \in Nat
    BY <2>2
  <2> QED BY <2>3, <2>4, <2>5 DEF LessToDo
<1>2. CASE Backtracked
  <2>1. /\ phase = "walk" /\ phase' = "convert" /\ query \in Queries
        /\ UNCHANGED <<db, query, status, edges>>
    BY <1>2 DEF Backtracked, search, SearchInv, Shape
  <2>2. Work = Cardinality(EarlierNodes) + 3 /\ Cardinality(EarlierNodes) \in Nat /\ Work' = 2
    BY <2>1, WorkOfPath DEF Work
  <2> QED BY <2>1, <2>2, SameUnseen DEF WorkInv, LessToDo
<1>3. CASE Convert
  <2>1. /\ phase = "convert" /\ phase' \in {"answered", "error"}
        /\ UNCHANGED <<db, query, status, edges>>
    BY <1>3 DEF Convert, search
  <2>2. Work = 2 /\ Work' = 1
    BY <2>1 DEF Work
  <2> QED BY <2>1, <2>2, SameUnseen DEF WorkInv, LessToDo
<1>4. CASE Return
  <2>1. phase \in {"answered", "no path", "error"} /\ phase' = "idle"
    BY <1>4 DEF Return
  <2>2. Work = 1 /\ Work' = 0
    BY <2>1 DEF Work
  <2>3. WorkInv'
    BY <1>4, QueriesAssumption, NullAssumption DEF Return, WorkInv, DiscoveredWithin
  <2> QED BY <2>2, <2>3 DEF LessToDo
<1> QED BY <1>1, <1>2, <1>3, <1>4

(* A query begins: its start is discovered, with its airport if it tours.  *)
LEMMA WorkAsk ==
  ASSUME SearchInv, WorkInv, NEW q \in Queries, Ask(q) \/ AskOutOfRange(q)
  PROVE  WorkInv'
<1>1. phase = "idle" /\ Unused /\ query' = q /\ UNCHANGED <<db, edges>> /\ q.from \in Node
  BY QueryType DEF Ask, AskOutOfRange, search, SearchInv, Shape
<1>2. edges' \subseteq db'
  BY <1>1 DEF WorkInv
<1>3. \A n \in Node : status[n] = "UNDISCOVERED"
  BY <1>1 DEF Unused, Undiscovered
<1>4. CASE Ask(q)
  <2>1. status' = StatusOnDiscover(q.op, q.from) /\ status \in [Node -> Status]
    BY <1>4 DEF Ask, SearchInv, TypeOK
  <2>2. \A k \in Node : status'[k] =
          IF \/ k = q.from
             \/ q.op \in TourOps /\ k \in ArrivalsAt(q.from.airport) /\ status[k] = "UNDISCOVERED"
          THEN "DISCOVERED" ELSE status[k]
    BY <1>1, <2>1, DiscoverEffect
  <2>3. q.from \in NodesFrom(q.from) /\ ArrivalsAt(q.from.airport) \subseteq NodesFrom(q.from)
    BY DEF ArrivalsAt, NodesFrom
  <2>4. NodesFrom(query.from)' = NodesFrom(q.from)
    BY <1>1 DEF NodesFrom, Arrival
  <2>5. DiscoveredWithin'
    BY <1>3, <2>2, <2>3, <2>4 DEF DiscoveredWithin
  <2> QED BY <1>2, <2>5 DEF WorkInv
<1>5. CASE AskOutOfRange(q)
  BY <1>2, <1>3, <1>5 DEF AskOutOfRange, WorkInv, DiscoveredWithin
<1> QED BY <1>4, <1>5

LEMMA WorkStep ==
  ASSUME BestInv, SearchInv', WorkInv, [Next]_vars
  PROVE  WorkInv' /\ (phase # "idle" /\ ~UNCHANGED vars => LessToDo)
<1>1. SearchInv
  BY DEF BestInv
<1>2. CASE UNCHANGED vars
  BY <1>2, SameUnseen DEF vars, search, WorkInv
<1>3. ASSUME NEW q \in Queries, Ask(q) \/ AskOutOfRange(q) PROVE WorkInv' /\ phase = "idle"
  BY <1>1, <1>3, WorkAsk DEF Ask, AskOutOfRange
<1> QED BY <1>1, <1>2, <1>3, WorkPop, WorkScanEdge, WorkVisit, WorkBacktrack, WorkOther DEF Next, Step

(* No query runs for ever: each step leaves fewer to take, in the loops of *)
(* PFS and in GetPath, however the records are connected.                  *)
THEOREM QueriesEnd == Spec => QueryGetsOn
<1>1. WorkInv /\ BestInv /\ BestInv' /\ [Next]_vars => WorkInv'
  BY WorkStep DEF BestInv
<1>2. Spec => []WorkInv
  BY <1>1, WorkInit, BestInvariant, PTL DEF Spec
<1>3. WorkInv /\ BestInv /\ BestInv' /\ [Next]_vars =>
        [phase # "idle" => Work' \in 0..(Work - 1)]_vars
  BY WorkStep DEF BestInv, LessToDo
<1> QED BY <1>2, <1>3, BestInvariant, PTL DEF Spec, QueryGetsOn

(* While a query goes on there is a step to take: the top of the heap is   *)
(* found and so is the next edge.                                          *)
THEOREM QueriesNeverStick ==
  Spec => [](phase = "search" => /\ current = NoNode /\ queue # {} => Top # {}
                                 /\ current # NoNode /\ edges # {} => FirstOf(edges) # {})
<1>1. ASSUME SearchInv, WorkInv, phase = "search", queue # {} PROVE Top # {}
  <2> DEFINE R == {p \in queue \X queue : priority[p[1]] < priority[p[2]]}
  <2>1. IsFiniteSet(queue) /\ \A n \in queue : priority[n] \in Int
    BY <1>1, WorkNumbers DEF SearchInv, Shape, TypeOK
  <2>2. /\ \A n \in queue : <<n, n>> \notin R
        /\ \A l, m, n \in queue : <<l, m>> \in R /\ <<m, n>> \in R => <<l, n>> \in R
    BY <2>1
  <2>3. PICK n \in queue : \A m \in queue : <<m, n>> \notin R
    <3> HIDE DEF R
    <3> QED BY <1>1, <2>1, <2>2, FirstExists
  <2>4. ASSUME NEW m \in queue PROVE priority[n] <= priority[m]
    <3>1. <<m, n>> \in queue \X queue /\ <<m, n>>[1] = m /\ <<m, n>>[2] = n
      OBVIOUS
    <3>2. ~(priority[m] < priority[n])
      BY <2>3, <3>1
    <3> QED BY <2>1, <3>2
  <2>5. n \in Top
    BY <2>4 DEF Top
  <2> QED BY <2>5
<1>2. ASSUME SearchInv, WorkInv, phase = "search", edges # {} PROVE FirstOf(edges) # {}
  BY <1>2, WorkNumbers, EdgeToTake DEF SearchInv, Shape, TypeOK
<1>3. WorkInv /\ BestInv /\ BestInv' /\ [Next]_vars => WorkInv'
  BY WorkStep DEF BestInv
<1>4. Spec => []WorkInv
  BY <1>3, WorkInit, BestInvariant, PTL DEF Spec
<1>5. BestInv /\ WorkInv =>
        (phase = "search" => /\ current = NoNode /\ queue # {} => Top # {}
                             /\ current # NoNode /\ edges # {} => FirstOf(edges) # {})
  BY <1>1, <1>2 DEF BestInv
<1> QED BY <1>4, <1>5, BestInvariant, PTL
=============================================================================
