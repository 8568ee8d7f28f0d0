-------------------------- MODULE SearchGraphProofs --------------------------
(***************************************************************************)
(* What the proofs about both searches use: the typing of the graph's      *)
(* operators, what Discover and Visit do to the status of every node,      *)
(* reachability, induction over numbers, and itineraries.                  *)
(***************************************************************************)
EXTENDS SearchGraph, FiniteSetTheorems, WellFoundedInduction, TLAPS

LEMMA ArrivalType == ASSUME NEW f \in Flight PROVE Arrival(f) \in Node
BY RecordAssumption DEF Arrival, Node, Record

LEMMA StatusType ==
  ASSUME status \in [Node -> Status], NEW op, NEW n \in Node
  PROVE  /\ StatusOnDiscover(op, n) \in [Node -> Status]
         /\ StatusOnVisit(op, n) \in [Node -> Status]
BY DEF StatusOnDiscover, StatusOnVisit, Synchronised, Status

LEMMA ArrivalsAtType ==
  ASSUME NEW a
  PROVE  \A k : k \in ArrivalsAt(a) <=> k.airport = a /\ \E f \in db : k = Arrival(f)
BY DEF ArrivalsAt, Arrival

LEMMA DiscoverEffect ==
  ASSUME status \in [Node -> Status], NEW op, NEW n \in Node, NEW k \in Node
  PROVE  StatusOnDiscover(op, n)[k] =
           IF \/ k = n
              \/ op \in TourOps /\ k \in ArrivalsAt(n.airport) /\ status[k] = "UNDISCOVERED"
           THEN "DISCOVERED" ELSE status[k]
BY DEF StatusOnDiscover, Synchronised

LEMMA VisitEffect ==
  ASSUME status \in [Node -> Status], NEW op, NEW n \in Node, NEW k \in Node
  PROVE  StatusOnVisit(op, n)[k] =
           IF \/ k = n
              \/ op \in TourOps /\ k \in ArrivalsAt(n.airport) /\ status[k] = "DISCOVERED"
           THEN "VISITED" ELSE status[k]
BY DEF StatusOnVisit, Synchronised

LEMMA ReachableStart == ASSUME NEW n PROVE n \in Reachable(n)
BY DEF Reachable, NodesFrom

LEMMA ReachableStep ==
  ASSUME NEW n, NEW k \in Reachable(n), NEW f \in db, Catches(k, f)
  PROVE  Arrival(f) \in Reachable(n)
<1>1. Arrival(f) \in NodesFrom(n)
  BY DEF NodesFrom
<1>2. ASSUME NEW S \in SUBSET NodesFrom(n), n \in S, Closed(S) PROVE Arrival(f) \in S
  BY <1>2 DEF Reachable, Closed
<1> QED BY <1>1, <1>2 DEF Reachable

LEMMA ReachableSame ==
  ASSUME UNCHANGED <<db, query>>
  PROVE  /\ Reachable(query.from)' = Reachable(query.from)
         /\ NodesFrom(query.from)' = NodesFrom(query.from)
BY DEF Reachable, Closed, Catches, NodesFrom, Arrival

-----------------------------------------------------------------------------
(* Induction over the natural numbers, in the form of sets *)

(* The order of the natural numbers as a relation, as the library has it. *)
Less == OpToRel(<, Nat)

(* A smaller number stands before a greater one in the library's relation. *)
LEMMA LessIsLess == ASSUME NEW x \in Nat, NEW y \in Nat, x < y PROVE <<x, y>> \in Less
BY DEF Less, OpToRel

(* A set of natural numbers has a least element. *)
LEMMA Least ==
  ASSUME NEW S, S \subseteq Nat, S # {}
  PROVE  \E n \in S : \A m \in S : n <= m
<1>1. IsWellFoundedOn(Less, Nat)
  BY NatLessThanWellFounded DEF Less
<1>2. PICK n \in S : \A m \in S : ~(<<m, n>> \in Less)
  BY <1>1, WFMin
<1>3. ASSUME NEW m \in S PROVE n <= m
  <2>1. ~(m < n)
    BY <1>2, LessIsLess
  <2> QED BY <2>1
<1> QED BY <1>3

(* Induction, of a set: it holds all numbers up to n. *)
LEMMA UpTo ==
  ASSUME NEW n \in Nat, NEW S, 0 \in S, \A k \in 0..(n-1) : k \in S => k + 1 \in S
  PROVE  0..n \subseteq S
<1> DEFINE T == {k \in 0..n : k \notin S}
<1> SUFFICES ASSUME T # {} PROVE FALSE
  OBVIOUS
<1>1. T \subseteq Nat
  OBVIOUS
<1>2. PICK k \in T : \A m \in T : k <= m
  BY <1>1, Least
<1>3. k # 0 /\ k \in 1..n
  BY <1>2
<1>4. k - 1 \in 0..(n-1) /\ k - 1 \notin T /\ (k - 1) + 1 = k
  BY <1>2, <1>3
<1>5. k - 1 \in S
  BY <1>4
<1> QED BY <1>2, <1>4, <1>5

-----------------------------------------------------------------------------
(* Itineraries *)

(* Where a traveller is who took the flights of s from n. *)
LandsFrom(n, s) == IF s = <<>> THEN n ELSE Arrival(s[Len(s)])

(* A way is an itinerary of at most k flights that ends at the target in time. *)
LEMMA WaysAre ==
  ASSUME NEW from, NEW to, NEW k \in Nat, NEW s
  PROVE  s \in Ways(from, to, k) <=>
           /\ s \in Seq(db) /\ Len(s) <= k
           /\ IsItinerary(from, s) /\ InTime(LandsFrom(from, s), to)
<1>1. ASSUME s \in Ways(from, to, k) PROVE s \in Seq(db) /\ Len(s) <= k /\ Leads(from, s, to)
  <2>1. PICK i \in 0..k : s \in [1..i -> db]
    BY <1>1 DEF Ways
  <2>2. s \in Seq(db) /\ Len(s) = i
    BY <2>1
  <2> QED BY <1>1, <2>2 DEF Ways
<1>2. ASSUME s \in Seq(db), Len(s) <= k, Leads(from, s, to) PROVE s \in Ways(from, to, k)
  <2>1. Len(s) \in 0..k /\ s \in [1..Len(s) -> db]
    BY <1>2
  <2> QED BY <1>2, <2>1 DEF Ways
<1> QED BY <1>1, <1>2 DEF Leads, LandsFrom

(* A flight that can be caught at the end of an itinerary continues it. *)
LEMMA ItineraryOneMore ==
  ASSUME NEW n, NEW s \in Seq(db), IsItinerary(n, s), NEW f \in db, Catches(LandsFrom(n, s), f)
  PROVE  /\ Append(s, f) \in Seq(db)
         /\ IsItinerary(n, Append(s, f)) /\ LandsFrom(n, Append(s, f)) = Arrival(f)
<1> DEFINE t == Append(s, f)
<1>1. /\ t \in Seq(db) /\ Len(t) = Len(s) + 1 /\ Len(s) \in Nat /\ t # <<>>
      /\ t[Len(t)] = f /\ \A i \in 1..Len(s) : t[i] = s[i]
  OBVIOUS
<1> HIDE DEF t
<1>2. ASSUME NEW i \in 1..Len(t) PROVE Catches(IF i = 1 THEN n ELSE Arrival(t[i-1]), t[i])
  <2>1. CASE i # Len(t)
    <3>1. i \in 1..Len(s) /\ (i # 1 => i - 1 \in 1..Len(s))
      BY <1>1, <2>1
    <3>2. t[i] = s[i] /\ (i # 1 => t[i-1] = s[i-1])
      BY <1>1, <3>1
    <3>3. Catches(IF i = 1 THEN n ELSE Arrival(s[i-1]), s[i])
      BY <3>1 DEF IsItinerary
    <3> QED BY <3>2, <3>3
  <2>2. CASE i = Len(t) /\ s = <<>>
    <3>1. i = 1 /\ t[i] = f
      BY <1>1, <2>2
    <3> QED BY <2>2, <3>1 DEF LandsFrom
  <2>3. CASE i = Len(t) /\ s # <<>>
    <3>1. Len(s) \in 1..Len(s) /\ i - 1 = Len(s) /\ i # 1
      BY <1>1, <2>3
    <3>2. t[i-1] = s[Len(s)] /\ t[i] = f
      BY <1>1, <2>3, <3>1
    <3> QED BY <2>3, <3>1, <3>2 DEF LandsFrom
  <2> QED BY <2>1, <2>2, <2>3
<1> QED BY <1>1, <1>2 DEF IsItinerary, LandsFrom, t

(* Each flight of an itinerary lands later than the ones before it. *)
LEMMA ItineraryIsOrdered ==
  ASSUME db \subseteq Flight, NEW n, NEW s \in Seq(db), IsItinerary(n, s)
  PROVE  \A i, j \in 1..Len(s) : i < j => record[s[i]].datetime_to < record[s[j]].datetime_to
<1> DEFINE T(i) == record[s[i]].datetime_to
           Till(k) == \A i, j \in 1..k : i < j => T(i) < T(j)
           S == {k \in 0..Len(s) : Till(k)}
<1>1. /\ Len(s) \in Nat
      /\ \A i \in 1..Len(s) : /\ record[s[i]].datetime_from \in Int /\ T(i) \in Int
                              /\ record[s[i]].datetime_from < T(i)
  <2>1. \A i \in 1..Len(s) : s[i] \in Flight
    OBVIOUS
  <2>2. \A f \in Flight : record[f].datetime_from \in Time /\ record[f].datetime_to \in Time
    BY RecordAssumption DEF Record
  <2>3. \A t \in Time : t \in Int
    BY DomainAssumption
  <2> QED BY <2>1, <2>2, <2>3, DurationAssumption
<1>2. ASSUME NEW i \in 1..Len(s), i # 1 PROVE T(i-1) < T(i)
  <2>1. Catches(Arrival(s[i-1]), s[i]) /\ i - 1 \in 1..Len(s)
    BY <1>1, <1>2 DEF IsItinerary
  <2>2. record[s[i]].datetime_from >= T(i-1)
    BY <2>1 DEF Catches, Arrival
  <2> QED BY <1>1, <2>1, <2>2
<1> HIDE DEF T
<1>3. 0 \in S
  BY <1>1
<1>4. ASSUME NEW k \in 0..(Len(s) - 1), k \in S PROVE k + 1 \in S
  <2>1. k + 1 \in 0..Len(s) /\ Till(k)
    BY <1>1, <1>4
  <2>2. ASSUME NEW i \in 1..(k + 1), NEW j \in 1..(k + 1), i < j PROVE T(i) < T(j)
    <3>1. CASE j # k + 1
      BY <2>1, <2>2, <3>1
    <3>2. CASE j = k + 1
      <4>1. /\ k \in 1..k /\ k \in 1..Len(s) /\ k + 1 \in 1..Len(s) /\ k + 1 # 1
            /\ i \in 1..k /\ i \in 1..Len(s) /\ (k + 1) - 1 = k
        BY <1>1, <2>1, <2>2, <3>2
      <4>2. T(k) < T(k + 1)
        BY <1>2, <4>1
      <4>3. i = k \/ T(i) < T(k)
        BY <2>1, <4>1
      <4>4. T(i) \in Int /\ T(k) \in Int /\ T(k + 1) \in Int
        BY <1>1, <4>1
      <4> QED BY <3>2, <4>2, <4>3, <4>4
    <3> QED BY <3>1, <3>2
  <2> QED BY <2>1, <2>2
<1>5. Len(s) \in S
  <2> HIDE DEF S
  <2>1. 0..Len(s) \subseteq S
    BY <1>1, <1>3, <1>4, UpTo
  <2> QED BY <1>1, <2>1
<1> QED BY <1>5 DEF T

(* Hence no flight is taken twice. *)
LEMMA ItineraryLength ==
  ASSUME db \in Databases, NEW n, NEW s \in Seq(db), IsItinerary(n, s)
  PROVE  Cardinality(db) \in Nat /\ Len(s) <= Cardinality(db)
<1>1. db \subseteq Flight /\ IsFiniteSet(db) /\ Len(s) \in Nat
  BY DatabasesAssumption, FinitenessAssumption
<1>2. s \in [1..Len(s) -> db] /\ \A i \in 1..Len(s) : record[s[i]].datetime_to \in Int
  <2>1. \A i \in 1..Len(s) : s[i] \in Flight
    BY <1>1
  <2>2. \A f \in Flight : record[f].datetime_to \in Time
    BY RecordAssumption DEF Record
  <2>3. \A t \in Time : t \in Int
    BY DomainAssumption
  <2>4. \A i \in 1..Len(s) : record[s[i]].datetime_to \in Int
    BY <2>1, <2>2, <2>3
  <2> QED BY <2>4
<1>3. ASSUME NEW i \in 1..Len(s), NEW j \in 1..Len(s), s[i] = s[j] PROVE i = j
  BY <1>1, <1>2, <1>3, ItineraryIsOrdered
<1>4. s \in Injection(1..Len(s), db)
  BY <1>2, <1>3 DEF Injection, IsInjective
<1>5. Cardinality(1..Len(s)) <= Cardinality(db) /\ Cardinality(db) \in Nat
  BY <1>1, <1>4, FS_Injection, FS_CardinalityType
<1>6. Cardinality(1..Len(s)) = Len(s)
  <2>1. 1 \in Int /\ Len(s) \in Int
    BY <1>1
  <2>2. Cardinality(1..Len(s)) = IF 1 > Len(s) THEN 0 ELSE Len(s) - 1 + 1
    BY <2>1, FS_Interval
  <2> QED BY <1>1, <2>2
<1> QED BY <1>5, <1>6

-----------------------------------------------------------------------------
(* Finite sets, and what a search has still to do *)

(* In a finite set with a strict order something has nothing before it.    *)
LEMMA FirstExists ==
  ASSUME NEW S, IsFiniteSet(S), S # {}, NEW R,
         \A x \in S : <<x, x>> \notin R,
         \A x, y, z \in S : <<x, y>> \in R /\ <<y, z>> \in R => <<x, z>> \in R
  PROVE  \E x \in S : \A y \in S : <<y, x>> \notin R
<1> DEFINE B(x) == {y \in S : <<y, x>> \in R}
           C == {Cardinality(B(x)) : x \in S}
<1>1. \A x \in S : IsFiniteSet(B(x)) /\ Cardinality(B(x)) \in Nat
  BY FS_Subset, FS_CardinalityType
<1>2. C \subseteq Nat /\ C # {}
  <2>1. PICK x : x \in S
    OBVIOUS
  <2>2. Cardinality(B(x)) \in C
    BY <2>1
  <2>3. ASSUME NEW c \in C PROVE c \in Nat
    <3>1. PICK y \in S : c = Cardinality(B(y))
      OBVIOUS
    <3> QED BY <1>1, <3>1
  <2> QED BY <2>2, <2>3
<1>3. PICK c \in C : \A d \in C : c <= d
  <2> HIDE DEF C
  <2> QED BY <1>2, Least
<1>4. PICK x \in S : c = Cardinality(B(x))
  BY <1>3
<1>5. ASSUME NEW y \in S, <<y, x>> \in R PROVE FALSE
  <2>1. B(y) \subseteq B(x) /\ y \in B(x) /\ y \notin B(y)
    BY <1>5
  <2>2. Cardinality(B(y)) \in C
    OBVIOUS
  <2>3. Cardinality(B(x)) <= Cardinality(B(y))
    BY <1>3, <1>4, <2>2
  <2>4. /\ IsFiniteSet(B(x)) /\ Cardinality(B(x)) \in Nat /\ Cardinality(B(y)) \in Nat
    BY <1>1
  <2> HIDE DEF B
  <2>5. Cardinality(B(y)) <= Cardinality(B(x)) /\ (Cardinality(B(x)) = Cardinality(B(y)) => B(x) = B(y))
    BY <2>1, <2>4, FS_Subset
  <2> QED BY <2>1, <2>3, <2>4, <2>5
<1> QED BY <1>5

(* A loop over edges that are left has an edge to take. *)
LEMMA EdgeToTake ==
  ASSUME NEW edges, edges \subseteq Flight, IsFiniteSet(edges), edges # {}
  PROVE  FirstOf(edges) # {}
<1> DEFINE R == {p \in edges \X edges : Before(p[1], p[2])}
<1>1. \A f \in edges : /\ record[f].datetime_from \in Int /\ record[f].airport_to \in Int
  <2> SUFFICES ASSUME NEW f \in edges
               PROVE  record[f].datetime_from \in Int /\ record[f].airport_to \in Int
    OBVIOUS
  <2>1. record[f] \in Record
    BY RecordAssumption
  <2>2. record[f].datetime_from \in Time /\ record[f].airport_to \in Airport
    BY <2>1 DEF Record
  <2> QED BY <2>2, DomainAssumption
<1>2. \A f \in edges : <<f, f>> \notin R
  BY <1>1 DEF Before
<1>3. \A f, g, h \in edges : <<f, g>> \in R /\ <<g, h>> \in R => <<f, h>> \in R
  BY <1>1 DEF Before
<1>4. PICK f \in edges : \A g \in edges : <<g, f>> \notin R
  <2> HIDE DEF R
  <2> QED BY <1>2, <1>3, FirstExists
<1>5. f \in FirstOf(edges)
  BY <1>4 DEF FirstOf
<1> QED BY <1>5

(* A subset of a finite set has no more elements, and fewer if it lacks one. *)
LEMMA Fewer ==
  ASSUME NEW S, IsFiniteSet(S), NEW T, T \subseteq S
  PROVE  /\ IsFiniteSet(T) /\ Cardinality(S) \in Nat /\ Cardinality(T) \in Nat
         /\ Cardinality(T) <= Cardinality(S)
         /\ \A x \in S : x \notin T => Cardinality(T) <= Cardinality(S) - 1
<1>1. /\ IsFiniteSet(T) /\ Cardinality(S) \in Nat /\ Cardinality(T) \in Nat
      /\ Cardinality(T) <= Cardinality(S) /\ (Cardinality(S) = Cardinality(T) => S = T)
  BY FS_Subset, FS_CardinalityType
<1>2. ASSUME NEW x \in S, x \notin T PROVE Cardinality(T) <= Cardinality(S) - 1
  BY <1>1, <1>2
<1> QED BY <1>1, <1>2

(* The nodes that a query can come to: there are finitely many.            *)
LEMMA NodesAreFinite ==
  ASSUME db \in Databases, NEW n \in Node
  PROVE  /\ IsFiniteSet(db) /\ Cardinality(db) \in Nat
         /\ IsFiniteSet(NodesFrom(n)) /\ NodesFrom(n) \subseteq Node
<1>1. IsFiniteSet(db) /\ Cardinality(db) \in Nat /\ db \subseteq Flight
  BY FinitenessAssumption, DatabasesAssumption, FS_CardinalityType
<1> DEFINE A == {Arrival(f) : f \in db}
           g == [f \in db |-> Arrival(f)]
<1>2. g \in Surjection(db, A)
  BY DEF Surjection
<1>3. IsFiniteSet(A)
  <2> HIDE DEF A, g
  <2> QED BY <1>1, <1>2, FS_Surjection
<1>4. IsFiniteSet(A \cup {n})
  <2> HIDE DEF A
  <2> QED BY <1>3, FS_AddElement
<1>5. NodesFrom(n) = A \cup {n}
  BY DEF NodesFrom
<1>6. A \subseteq Node
  BY <1>1, ArrivalType
<1> QED BY <1>1, <1>4, <1>5, <1>6

(* Only nodes that the query can come to are ever discovered.              *)
DiscoveredWithin ==
  query \in Queries => \A n \in Node : status[n] # "UNDISCOVERED" => n \in NodesFrom(query.from)

(* Discover and Visit discover none but these; Discover leaves fewer to be *)
(* discovered, Visit no more.                                              *)
LEMMA DiscoverLeavesFewer ==
  ASSUME db \in Databases, status \in [Node -> Status], query \in Queries, DiscoveredWithin,
         NEW n \in NodesFrom(query.from), status[n] = "UNDISCOVERED",
         UNCHANGED <<db, query>>, status' = StatusOnDiscover(query.op, n)
  PROVE  /\ DiscoveredWithin'
         /\ Cardinality(Unseen) \in Nat /\ Cardinality(Unseen') \in Nat
         /\ Cardinality(Unseen') <= Cardinality(Unseen) - 1
<1>1. query.from \in Node
  BY QueriesAssumption DEF Query
<1>2. /\ IsFiniteSet(NodesFrom(query.from)) /\ NodesFrom(query.from) \subseteq Node
      /\ NodesFrom(query.from)' = NodesFrom(query.from)
  BY <1>1, NodesAreFinite DEF NodesFrom, Arrival
<1>3. \A k \in Node : status'[k] =
        IF \/ k = n
           \/ query.op \in TourOps /\ k \in ArrivalsAt(n.airport) /\ status[k] = "UNDISCOVERED"
        THEN "DISCOVERED" ELSE status[k]
  BY <1>2, DiscoverEffect
<1>4. \A a : ArrivalsAt(a) \subseteq NodesFrom(query.from)
  BY DEF ArrivalsAt, NodesFrom
<1>5. DiscoveredWithin'
  BY <1>2, <1>3, <1>4 DEF DiscoveredWithin
<1>6. Unseen' \subseteq Unseen /\ n \in Unseen /\ n \notin Unseen'
  BY <1>2, <1>3 DEF Unseen
<1>7. IsFiniteSet(Unseen)
  BY <1>2, Fewer DEF Unseen
<1> QED BY <1>5, <1>6, <1>7, Fewer

LEMMA VisitLeavesNoMore ==
  ASSUME db \in Databases, status \in [Node -> Status], query \in Queries, DiscoveredWithin,
         NEW n \in NodesFrom(query.from), status[n] # "UNDISCOVERED",
         UNCHANGED <<db, query>>, status' = StatusOnVisit(query.op, n)
  PROVE  /\ DiscoveredWithin'
         /\ Cardinality(Unseen) \in Nat /\ Cardinality(Unseen') \in Nat
         /\ Cardinality(Unseen') <= Cardinality(Unseen)
<1>1. query.from \in Node
  BY QueriesAssumption DEF Query
<1>2. /\ IsFiniteSet(NodesFrom(query.from)) /\ NodesFrom(query.from) \subseteq Node
      /\ NodesFrom(query.from)' = NodesFrom(query.from)
  BY <1>1, NodesAreFinite DEF NodesFrom, Arrival
<1>3. \A k \in Node : status'[k] =
        IF \/ k = n
           \/ query.op \in TourOps /\ k \in ArrivalsAt(n.airport) /\ status[k] = "DISCOVERED"
        THEN "VISITED" ELSE status[k]
  BY <1>2, VisitEffect
<1>4. DiscoveredWithin'
  BY <1>2, <1>3 DEF DiscoveredWithin
<1>5. Unseen' \subseteq Unseen
  BY <1>2, <1>3 DEF Unseen
<1>6. IsFiniteSet(Unseen)
  BY <1>2, Fewer DEF Unseen
<1> QED BY <1>4, <1>5, <1>6, Fewer

(* Where nothing is discovered or visited, as many are left. *)
LEMMA SameUnseen ==
  ASSUME UNCHANGED <<db, query, status>>
  PROVE  Unseen' = Unseen /\ (DiscoveredWithin => DiscoveredWithin')
BY DEF Unseen, DiscoveredWithin, NodesFrom, Arrival

(* Multiplication keeps the order. *)
LEMMA Times ==
  ASSUME NEW k \in Nat, NEW a \in Nat, NEW b \in Nat
  PROVE  /\ k * a \in Nat /\ k * b \in Nat
         /\ a <= b => k * a <= k * b
         /\ a + 1 <= b => k * a + k <= k * b
<1>1. k * a \in Nat /\ k * b \in Nat
  OBVIOUS
<1>2. ASSUME NEW c \in Nat, a + c = b PROVE k * b = k * a + k * c /\ k * c \in Nat
  <2>1. k * (a + c) = k * a + k * c
    OBVIOUS
  <2> QED BY <1>2, <2>1
<1>3. ASSUME a <= b PROVE k * a <= k * b
  <2>1. b - a \in Nat /\ a + (b - a) = b
    BY <1>3
  <2>2. k * b = k * a + k * (b - a) /\ k * (b - a) \in Nat
    BY <1>2, <2>1
  <2> QED BY <1>1, <2>2
<1>4. ASSUME a + 1 <= b PROVE k * a + k <= k * b
  <2>1. b - a - 1 \in Nat /\ (a + 1) + (b - a - 1) = b /\ a + (b - a) = b /\ b - a \in Nat
    BY <1>4
  <2>2. k * b = k * a + k * (b - a)
    BY <1>2, <2>1
  <2>3. k * ((b - a - 1) + 1) = k * (b - a - 1) + k /\ k * (b - a - 1) \in Nat
    BY <2>1
  <2>4. (b - a - 1) + 1 = b - a
    OBVIOUS
  <2> QED BY <1>1, <2>2, <2>3, <2>4
<1> QED BY <1>1, <1>3, <1>4
==============================================================================
