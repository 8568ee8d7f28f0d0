------------------------------- MODULE NodePool -------------------------------
(***************************************************************************)
(* AbstractGraph::GetNode and LoadDiscreteChildren: how a graph creates    *)
(* its nodes on demand.  A node is an object; parents, children and the    *)
(* heap are pointers to it, and the statuses are its fields.  The search   *)
(* modules speak of keys instead, as if there were one object to a key and *)
(* always the same.  That is shown here.                                   *)
(***************************************************************************)
EXTENDS FlightGraph, NodeContainer, FiniteSets

CONSTANTS
  Wanted,       \* nodes that the planner or its listeners ask for
  NotLoaded,    \* the null pointer in discrete_children
  NoObject      \* no node is loading its children

ASSUME WantedAssumption == Wanted \subseteq Node
ASSUME NotLoadedAssumption == NotLoaded \notin Seq(Nat) /\ NoObject \notin Nat
ASSUME NonEmptyAssumption == \A d \in Databases : d # {}

VARIABLES
  pool,         \* AbstractFlightGraph::node_pool
  key,          \* Node::key of the objects 1, 2, ... in order of creation
  children,     \* Node::discrete_children, as objects, or NotLoaded
  loading,      \* the object in LoadDiscreteChildren, or NoObject
  todo          \* the edges its loop has not taken

vars == <<db, pool, key, children, loading, todo>>

Object == 1..Len(key)

TypeOK ==
  /\ db \in Databases
  /\ key \in Seq(Node)
  /\ \A a \in pool.min..pool.max :
       /\ pool.elements[a] \in Seq(Object)
       /\ pool.datetimes[a] \in Seq(Time)
  /\ Len(children) = Len(key)
  /\ \A o \in Object : children[o] = NotLoaded \/ children[o] \in Seq(Object)
  /\ loading \in Object \cup {NoObject}
  /\ todo \subseteq db

(* The database's airport range: its lowest and its highest airport. *)
Bounds == {b \in Served \X Served : \A a \in Served : b[1] <= a /\ a <= b[2]}

Init ==
  /\ db \in Databases
  /\ \E b \in Bounds : pool = Container(b[1], b[2])
  /\ key = <<>> /\ children = <<>>
  /\ loading = NoObject /\ todo = {}

-----------------------------------------------------------------------------
(* GetNodeFromPool: the objects in the pool with the node's key. *)
Pooled(n) == Found(pool, n.airport, n.no_sooner_than)

(* Faulty variant: an airport's last node only is kept. *)
LastNodeOnly(n, o) ==
  [pool EXCEPT !.elements[n.airport] = <<o>>, !.datetimes[n.airport] = <<n.no_sooner_than>>]

(* AddNodeToPool *)
PoolWith(n, o) == Added(pool, n.airport, n.no_sooner_than, o)

(* Faulty variant: the pool is not asked. *)
CreatedAnew(n) == TRUE

Missing(n) == Pooled(n) = {}

(* GetNode: `object' is what it returns, `links' the children afterwards.  *)
GetNode(n, object, links) ==
  IF Missing(n)
  THEN /\ object = Len(key) + 1
       /\ key' = Append(key, n)
       /\ pool' = PoolWith(n, object)
       /\ children' = Append(links, NotLoaded)
  ELSE /\ object \in Pooled(n)
       /\ children' = links
       /\ UNCHANGED <<key, pool>>

(* The planner creates an end node, or SyncAirportStatus asks for an       *)
(* arrival.                                                                *)
Ask(n) ==
  /\ loading = NoObject
  /\ Holds(pool, n.airport)
  /\ \E o \in 1..(Len(key) + 1) : GetNode(n, o, children)
  /\ UNCHANGED <<db, loading, todo>>

(* DiscreteChildren, on a node that has not loaded them. *)
BeginLoad(o) ==
  /\ loading = NoObject
  /\ children[o] = NotLoaded
  /\ loading' = o
  /\ todo' = DiscreteChildrenOf(key[o])
  /\ children' = [children EXCEPT ![o] = <<>>]
  /\ UNCHANGED <<db, pool, key>>

LoadChild ==
  /\ loading # NoObject
  /\ \E f \in FirstOf(todo), o \in 1..(Len(key) + 1) :
       /\ GetNode(Arrival(f), o, [children EXCEPT ![loading] = Append(@, o)])
       /\ todo' = todo \ {f}
  /\ UNCHANGED <<db, loading>>

EndLoad ==
  /\ loading # NoObject
  /\ todo = {}
  /\ loading' = NoObject
  /\ UNCHANGED <<db, pool, key, children, todo>>

Next ==
  \/ \E n \in Wanted : Ask(n)
  \/ \E o \in Object : BeginLoad(o)
  \/ LoadChild \/ EndLoad

Spec == Init /\ [][Next]_vars

-----------------------------------------------------------------------------
(***************************************************************************)
(* Properties                                                              *)
(***************************************************************************)

(* There is one object to a key and the pool finds it, so that two         *)
(* pointers are equal just if their keys are; GetNode never throws: not    *)
(* "Non-unique (Airport, DateTime)", and not in the middle of loading      *)
(* children, where those loaded so far would pass for all of them.         *)
GetNodeSucceeds ==
  /\ \A o \in Object : Pooled(key[o]) = {o}
  /\ \A n \in Node : Holds(pool, n.airport) => ~NonUnique(pool, n.airport, n.no_sooner_than)
  /\ \A f \in todo : Holds(pool, record[f].airport_to)

(* Whoever asks for a node again gets the object he got before, and its    *)
(* children do not change once they are loaded: the loops over them may    *)
(* run while listeners create nodes.                                       *)
ObjectsAreStable ==
  [][/\ \A n \in Wanted : Holds(pool, n.airport) /\ Pooled(n) # {} => Pooled(n)' = Pooled(n)
     /\ \A o \in Object : o # loading /\ children[o] # NotLoaded => children'[o] = children[o]]_vars

(* The children a node has loaded are one object for each flight that can  *)
(* be caught, with the key of the flight's arrival.                        *)
ChildrenAreArrivals ==
  \A o \in Object : o # loading /\ children[o] # NotLoaded =>
    \A n \in Node :
      Cardinality({i \in 1..Len(children[o]) : key[children[o][i]] = n})
      = Cardinality({f \in db : Catches(key[o], f) /\ Arrival(f) = n})
=============================================================================
