------------------------------ MODULE DepthFirst ------------------------------
(***************************************************************************)
(* AbstractNode::DFS and the queries built on it: the depth-first tour     *)
(* `dfs' and the list of connections `all_paths'.                          *)
(*                                                                         *)
(* A call of DFS discovers its node, loads the node's edges, calls itself  *)
(* for every child that is still undiscovered and then visits the node.    *)
(* all_paths hangs two listeners on the graph: one pushes a discovered     *)
(* node on a list of its own, the other records that list when the target  *)
(* is only a wait away from a visited node, and pops.                      *)
(***************************************************************************)
EXTENDS SearchGraph, FiniteSets

VARIABLES
  frames,       \* the calls of DFS in progress, the innermost last
  trail,        \* AllPathsTo: `stack', the nodes pushed and not popped
  paths,        \* AllPathsTo: `result'
  answers       \* the flights of each path, as far as they are converted

vars == <<db, query, phase, pool, status, tour, frames, trail, paths, answers>>

Phases == {"idle", "search", "convert", "answered", "error"}

(* A call of DFS: its node, its depth_limit and the edges not taken yet. *)
Frame == [node : Node, limit : Nat, edges : SUBSET Flight]

TypeOK ==
  /\ db \in Databases
  /\ query \in Queries \cup {NoQuery}
  /\ phase \in Phases
  /\ pool \in SUBSET Node
  /\ status \in [Node -> Status]
  /\ tour \in Seq(Airport)
  /\ frames \in Seq(Frame)
  /\ trail \in Seq(Node)
  /\ paths \in Seq(Seq(Node))
  /\ answers \in Seq(Seq(Flight))

-----------------------------------------------------------------------------
Unused ==
  /\ query = NoQuery
  /\ pool = {}
  /\ status = Undiscovered
  /\ tour = <<>>
  /\ frames = <<>> /\ trail = <<>> /\ paths = <<>> /\ answers = <<>>

Init ==
  /\ db \in Databases
  /\ phase = "idle"
  /\ Unused

(* The innermost call, and the calls around it. *)
Inner == frames[Len(frames)]
Outer == SubSeq(frames, 1, Len(frames) - 1)

(* A call of DFS with a limit of 0 loads its edges but takes none. *)
Call(n, k) ==
  [node |-> n, limit |-> k, edges |-> IF k > 0 THEN DiscreteChildrenOf(n) ELSE {}]

(* dfs calls DFS with the default limit INT_MAX. *)
DepthLimit(q) == IF q.op = "dfs" THEN IntMax ELSE q.limit

(* What Discover leaves on the list of all_paths. *)
TrailOnDiscover(op, n) == IF op = "all_paths" THEN Append(trail, n) ELSE trail

Ask(q) ==
  /\ phase = "idle"
  /\ InRange(q)
  /\ query' = q
  /\ phase' = "search"
  /\ status' = StatusOnDiscover(q.op, q.from)
  /\ tour' = TourOnDiscover(q.op, q.from)
  /\ trail' = TrailOnDiscover(q.op, q.from)
  /\ pool' = EndNodes(q) \cup CreatedOnDiscover(q.op, q.from) \cup ChildNodes(q.from)
  /\ frames' = <<Call(q.from, DepthLimit(q))>>
  /\ UNCHANGED <<db, paths, answers>>

(* GetNode throws before anything is searched. *)
AskOutOfRange(q) ==
  /\ phase = "idle"
  /\ ~InRange(q)
  /\ query' = q
  /\ phase' = "error"
  /\ UNCHANGED <<db, pool, status, tour, frames, trail, paths, answers>>

-----------------------------------------------------------------------------
(* Faulty variants: a child is called again until it is visited; whatever  *)
(* its status is.                                                          *)
Unvisited(n) == status[n] # "VISITED"
AnyStatus(n) == TRUE

Fresh(n) == status[n] = "UNDISCOVERED"

(* Faulty variant: the loop does not get on. *)
NotAdvanced(f) == frames

(* The innermost call without the edge it has taken. *)
Advanced(f) == Append(Outer, [Inner EXCEPT !.edges = @ \ {f}])

(* Faulty variant: the child gets its parent's limit. *)
SameLimit == Inner.limit

LimitBelow == Inner.limit - 1

(* The innermost call takes its next edge, to an undiscovered node or not. *)
Descend ==
  /\ phase = "search"
  /\ \E f \in FirstOf(Inner.edges) :
       LET child == Arrival(f) IN
       /\ Fresh(child)
       /\ status' = StatusOnDiscover(query.op, child)
       /\ tour' = TourOnDiscover(query.op, child)
       /\ trail' = TrailOnDiscover(query.op, child)
       /\ pool' = pool \cup CreatedOnDiscover(query.op, child) \cup ChildNodes(child)
       /\ frames' = Append(Advanced(f), Call(child, LimitBelow))
  /\ UNCHANGED <<db, query, phase, paths, answers>>

SkipEdge ==
  /\ phase = "search"
  /\ \E f \in FirstOf(Inner.edges) :
       /\ ~Fresh(Arrival(f))
       /\ frames' = Advanced(f)
  /\ UNCHANGED <<db, query, phase, pool, status, tour, trail, paths, answers>>

(* Faulty variant: nothing is popped from the list of all_paths. *)
Unpopped(s) == s

Front(s) == SubSeq(s, 1, Len(s) - 1)

(* Faulty variant: only the end node itself is taken for the target. *)
IsEndNode(n) == n = query.to

AtTarget(n) == n = query.to \/ IsContinuousChild(n, query.to)

(* Visit, with the listener that all_paths hangs on it, and the return to  *)
(* the outer call.                                                         *)
Leave ==
  /\ phase = "search"
  /\ Inner.edges = {}
  /\ status' = StatusOnVisit(query.op, Inner.node)
  /\ frames' = Outer
  /\ IF query.op = "all_paths"
     THEN /\ paths' = IF AtTarget(Inner.node) THEN Append(paths, trail) ELSE paths
          /\ trail' = Front(trail)
     ELSE UNCHANGED <<paths, trail>>
  /\ IF Outer # <<>> THEN UNCHANGED phase
     ELSE phase' = IF Touring THEN "answered" ELSE "convert"
  /\ UNCHANGED <<db, query, pool, tour, answers>>

-----------------------------------------------------------------------------
(* ConvertPathList: one path after the other. *)
Convert ==
  /\ phase = "convert"
  /\ IF Len(answers) = Len(paths)
     THEN phase' = "answered" /\ UNCHANGED answers
     ELSE LET next == paths[Len(answers) + 1] IN
          IF Convertible(next)
          THEN answers' = Append(answers, ConvertPath(next)) /\ UNCHANGED phase
          ELSE phase' = "error" /\ UNCHANGED answers
  /\ UNCHANGED <<db, query, pool, status, tour, frames, trail, paths>>

(* The planner's function returns and the graph is gone. *)
Return ==
  /\ phase \in {"answered", "error"}
  /\ phase' = "idle"
  /\ query' = NoQuery
  /\ pool' = {} /\ status' = Undiscovered /\ tour' = <<>>
  /\ frames' = <<>> /\ trail' = <<>> /\ paths' = <<>> /\ answers' = <<>>
  /\ UNCHANGED db

Step == Descend \/ SkipEdge \/ Leave \/ Convert \/ Return

Next == Step \/ \E q \in Queries : Ask(q) \/ AskOutOfRange(q)

(* A query is straight-line code of one thread: it goes on until it        *)
(* returns.  Nothing obliges the user to type another.                     *)
Spec == Init /\ [][Next]_vars /\ WF_vars(Step)

-----------------------------------------------------------------------------
(***************************************************************************)
(* Properties                                                              *)
(***************************************************************************)

Callers == {frames[i].node : i \in 1..Len(frames)}

(* The asserts of Discover and Visit never fail: a node with a call of DFS *)
(* in progress is discovered and not yet visited, although the listeners   *)
(* of a tour discover and visit nodes behind the recursion; and no node    *)
(* has two calls in progress.                                              *)
AssertsHold ==
  /\ \A n \in Callers : status[n] = "DISCOVERED"
  /\ \A i, j \in 1..Len(frames) : frames[i].node = frames[j].node => i = j

(* The list that the listeners of all_paths keep is the call stack.        *)
TrailIsCallStack ==
  phase = "search" /\ query.op = "all_paths" =>
    /\ Len(trail) = Len(frames)
    /\ \A i \in 1..Len(trail) : trail[i] = frames[i].node

(* After each Discover and Visit all nodes of an airport that the tour     *)
(* knows or may come to know agree on the airport's status.                *)
TourCoherent == query # NoQuery /\ phase # "error" /\ Touring => OneStatusPerAirport

(* A depth-first tour lists no airport twice, and only airports that can   *)
(* be reached from the start in time.                                      *)
TourIsSound ==
  phase = "answered" /\ Touring =>
    /\ TourRepeatsNothing
    /\ \A i \in 1..Len(tour) : \E n \in Reachable(query.from) : n.airport = tour[i]

Listed == phase = "answered" /\ query.op = "all_paths"

(* Each connection all_paths lists is a way from the start to the target   *)
(* by the deadline, of no more flights than the limit.                     *)
ListedAreWays ==
  Listed => \A i \in 1..Len(answers) :
    /\ Leads(query.from, answers[i], query.to)
    /\ Len(answers[i]) <= query.limit

(* No connection is listed twice; more, no two listed connections end in   *)
(* the same arrival.                                                       *)
ListedOnce ==
  phase \in {"search", "convert", "answered"} =>
    \A i, j \in 1..Len(paths) :
      paths[i][Len(paths[i])] = paths[j][Len(paths[j])] => i = j

(* all_paths lists every connection within the limit if there is only one  *)
(* way to each arrival.  Staying at the start counts as one, so that none  *)
(* of these ways comes back to the airport of the start.                   *)
OneWayToEach ==
  LET Taken(to) == Ways(query.from, to, Cardinality(db))
  IN  \A f \in db : \A s, t \in {u \in Taken(Arrival(f)) :
         u = <<>> \/ Arrival(u[Len(u)]) = Arrival(f)} : s = t

AllListedIfOneWayToEach ==
  Listed /\ OneWayToEach =>
    \A s \in Ways(query.from, query.to, query.limit) :
      \E i \in 1..Len(answers) : answers[i] = s

(* all_paths fails only if the end nodes are out of range, or two flights  *)
(* of one route land at the same time: then ConvertPath throws.            *)
FailsOnlyIfAmbiguous == phase = "error" /\ InRange(query) => ~UniqueArrivals

(* Every query gets an answer or an error, and the command loop goes on.   *)
QueryReturns == (phase # "idle") ~> (phase = "idle")

(* A bound on the steps that a query has still to take.  A node is called  *)
(* once and left once; a call takes each of its edges once.                *)
SearchWork ==
  (Cardinality(db) + 2) * (2 * Cardinality(Unseen) + Len(frames)) + Cardinality(Inner.edges)

Work ==
  CASE phase = "search" -> SearchWork + Len(paths) + 3
    [] phase = "convert" -> Len(paths) - Len(answers) + 2
    [] phase = "idle" -> 0
    [] OTHER -> 1

(* Each step of a query leaves fewer to take: neither a loop over edges,   *)
(* nor the recursion, nor the loop that converts the paths runs for ever.  *)
QueryGetsOn == [][phase # "idle" => Work' \in 0..(Work - 1)]_vars

-----------------------------------------------------------------------------
(***************************************************************************)
(* What the documents say and the code does not do                         *)
(***************************************************************************)

(* README: "query_all_paths"; the requirement asks for all connections,    *)
(* direct or with one change.  A node is visited once, and recorded with   *)
(* the first trail that led to it only.                                    *)
AllListed ==
  Listed =>
    \A s \in Ways(query.from, query.to, query.limit) :
      \E i \in 1..Len(answers) : answers[i] = s

(* README: "query_connectivity"; the requirement asks whether two airports *)
(* are connected directly or with one change.  A node that is discovered   *)
(* at the depth limit is not expanded, and nothing else will expand it.    *)
ConnectedIsListed ==
  Listed /\ Ways(query.from, query.to, query.limit) # {} => answers # <<>>
=============================================================================
