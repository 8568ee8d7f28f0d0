# A verification project for the flight planner

TLA+ modules, TLC configurations and TLAPS proofs for the program in this repository: a command-line flight planner
that loads a file of flight records, builds a time-expanded graph over them on demand, and answers five kinds of
query by depth-first and priority-first search. The program is sequential. What is hard about it is not concurrency but
control flow that is hard to see: listeners that discover and visit nodes *behind* a search in progress, an exception
used as the return path of a search, a heap ordered by a mutable field, a status that is never reset, index structures that
must stay aligned, and container code that manages raw storage.

All paths below are relative to `src/`.

## The system

| Component | Source | State | Operations | Used by |
|---|---|---|---|---|
| Search | `project/include/abstract_node.hpp`, `abstract_graph.hpp` | per node: `status`, `priority`, `parent`, loaded children; per graph: the node pool and two events | `Discover`, `Visit`, `DFS`, `PFS`, `GetPath`, `GetNode`, `LoadDiscreteChildren`, `AllPathsTo`, `BestPathTo` | planner |
| Flight graphs | `abstract_flight_graph.hpp`, `flight_graph_complete*.hpp` | a reference to the database | edges of a node, weight of an edge, continuous children | search |
| Planner | `flight_planner.cpp` | the database, loaded once | `DFS`, `BFS`, `AllPaths`, `ShortestPath`, `MinimumCostPath`, `SyncAirportStatus` | command loop |
| Flight database | `flight_database.cpp` | the records, the airport range, two bucket indices | load, `InitAirportRange`, the queries, `ConvertPath` | planner, graphs |
| Node container | `abstract_flight_graph_node_container.hpp` | per airport two parallel vectors: elements and times | `Add`, `Sort`, lookup by node, lookup by airport | database (indices), graph (pool) |
| Flight types | `flight_types.hpp` | `AirportRange`, `FlightNodeKey` | `Within`, comparison | all |
| Event | `surakarta_event.hpp` | a list of listeners | `AddListener`, `Invoke` | search |
| Command loop | `main.cpp` | what is left of the line in hand | `ReadToken`, `ReadInt`, `ReadDateTime`, run one query, print, catch | user |
| List | `miniSTL/.../list.hpp` | a ring of nodes through a dummy, a count | insertion and erasure of an element at an iterator; erasure of a range, clearing and assignment in loops | paths, listeners |
| Vector | `miniSTL/.../vector.hpp` | raw storage, its capacity, a size | growth, push, pop, erase, insert, assign, swap | all |

How they interact. `main` builds the planner (a static object: the file is read before `main` runs) and then reads one line
at a time. Each query builds a **new** graph, creates its end nodes, hangs listeners on the graph's `OnDiscover` and
`OnVisit`, and runs one search from the start node. The search asks the graph for edges, the graph asks the database. Every
status change runs the listeners, on the stack of the search. A tour (`dfs`, `bfs`) hangs `SyncAirportStatus`, which
gives every arrival at the node's airport the same status *without* going through `Discover` or `Visit`; then its own
listener, which lists the airport. `all_paths` hangs a pair of listeners that keep a stack of their own. A best-path query
hangs one that throws the path out of the middle of the search. Finally paths of nodes are converted back into
flight records, which may throw.

### What makes each component correct

* **Search.** The asserts of `Discover`, `Visit` and `PFS` hold whatever listeners do; no key of the heap changes while
  it is in the heap; nodes are expanded in the right order; every call returns.
* **Tours.** Each airport once; only airports that can be reached; all nodes of an airport agree on its status.
* **Best paths.** The answer can be flown, meets the deadline, is the best; "no path" is true; a query fails only for a
  reason that lies in its input.
* **All paths.** The listeners' stack is the call stack; what is listed is a connection within limit and deadline;
  nothing twice; nothing missing.
* **Database, container.** Records are the lines of the file; both indices hold every record once, in order, elements and
  times aligned; a lookup by node finds exactly the records from that time on.
* **Vector, List.** They implement a sequence; no slot is used before it is constructed or after it is destroyed; the ring
  is linked both ways and counted, in the middle of every loop; every loop ends, also when a list is assigned to itself.
* **Command loop.** The planner is asked what was typed; every line is dealt with once and in order, whatever went wrong before.

### What is hard to test

`PROJECT.json` lists the hazards with their lines. In short: listeners that change state under a running loop;
nodes reached in several ways but entered once; the depth limit combined with "discovered"; ties in the heap and in
`std::sort`; `INT_MAX` as "not reached" and times narrowed to `int`; ambiguous records found only after the search has
succeeded; storage whose objects come and go by hand; a loop that would read the list it pushes to if that were not cleared first; `npos + 1` being 0 where a
token or separator is missing.

## The modules

| Module | Models | Notes |
|---|---|---|
| `FlightGraph` | flight types, the three graphs, `ConvertPath`, the lookups the database answers | no actions; `db`, the set of flights loaded, is its only variable. Also the *independent vocabulary* of the properties (`Catches`, `IsItinerary`, `Leads`, `Reachable`, `Ways`), stated of the records and not of the graph's operators, so that a bug in an edge cannot hide in the property |
| `SearchGraph` | one query at a time; the pool; `Discover` and `Visit` with all listeners; `SyncAirportStatus` | shared by the two searches |
| `PriorityFirst` | `PFS`, both priority updaters, `BestPathTo`, `GetPath`, `bfs`, `shortest_path`, `minimum_cost_path` | one action per step of the loop |
| `DepthFirst` | `DFS`, `AllPathsTo`, `dfs`, `all_paths` | the recursion is an explicit stack of frames |
| `NodeContainer` | the container: two parallel vectors for each airport, `Add`, both `Get`, `Sort` | operators only |
| `FlightDatabase` | construction of the database, line by line, and the lookups on it | an instance `Graph` of `FlightGraph` states what the lookups must give |
| `NodePool` | `GetNode` and `LoadDiscreteChildren`, with nodes as objects and not as keys | EXTENDS `FlightGraph` and `NodeContainer` |
| `Containers` | what both containers promise: a sequence for each, and what the operations do to it | abstract specification |
| `List` | every operation of `List` that changes which elements it has and that compiles, loops turn by turn, over the nodes and their four pointers | `Promise == INSTANCE Containers WITH contents <- ...` |
| `Vector` | every operation of `Vector` that changes it and that compiles, and the assignment to an element, over slots that hold a value or a destroyed object, for trivial and class types | `Promise`, likewise |
| `CommandLoop` | `main` and the parsing of arguments, `ParseDateTime` included; the planner answers anything it can | the queries themselves are `PriorityFirst` and `DepthFirst` |
| `MC...` | small data files, queries, containers and inputs for TLC | |
| `SearchGraphProofs` | lemmas for both searches: Discover, Visit, reachability | |
| `PriorityFirstProofs` | theorems about `PriorityFirst` | |
| `DepthFirstProofs` | theorems about `DepthFirst` | |
| `NodePoolProofs`, `FlightDatabaseProofs`, `ListProofs`, `VectorProofs`, `CommandLoopProofs` | theorems about `NodePool`, `FlightDatabase`, `List`, `Vector`, `CommandLoop` | |

`PriorityFirst` and `DepthFirst` each EXTEND `SearchGraph`, which EXTENDS `FlightGraph`. `FlightDatabase` and `NodePool`
carry the two abstractions that the search modules make: that the lookups of the database are set comprehensions over the
flights loaded (`Graph == INSTANCE FlightGraph WITH db <- ...`, `LookupsMatchGraph`), and that a node is the same
thing as its key (`GetNodeSucceeds`, `ObjectsAreStable`). `List` and `Vector` carry a third: that the containers of the other modules are
sequences. `CommandLoop` and the two searches meet at the planner's functions: `CommandLoop` leaves the answer open, and `QueryReturns` of the
searches is why its step `CallPlanner` ends.

### How state and actions correspond to the code

* `status[n]`, `priority[n]`, `parent[n]` are the fields of the `Node` with key `n`; a node not in `pool` has not been
  created, and its fields have the values its constructor would give. `GetNode` keeps one node per key, so a key stands for
  a pointer.
* `queue` is the `std::priority_queue` as a set. Only the order of the keys is fixed by the code; which of several equal
  nodes is on top is a choice (`Top`). No node is pushed twice, because only undiscovered nodes are pushed; that is part
  of what `AssertsHold` says of the heap (a second copy would be found visited).
* `edges` is what a loop over `m_discrete_children` has not taken. The loop runs in the order of the departures bucket,
  by time and then by destination; flights equal in both are in either order, since `std::sort` is not stable (`FirstOf`).
* Actions of `PriorityFirst`: `Ask` is the planner's function up to the loop of `PFS` (`abstract_node.hpp` 93-101),
  `Pop` 102-107, `ScanEdge` one turn of the loop 108-117, `Visit` 118 with every listener, including the one that throws,
  `Exhaust` the end of the loop, `Backtrack` and `Backtracked` the loop of `GetPath`, `Convert` `ConvertPath`, and
  `Return` the end of the planner's function, where the graph dies.
* Actions of `DepthFirst`: `Descend` and `SkipEdge` are one turn of the loop of `DFS`, `Leave` the end of a call with
  `Visit` and its listeners, `Convert` one path of `ConvertPathList`.
* Actions of `FlightDatabase`: `OpenFile`, `ReadHeader`, `LoadLine` are the lines of `LoadDatabase`; `InitAirportRange`;
  `IndexRecord` one turn of the loop that fills both indices; `SortDepartures` and `SortArrivals` one airport of `Sort`. A
  line is a flight with an id, an empty line, or one at which `std::stoi` throws. `GetLine` is `std::getline`: once the end of
  the file has been met it leaves the string alone, and it meets the end in reading a line that has no newline.
  `MemoryExhausted` stands for the allocation that finally fails. An exception ends the program, since the database is
  built during static initialisation (phase `terminated`). Two reads outside the records are undefined: that of the first record
  of none gives any airport as the range; that of a comparator ends the model (phase `undefined`).
* `NodePool` numbers the objects in order of creation. `Ask` is any call of `GetNode` from outside; a call for an airport out of
  range throws and changes nothing, so it is no action. `LoadChild` is one turn of the loop of `LoadDiscreteChildren`.
* A listener runs inside `Discover` or `Visit`, hence inside the same action, in the order it was hung: `SyncAirportStatus`
  first, then the query's own. `SyncAirportStatus` creates every arrival of the airport (`CreatedOnDiscover`).
* A query that throws (`out_of_range` of an unserved airport, or a path with an ambiguous step) ends in phase `error` and
  the command loop goes on.
* `List`: `next`, `prev`, `value` and `size` are the fields; a node that is not allocated has none. A call that loops is a
  sequence of loops still to run (`clear`, then a copy, say), and one turn of a loop is one step, so that a loop reading through
  iterators meets the list as the turn before left it. `Holds` is the refinement mapping: what a list will hold when the call in
  progress is done. It changes when a call begins and at no turn of a loop (`ListIsSequence`), which is what makes a call atomic for its
  client. `Assign` stands for every form of assignment but that of another list: the values come from outside, since the
  iterators of a `List` are no input iterators (their `operator*` is not `const`) and the range forms do not take them. `AssignList` is `operator=` of a
  list, the same one perhaps: its range-for reads the ring it pushes to. What `std::list` leaves to its client is left to him here: an element to
  erase exists and ranges are ranges.
* `Vector`: `slots` is `m_data`, `Len(slots)` the capacity. A slot holds a value or is `Destroyed`. Growth constructs every new slot,
  `pop_back` and `erase` destroy; assignment to a destroyed object is undefined unless the type is trivial, and so are a read outside the
  storage and one through a reference that `ensure_space` has left dangling. After undefined behaviour (`lawful` is FALSE) the model takes no
  more steps. `program` restricts the calls to those the planner's code makes, one operator for each place where it does: `IndexCall` (the node
  container: an empty vector is resized, buckets are filled by `push_back`, `std::sort` and `Sort` write elements), `EdgeKeysCall` (`DiscreteChildrenOf`, and
  `LoadDiscreteChildren` likewise: `reserve`, then `push_back`, of a class type), `QueueCall` (the container of `std::priority_queue`, of raw pointers: it is copied
  while it is empty, and elements are pushed, popped and written), and `Clear` for what a constructor and a destructor leave.
* `CommandLoop`: a line is a sequence of lexemes (`Number`, `Word`, the commands and the three separators); a number is named by
  its lexeme, and of words the code tells only `exit` apart. `Upto` and `After` are the two `substr` calls that all parsing here is made of. `ReadLine` is `getline` with the dispatch,
  `ReadArgument` one `ReadInt` or `ReadDateTime` with the exception it may raise, `CallPlanner` the planner's function and what is
  printed, `PrintEmptyPath` the undefined `at(0)`. How often `getline` succeeds at the end of the input is `LineCount`.
* `ToInt` narrows a 64-bit difference to `int`, with the wrap-around of the build's debug flags; `IntMax` is `INT_MAX`, a
  constant of the model.

Definitions under the comment "Faulty variant" are plausible bugs. Nothing uses them; each is put in the place of the definition
after it to see that some property notices (`mutants` in `PROJECT.json`).

## The runs

| Run | What it shows |
|---|---|
| `pfs_tour` | breadth-first tour: asserts, coherence of an airport's status, each airport once and reachable, level order, the heap's keys are stable, a node the tour itself discovers is expanded whole |
| `best_path` | `shortest_path` and `minimum_cost_path`: the answer can be flown, the shortest is the earliest, the cheapest is of least price *if no two flights share an arrival node*, "no path" is true, failure only for ambiguous records, expansion in order, each step of a query leaves fewer to take, every query returns |
| `depth_first` | `dfs`: asserts, coherence, each airport once and reachable; `all_paths` with limits 1 to 3: listener stack = call stack, listed connections are real and distinct, complete where each arrival is reached in one way (staying at the start counts as one); each step of a query leaves fewer to take, every query returns |
| `database` | what is loaded from a file and when loading ends; if ids are positions, the lookups on both indices give range, edges (in order), arrivals and records of `FlightGraph` |
| `pool` | one object to a key, always the same; loaded children are one object for each flight that can be caught; `GetNode` never throws while children are loaded |
| `list` | rings well linked in every state, no node lost or shared; each operation does to the sequence what it promises, and no turn of a loop shows; a list assigned to itself ends up empty; every call returns |
| `vector` | what the program does to vectors (`ProgramCall`) is never undefined, for any type; as long as nothing undefined is done a vector is a sequence, except that `insert` loses elements |
| `commands` | the planner is asked what was typed, also by truncated and garbled lines (whose last token is repeated); the loop ends after the last line or `exit` and has dealt with every line |
| `pfs_cost_least`, `pfs_tour_complete`, `all_paths_missing`, `connectivity_missing` | each refutes one sentence of the documents; see *Findings* |

**Bounds.** Each run takes every data file of one to four flights out of ten that were chosen so that the interesting
cases occur: nodes reached in several ways and from several airports, two records of one route that land together, a flight
back to the start, an airport two flights away, one without flights (out of range), equal departures. The queries vary
start, target, deadline and limit. Four flights are enough for every interaction of two ways to one node, one of them
with a change; each faulty variant is caught within these bounds. `best_path` sets `IntMax` to 4, above every duration and below
some sums of prices, so that a way may cost `INT_MAX` or more (what is then claimed is limited by `Priced`). No run has times that overflow; the
theorems hold for every `IntMax`, with the premise `NoOverflow` where times are compared.

`database` takes every file of up to three lines out of five flights (two of them equal), empty and garbled lines, with
and without a last newline, with ids that are positions, in reverse, all equal, or shifted by one: airports with three
departures to sort, equal departures, lookups that find two records. `pool` takes data files of up to four of five flights, two
of which share route and arrival, and four nodes to ask for, in any order. Both loops treat each record or edge alike, so three or
four suffice. `MaxRecords` is 4, one more than a file has lines, so that only a line read again can exhaust memory.

`list`: two lists share four nodes, enough to assign a list of two to itself and to the other, and each sequence of up to two values to either; nodes, lists and
values are symmetric. (With five nodes the run passes too.) `vector`: a vector that grows from 0 over 1 and 2 to
4 and one of up to 2, two values, insertions of up to 2, so that an inserted range may be longer than what follows it.
`commands`: each command of the README with two airports and distinct numbers, cut off at every lexeme, and with a mistake of each
kind (space before or after, two spaces, words for numbers, separators missing, no command, `exit` with a word), alone or followed by
one line or three, with and without a last newline. A line is parsed by itself, so three lines more are enough to see what one leaves behind.

**Fairness.** `WF_vars(Next)` in `FlightDatabase`: static initialisation goes on until it is done or the program ends.
`WF_vars(Step)` in the searches: a query is straight-line code of one thread, so it takes its next step; there is none on `Ask`, since nothing
obliges the user to type. `WF_vars(Next)` in `CommandLoop`: the whole input is there, and each step is straight-line code or a call of the
planner that returns. `List` needs none: `CallsReturn` says that each turn of a loop leaves less to do, and there is no deadlock.

**Deadlock** is checked except in `database` and `commands`, where the program ends, and in `vector`, where undefined behaviour ends the model.

## The proofs

`PriorityFirstProofs` proves, for every set of airports, times and flights, every data file, every set of queries and every
`IntMax`:

* `Typing`: `TypeOK`.
* `AssertsNeverFail`, `TourNeverRepeats`, `TourStaysCoherent`. None of the three is inductive. That a fresh child is not yet
  listed, and that no node in the heap is visited behind the search, both hang on there being one open node per airport
  (`TourInv`), and that on the nodes of an airport having one status. `SearchInv` is their conjunction with the shape of
  the phases.
* `HeapKeysNeverChange`, of `HeapKeysStable`: only undiscovered nodes get a priority, and by `SearchInv` none is in the heap.
* `TourIsReachable`, of `TourReachable`, by `ReachInv`: the open nodes are reachable; with `TourNeverRepeats` this is `TourSound`, of `TourIsSound`. (The nodes that only the
  synchronising listener has discovered need not be, but those are never open.)
* `TourGoesByLevels`, of `LevelOrder`, which together with `SearchInv` is inductive: the top of the heap has the least level, and a
  child is pushed at the level after that of the node being expanded.
* `TourExpandsWhole`, of `TourFollowsDepartures`, by `FollowInv`: a node with a priority is in the heap, being expanded, or done; the
  airports its flights lead to are listed unless their edges are still to be taken, because an undiscovered child gets listed and a child
  that is not undiscovered stands for an airport that was listed before.

It proves of `shortest_path` and `minimum_cost_path`:

* `AnswersAreItineraries`, `NoPathIsTrue`, `OnlyAmbiguityFails`, `ExpansionIsOrdered`, `ShortestPathIsEarliest`,
  `LeastPriceWithoutSharedArrival`.

The inductive invariant `BestInv` adds to `SearchInv`: what is discovered is open or visited and no child of a visited node
is undiscovered (`Explored`); a parent has a flight to its child (`Parents`); the search stops at the first visited node
that is a wait away from the target (`Stopped`); the path follows parents (`Chained`); and priorities are times since the
start, hence nodes are expanded in order of time (`Ordered`). Optimality follows by a closed set: reachability is
defined as membership in every set that holds the start and is closed under taking a flight, and "visited, or no earlier than
the node where the search stopped" is such a set. This is why `shortest_path` is right although a discovered node is never
relaxed: the priority of a node is the same whichever way it was reached. For prices that is not so, and
`minimum_cost_path` is not optimal (first finding below).

It is optimal where no two flights share an arrival node and prices fit into an `int`. That is `LeastPriceWithoutSharedArrival`,
by `CostInv`, which adds `Cheapest` to `BestInv`: a node costs what its parent costs and the flight from there (`PricedByParent`), nodes are
expanded in order of price (`CheapestFirst`), and no flight from an expanded node would make its end cheaper (`Settled`, for which one flight
to each node is needed). Along the answer prices therefore add up to the priority of its end (`AnswerCosts`); along any other way they add up
to no less than where the search stopped (`NoWayIsCheaper`). `PriceOf` is a fold over flights; `SumExists` and `PriceOfOneMore` give it
its recursion step.

It proves that no query runs for ever:

* `QueriesEnd`, of `QueryGetsOn`: `Work`, a natural number, bounds the steps a query has still to take, and each step makes it
  smaller. A node enters the heap only when it ceases to be undiscovered and leaves it once; when it leaves, its edges come in, of which there
  are no more than records, so a node weighs more than all edges. That the nodes which can be discovered are finitely many is `WorkInv`: each is the start or
  the end of a record (`DiscoveredWithin`), also those discovered by the synchronising listener. `GetPath` ends because a
  parent is an earlier node than its child, for which `BestInv` is needed (`WorkBacktrack`).
* `QueriesNeverStick`: while the search goes on there is a step to take. A heap that is not empty has a top, and edges that are left have a first one:
  in a finite set an order has a first element (`FirstExists`, in `SearchGraphProofs`).

`DepthFirstProofs` proves of the recursion, for every data file, set of queries and depth limit:

* `Typing` and `TrailFollowsCalls`, of `TypeOK` and `TrailIsCallStack`, by `Typed`: the limits of the calls on the stack
  count down by one (`Shape`), so that none falls below zero, and the list of `all_paths`, popped with each visit, always
  has something to pop because it is the stack.
* `AssertsNeverFail`, `TourStaysCoherent`, `TourSound`, of `AssertsHold`, `TourCoherent` and `TourIsSound`, by `SearchInv`, whose parts
  are those of the invariant above with the calls in progress in the place of the open nodes.

It proves of `all_paths`:

* `ListedWays`, `ListsNothingTwice`, `OnlyAmbiguityFails`, of `ListedAreWays`, `ListedOnce` and `FailsOnlyIfAmbiguous`, by `ListInv`: the
  stack is a way from the start that spends the limit flight by flight (`TrailInv`); a recorded path was the stack when its
  last node was visited, and a node is visited once (`PathsInv`); what is converted so far are the flights of the paths
  (`AnswersInv`), and a step of a path with two records is the only reason to fail (`TrailConverts`).
* `ListsAllIfOneWay`, of `AllListedIfOneWayToEach`, by `FullInv`, which adds `Followed` to `ListInv`: a discovered node is on the stack, a
  visited one was left with a trail, its edges followed if the limit allowed it, and recorded if it is at the target. A way from the
  start is then followed flight by flight: since only one way leads to each node, the trail with which the node was left is the way so
  far, which is shorter than the limit, so that the next node is visited too.

It proves that no query runs for ever:

* `QueriesEnd`, of `QueryGetsOn`, and `QueriesNeverStick`, in the same way. A call that begins brings in its edges, and a call that returns
  uncovers those of the call around it, so a node counts twice while it is undiscovered, once while its call is in progress, and each weighs
  more than all edges (`CallOutweighsEdges`). `WorkLeave` hangs on `AssertsHold`: visiting a node that had not been
  discovered could be a step back. That there is a call in progress during a search is `Shape`.

`NodePoolProofs` proves of the pool, for every data file and every set of nodes asked for:

* `PoolLookups` and `PoolStability`, of `GetNodeSucceeds` and `ObjectsAreStable`. The inductive
  invariant is `PoolInv`: the range spans the airports of all flights (`Spanned`), what stands in the pool is an object
  filed under its key (`Filed`), every object stands there (`Present`), and no airport has a time twice (`NoRepeat`). The pool
  is two parallel vectors, so that `NoRepeat` alone is not inductive: a new time is new only because `Get` has looked at all
  times, and the object found under it is the right one only by `Filed`. `GetNodeEffect` is the lemma all steps share.
* `Typing` and `ChildrenCounted`, of `TypeOK` (which is proved only) and `ChildrenAreArrivals`, by `ChildInv`. The property counts; the invariant has no numbers in
  it but a bijection: the places of a child vector and the flights taken so far correspond one to one (`Enlists`), and one more turn of the loop
  adds one pair.

`FlightDatabaseProofs` proves of the loader, for every file:

* `Typing`, by `TypeInvariant`: both indices span the range once there is one, and what `Sort` rearranges keeps its type.
* `LoadingKeepsLines`, of `RecordsAreLines`, by `LoadInv`. While the stream is good, records and the rest of the file together are the file
  (`Following`). At its end there are two special cases, which make the property more than a copy of the loop: a file without lines, whose one line is
  blank (`NoLine`), and a last line without newline, which is read again for ever since `getline` leaves the string alone (`Stuck`).
* `IndicesGiveGraph`, of `LookupsMatchGraph`, by `IndexInv`: the bucket of an airport holds each record of the airport that the loop has passed
  exactly once, with its time beside it (`Bucket`, `Fills`), and the buckets the cursor of `Sort` has passed are in order (`InOrder`). `Sort` moves
  ids and times apart, in two vectors, by any permutation that orders the records; that the pairs stay together is `BucketRearranged`.
  That the lookups on such buckets are the set comprehensions of `FlightGraph` is shown lookup by lookup (`RangeFound`, `ArrivalsFound`,
  `EdgesFound`, `RecordsFoundOnce`).
* `WellFormedIsAccepted`, the safety half of `LoadsIfWellFormed`: on a file of flights numbered from 0, with a newline at its end, `std::stoi` never
  throws, memory is never exhausted, no record past the end is read in sorting, and there is a first record for `InitAirportRange` to read.

`ListProofs` proves, for any lists, values and finite memory:

* `RingsStayLinked`, of `WellLinked`, by `ListInv`. What one meets along `m_next` is a recursive walk, about which an invariant is hard to keep;
  so `Linked` relates the pointers to an explicit sequence of nodes for each list. An insertion or an erasure changes one place of it (`InsertLinks`,
  `EraseLinks`: four pointers, and all the cases in which two of the nodes concerned are one), and `WalkMeets` shows once that the walk gives back this
  sequence, by an induction that ends because a list has no more nodes than memory (`SizeBound`). `Linked` alone is not inductive: a loop erases and
  inserts where its iterators point. `Ready` says that these are places of its lists, in order, and that a copy that has begun reads another list
  than the one it pushes to: one into itself begins only when the list has been cleared, and finds nothing (`CopyWhole`).
* `ListKeepsPromise`, of `ListIsSequence`, by the same invariant. `Elements` is the sequence of a list's values; an insertion puts one value into it
  and an erasure takes one out (`Put`, `Taken`), and these say what becomes of its parts. What a list will hold is written in such parts for each
  kind of call (`CopyHolds`, `PushHolds`, `EraseHolds`, `ClearHolds`), before and after a turn, and the two agree: a turn moves one value
  from the part that is to come to the part that is there, or drops one of the part that is to go.
* `CallsEnd`, of `CallsReturn`, from what each turn does (`CopyEffect`, `PushEffect`, `EraseEffect`, `ClearTurn`): the work left is the distance of two
  places, the length of a sequence or a size, and each turn makes it smaller by one. That there is a turn while there is work is not in the theorem: TLC finds no deadlock.

`VectorProofs` proves, for any vectors, values and bounds:

* `NothingUndefined`, of `LifetimesRespected`, and `OperationsAsNamed`, of `VectorIsSequence`, by `VectorInv`: the slots in use hold values; and
  under the calls of this program all slots do, if the type is not trivial. The second part is why `push_back` may assign to the slot behind
  the last element: a vector that grows or reserves constructs its whole new storage, and nothing that was pushed is popped but raw pointers. It does not follow from
  the property. Every operation but `swap` ends in `Becomes`, so each has one lemma that says what it makes of its vector: storage whose first slots
  are a given sequence (`Gives`), and of that the contents afterwards (`After`). `Spliced` with `SpliceEffect` reads concatenations
  of `SubSeq`s slot by slot, for `erase`, `push_back` and `insert`. The lemmas do not ask which client made the call, so the theorem
  covers calls that happen to look like another operation, too.

`CommandLoopProofs` proves, for any numbers and words, any commands that are meant and any input, of any number of lines of any length:

* `CallsAsTyped`, of `RunsWhatWasTyped`, by `LoopInv`. The property is about calls that were made; the invariant is about the line in hand, of
  which `After` has cut an unknown number of pieces. What is left of it is always an end of the line, and as long as only airports were read it is
  the end that begins where the next word does (`Located`). After the last word `After` finds no space and gives the same word again, which
  is why the place is bounded by the number of words (`Place`). Every number read stands on the line, an airport at its place
  (`FoundThere`): `ParseDateTime` may find its five numbers anywhere, but it makes up none. The converse, that a line as the
  README has it makes the call it means, needs what is still to come: the rest of the line is the arguments not yet read, as
  they are written (`Understood`), and a reader of an airport or of a date takes off just its own.
* `NoLineSkipped`: when the loop is left, every line before the first `exit` has been answered, in order and whatever errors there were.
  This is the safety half of `EveryLineAnswered`. Its invariant, `OrderInv`, is that no line answered is an `exit`, and that the loop
  goes on only while there are lines.

`SearchGraphProofs` holds what both searches need. Proofs along an itinerary go by induction on its length; since the library's
induction theorems take an operator, which the provers cannot instantiate, the induction is stated with sets (`UpTo`: a set that holds 0 and
with each number the next holds all up to a bound) and derived from the theorem that the order of the naturals is well-founded (`Least`).

Assumptions, all named in the modules: times and airports are integers; flights land after they take off
(`DurationAssumption`; true of every line of the data file, not checked by the loader); a data file is finite (`FinitenessAssumption`: the loader
has read it to its end); the null values are no nodes or queries; the memory of lists is finite
(`MemoryAssumption`) and what is assigned to them are sequences of values (`AssignedAssumption`); what `std::stoi` converts is neither a
separator nor a command, and throwing is not a number (`NumberAssumption`); a command that is meant has the arguments that
`main` reads for it (`RequestAssumption`), and what is typed are lines of lexemes (`InputAssumption`).
`ShortestPathIsEarliest` and `ExpansionIsOrdered` carry the premise `NoOverflow`; `AnswersAreItineraries` carries `Priced`, since a
way that costs exactly `INT_MAX` is not recorded.

**Only model-checked.** Every invariant that a run checks, every action property and both refinements of `Containers` are theorems. Left to TLC is what needs
fairness or `ENABLED`, which the prover cannot handle, and of that as little as possible:

* that every query of a search returns (`QueryReturns`). That it takes only so many steps and is not stuck in the search is proved (`QueriesEnd`,
  `QueriesNeverStick`); what remains is that the steps are taken.
* that a well-formed file is loaded to its end (`LoadsIfWellFormed`). That it is never rejected, nor read past its end, is proved (`WellFormedIsAccepted`).
* that the command loop ends (`EveryLineAnswered`). That it has then dealt with every line is proved (`NoLineSkipped`).
* that nothing deadlocks.

The sentences of the documents that *Findings* lists are refuted by TLC.

## Findings

* `minimum_cost_path` is not always of least price (`abstract_node.hpp:110`). In the repository's data, 8 to 61 is
  answered with 3456 where 3414 is possible.
* `all_paths` does not list all connections (`abstract_node.hpp:73`): with the repository's data and the default limit, 39279
  of 138046 connections over 4244 pairs.
* A connection with one change may be answered with an empty list (`abstract_node.hpp:71`). No pair of the repository's
  data is affected.
* A tour misses airports that can be reached (`flight_planner.cpp:6`), since an airport is expanded only at the arrival by
  which it was discovered.
* The comment at `abstract_node.hpp:20` on undiscovered nodes does not hold (an arrival may be the child of an undiscovered and of
  an expanded node); no code relies on it, and no run is spent on it.

Not against any document, but worth knowing, and stated by the properties of passing runs: `Vector::insert` loses the last elements
(`InsertSpoilsTheEnd`), a `List` assigned to itself ends up empty (`ListIsSequence`), a command that is cut off runs with its last token
repeated (`RunsWhatWasTyped`), and asking for the way from an airport to itself reads a record that is not there (`EveryLineAnswered`).

## Not modelled

* **Lifetime of captures.** The listeners of `SyncAirportStatus` capture its by-value parameters by reference and run after it
  has returned (`flight_planner.cpp:7`). This is undefined; the models take the outcome of the forced debug build, where the
  storage of the parameters still holds the pointers.
* **What does not compile when used.** In `List`: the insertion of a number of copies (`list.hpp:323`) and of a range or an initializer list (`list.hpp:329`, `336`), which
  return a `const_iterator` as an `iterator` (lines 326 and 333; the only conversion, line 217, is explicit); `List(List&&)`, which names a type that
  does not exist; the range forms of `assign` and of the constructor for iterators of a `List`. In `Vector`: `operator=` of another `Vector`. Nothing in the repository uses any of
  these. `operator=` of an initializer list compiles in both but lacks its `return`; what it does to the container is that of `assign`.
* **`Vector` and `List`, the rest.** Arguments that lie in the vector itself, other than that of `push_back` (`PushBackOwn`): `resize`, `assign` and `insert` read theirs after
  they may have freed or moved it, too. Assignment to an element of a `List` through an iterator, `front` or `back`; comparison; reverse iterators; allocation that fails.
* **Wide numbers on a command line.** A number out of `int`'s range makes `std::stoi` throw like a word does; fields of a date that
  are too large run into each other in `ParseDateTime`'s sum, which the model keeps apart.
* **`Event`.** Listeners run in the order they were hung, inside the search's action; the list of listeners has no other behaviour here.
* **Memory.** Nodes hold listeners that hold nodes, so graphs are never freed. Nothing observable depends on it.
* **Printing, `DateTime` formatting**, the build files, the data.
* **Catch2**, the vendored test framework, by far the largest part of the tree (about 97% of its lines): third-party code that the
  program does not contain. The program's own code, some 1500 lines, is what the modules are about.

## Plan

1. *(done)* The searches and the planner's queries; the theorems about `PriorityFirst`.
2. *(done)* `NodeContainer`, `FlightDatabase`, `NodePool`; the theorems about `NodePool`.
3. *(done)* `Containers`, `List`, `Vector`.
4. *(done)* `CommandLoop`.
5. *(done)* The theorems about `DepthFirst`, `FlightDatabase`, `Vector`, `List`, `CommandLoop`; the rest of those about `PriorityFirst` and `NodePool`.
6. *(done)* What the searches promise of their answers where the documents are wrong in general: `LeastPriceIfNoSharedArrival`, `AllListedIfOneWayToEach`.
