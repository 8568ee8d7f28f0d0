-------------------------------- MODULE List --------------------------------
(***************************************************************************)
(* miniSTL's List: a ring of nodes through a dummy that is a member of the *)
(* list.  An iterator is a pointer to a node, end() to the dummy.          *)
(*                                                                         *)
(* Whole operations are loops over insert_node and erase, and read their   *)
(* source through iterators while they change the list.  A call is here    *)
(* the sequence of the loops it has still to run, and each turn of a loop  *)
(* is a step.  What std::list leaves to its client is left to him: a place *)
(* to erase holds an element, ranges are ranges, and what is assigned does *)
(* not lie in the list itself.  Insertion of several elements is no        *)
(* operation of this list: the functions do not compile.                   *)
(***************************************************************************)
EXTENDS Integers, SequencesExt

CONSTANTS
  Lists,        \* the lists; each is also its dummy node
  Heap,         \* the nodes AllocNode can give out: bounds the elements of all lists
  Value,
  Assigned,     \* the sequences of values that clients assign
  Null          \* a field of a node that is not allocated

Node == Lists \cup Heap

ASSUME NodeAssumption == Lists \cap Heap = {} /\ Null \notin Node
ASSUME MemoryAssumption == IsFiniteSet(Heap)
ASSUME AssignedAssumption == Assigned \subseteq Seq(Value)

VARIABLES
  next, prev,   \* m_next and m_prev
  value,        \* m_value
  size,         \* m_size of each list
  call          \* the loops that the call in progress has still to run

nodes == <<next, prev, value, size>>
vars == <<nodes, call>>

Init ==
  /\ next = [n \in Node |-> IF n \in Lists THEN n ELSE Null]
  /\ prev = next
  /\ value = [n \in Heap |-> Null]
  /\ size = [l \in Lists |-> 0]
  /\ call = <<>>

Free == {n \in Heap : next[n] = Null}

-----------------------------------------------------------------------------
(* What one meets along m_next: the nodes of the list and then its dummy.  *)
(* These are the values that its iterators take from begin() to end(); the *)
(* i-th is the iterator to place i.                                        *)
Iterators(l) ==
  LET along[k \in 0..Cardinality(Heap)] ==
        IF k = 0 THEN <<next[l]>>
        ELSE LET s == along[k - 1] IN IF Last(s) \in Heap THEN Append(s, next[Last(s)]) ELSE s
  IN  along[Cardinality(Heap)]

Places(l) == 1..Len(Iterators(l))
Ranges(l) == {r \in Places(l) \X Places(l) : r[1] <= r[2]}

-----------------------------------------------------------------------------
(* Faulty variant: the successor keeps its way back. *)
InsertForward(l, pos, x, n) ==
  /\ next' = [next EXCEPT ![n] = pos, ![prev[pos]] = n]
  /\ prev' = [prev EXCEPT ![n] = prev[pos]]
  /\ value' = [value EXCEPT ![n] = x]
  /\ size' = [size EXCEPT ![l] = @ + 1]

(* insert_node and the assignment of the value; n is what allocate gives.  *)
InsertNode(l, pos, x, n) ==
  /\ next' = [next EXCEPT ![n] = pos, ![prev[pos]] = n]
  /\ prev' = [prev EXCEPT ![n] = prev[pos], ![pos] = n]
  /\ value' = [value EXCEPT ![n] = x]
  /\ size' = [size EXCEPT ![l] = @ + 1]

(* Faulty variant: m_size stays. *)
EraseUncounted(l, pos) ==
  /\ next' = [next EXCEPT ![prev[pos]] = next[pos], ![pos] = Null]
  /\ prev' = [prev EXCEPT ![next[pos]] = prev[pos], ![pos] = Null]
  /\ value' = [value EXCEPT ![pos] = Null]
  /\ size' = size

(* erase(pos) *)
EraseNode(l, pos) ==
  /\ next' = [next EXCEPT ![prev[pos]] = next[pos], ![pos] = Null]
  /\ prev' = [prev EXCEPT ![next[pos]] = prev[pos], ![pos] = Null]
  /\ value' = [value EXCEPT ![pos] = Null]
  /\ size' = [size EXCEPT ![l] = @ - 1]

Idle == call = <<>>

(* Single insertions and erasures are at a node that the caller names. *)
InsertBefore(l, pos, x) ==
  /\ Idle
  /\ \E n \in Free : InsertNode(l, pos, x, n)
  /\ UNCHANGED call

PushBack(l, x) == InsertBefore(l, l, x)
PushFront(l, x) == InsertBefore(l, next[l], x)
Insert(l, i, x) == InsertBefore(l, Iterators(l)[i], x)

EraseAt(l, pos) ==
  /\ Idle
  /\ size[l] > 0
  /\ EraseNode(l, pos)
  /\ UNCHANGED call

PopBack(l) == EraseAt(l, prev[l])
PopFront(l) == EraseAt(l, next[l])
Erase(l, i) == i < Len(Iterators(l)) /\ EraseAt(l, Iterators(l)[i])

-----------------------------------------------------------------------------
(* Loops.  A copy that has not begun takes the begin() of `from' when it   *)
(* does: so the range-for of operator=, which comes after clear().         *)
Clearing(l) == [loop |-> "clear", list |-> l]
Copying(l, from, it) == [loop |-> "copy", list |-> l, from |-> from, it |-> it]
Pushing(l, s) == [loop |-> "push", list |-> l, left |-> s]
Erasing(l, first, last) == [loop |-> "erase", list |-> l, it |-> first, last |-> last]

(* An allocation that fails is not modelled. *)
Start(loops, needed, freed) ==
  /\ Idle
  /\ needed - freed <= Cardinality(Free)
  /\ call' = loops
  /\ UNCHANGED nodes

Clear(l) == Start(<<Clearing(l)>>, 0, 0)

(* Faulty variant: the list is not cleared. *)
AppendList(l, m) == Start(<<Copying(l, m, Null)>>, size[m], 0)

(* operator= of a list, itself perhaps, and the copy constructor. *)
AssignList(l, m) ==
  Start(<<Clearing(l), Copying(l, m, Null)>>, IF m = l THEN 0 ELSE size[m], size[l])

(* assign, operator= and the constructors, of a number of copies, a range  *)
(* or an initializer list: s are the values.                               *)
Assign(l, s) == Start(<<Clearing(l), Pushing(l, s)>>, Len(s), size[l])

EraseRange(l, r) ==
  LET it == Iterators(l) IN Start(<<Erasing(l, it[r[1]], it[r[2]])>>, 0, 0)

Loop == Head(call)
Running(kind) == ~Idle /\ Loop.loop = kind

Leave == call' = Tail(call) /\ UNCHANGED nodes
GoOn(loop) == call' = <<loop>> \o Tail(call)

ClearStep ==
  /\ Running("clear")
  /\ IF size[Loop.list] = 0
     THEN Leave
     ELSE EraseNode(Loop.list, prev[Loop.list]) /\ UNCHANGED call

It == IF Loop.it = Null THEN next[Loop.from] ELSE Loop.it

CopyStep ==
  /\ Running("copy")
  /\ IF It = Loop.from
     THEN Leave
     ELSE \E n \in Free :
            /\ InsertNode(Loop.list, Loop.list, value[It], n)
            /\ GoOn([Loop EXCEPT !.it = next'[It]])

PushStep ==
  /\ Running("push")
  /\ IF Loop.left = <<>>
     THEN Leave
     ELSE \E n \in Free :
            /\ InsertNode(Loop.list, Loop.list, Head(Loop.left), n)
            /\ GoOn(Pushing(Loop.list, Tail(Loop.left)))

EraseStep ==
  /\ Running("erase")
  /\ IF Loop.it = Loop.last
     THEN Leave
     ELSE EraseNode(Loop.list, Loop.it) /\ GoOn([Loop EXCEPT !.it = next[@]])

Step == ClearStep \/ CopyStep \/ PushStep \/ EraseStep

Client ==
  \E l \in Lists :
    \/ Clear(l) \/ PopBack(l) \/ PopFront(l)
    \/ \E x \in Value : PushBack(l, x) \/ PushFront(l, x)
    \/ \E s \in Assigned : Assign(l, s)
    \/ \E m \in Lists : AssignList(l, m)
    \/ \E r \in Ranges(l) : EraseRange(l, r)
    \/ \E i \in Places(l) : Erase(l, i) \/ \E x \in Value : Insert(l, i, x)

Next == Step \/ Client

Spec == Init /\ [][Next]_vars

-----------------------------------------------------------------------------
(***************************************************************************)
(* Properties                                                              *)
(***************************************************************************)

(* In every state, in the middle of each loop too: each list is a ring,    *)
(* m_prev leads back along it, m_size counts its nodes, no node is in two  *)
(* lists or twice in one, and every allocated node is in one: none leaks.  *)
WellLinked ==
  /\ \A l \in Lists :
       LET it == Iterators(l) IN
       /\ Last(it) = l
       /\ \A i \in 1..Len(it) : prev[it[i]] = IF i = 1 THEN l ELSE it[i - 1]
       /\ size[l] = Cardinality(ToSet(Front(it))) /\ size[l] = Len(it) - 1
  /\ \A l, m \in Lists : l # m => ToSet(Iterators(l)) \cap ToSet(Iterators(m)) = {}
  /\ UNION {ToSet(Front(Iterators(l))) : l \in Lists} = Heap \ Free

(* The values from place i up to, and without, place j. *)
Values(l, i, j) == LET it == Iterators(l) IN [k \in 1..(j - i) |-> value[it[i + k - 1]]]

Place(l, pos) == SelectInSeq(Iterators(l), LAMBDA n : n = pos)
Before(l, pos) == Values(l, 1, Place(l, pos))
Between(l, first, last) == Values(l, Place(l, first), Place(l, last))
All(l) == Before(l, l)

(* What a loop has yet to push to the list. *)
Coming(loop) ==
  CASE loop.loop = "push" -> loop.left
    [] loop.loop = "copy" ->
         IF loop.it # Null THEN Between(loop.from, loop.it, loop.from)
         ELSE IF loop.from = loop.list THEN <<>> ELSE All(loop.from)
    [] OTHER -> <<>>

(* What list l will hold when the call is done: this is what it holds for  *)
(* its clients from the call on.                                           *)
Holds(l) ==
  IF Idle \/ Loop.list # l THEN All(l)
  ELSE CASE Loop.loop = "clear" -> IF Len(call) = 1 THEN <<>> ELSE Coming(call[2])
         [] Loop.loop = "erase" -> Before(l, Loop.it) \o Between(l, Loop.last, l)
         [] OTHER -> All(l) \o Coming(Loop)

Promise == INSTANCE Containers WITH contents <- [l \in Lists |-> Holds(l)]

(* Calls that are done in one step. *)
DoneAtOnce(l) ==
  /\ PopBack(l) => Promise!PopBack(l)
  /\ PopFront(l) => Promise!PopFront(l)
  /\ \A x \in Value : PushBack(l, x) => Promise!PushBack(l, x)
  /\ \A x \in Value : PushFront(l, x) => Promise!PushFront(l, x)
  /\ \A i \in Places(l) :
       /\ Erase(l, i) => Promise!Remove(l, i, i + 1)
       /\ \A x \in Value : Insert(l, i, x) => Promise!Insert(l, i, <<x>>)

(* Calls that begin a loop. *)
Begun(l) ==
  /\ Clear(l) => Promise!Assign(l, <<>>)
  /\ \A r \in Ranges(l) : EraseRange(l, r) => Promise!Remove(l, r[1], r[2])
  /\ \A s \in Assigned : Assign(l, s) => Promise!Assign(l, s)
  /\ \A m \in Lists : AssignList(l, m) => Promise!Assign(l, IF m = l THEN <<>> ELSE Holds(m))

KeepsPromise ==
  CASE ~Idle -> UNCHANGED [l \in Lists |-> Holds(l)]
    [] Idle /\ Idle' -> \A l \in Lists : DoneAtOnce(l)
    [] Idle /\ ~Idle' -> \A l \in Lists : Begun(l)

(* A list is a sequence: each of these operations does to it what its name *)
(* says, to no other list anything, and no turn of a loop changes what the *)
(* call will have done.  A list assigned to itself ends up empty.          *)
ListIsSequence == [][KeepsPromise]_vars

(* Turns that a loop has yet to take. *)
Turns(loop) ==
  CASE loop.loop = "clear" -> size[loop.list]
    [] loop.loop = "erase" -> Place(loop.list, loop.last) - Place(loop.list, loop.it)
    [] OTHER -> Len(Coming(loop))

Work == IF Idle THEN 0 ELSE 1 + Turns(Loop) + IF Len(call) = 1 THEN 0 ELSE 1 + Turns(call[2])

(* Every call returns: each turn of its loops leaves less to do, and while *)
(* there is anything to do there is a turn.  So does operator= of a list   *)
(* by itself, whose loop would otherwise follow the nodes that it pushes.  *)
CallsReturn == [][~Idle => Work' \in 0..(Work - 1)]_vars
=============================================================================
