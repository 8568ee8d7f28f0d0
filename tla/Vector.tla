------------------------------- MODULE Vector -------------------------------
(***************************************************************************)
(* miniSTL's Vector: storage for m_cap elements, of which the first m_size *)
(* are in use.  Growing constructs all slots of the new storage; pop_back  *)
(* and erase destroy slots; push_back, erase and insert assign to slots.   *)
(* Assigning to a destroyed object is harmless for a trivial type such as  *)
(* int and undefined for one such as shared_ptr.  After undefined          *)
(* behaviour the model takes no more steps.                                *)
(***************************************************************************)
EXTENDS Integers, Sequences, FiniteSets

CONSTANTS
  Vectors,
  Value,        \* the values of the element type
  Default,      \* T(), which is also what a move leaves behind
  Destroyed,    \* a slot whose object was destroyed or never constructed
  MaxCapacity,  \* the bound on m_cap of each vector
  MaxInserted   \* the bound on the length of what is inserted or assigned

ASSUME SlotAssumption == Default \in Value /\ Destroyed \notin Value
ASSUME BoundAssumption == MaxCapacity \in [Vectors -> Nat] /\ MaxInserted \in Nat

VARIABLES
  trivial,      \* the element type is trivial
  program,      \* the client makes the calls of this program only
  slots,        \* m_data; its length is m_cap
  size,         \* m_size
  lawful        \* nothing undefined has been done

vars == <<trivial, program, slots, size, lawful>>

Inserted == UNION {[1..n -> Value] : n \in 0..MaxInserted}

Init ==
  /\ trivial \in BOOLEAN /\ program \in BOOLEAN
  /\ slots = [v \in Vectors |-> <<>>]
  /\ size = [v \in Vectors |-> 0]
  /\ lawful = TRUE

-----------------------------------------------------------------------------
(* The operation ends with s as the storage and n elements, if all it does *)
(* is defined.                                                             *)
Becomes(v, defined, s, n) ==
  /\ lawful
  /\ Len(s) <= MaxCapacity[v]
  /\ lawful' = defined
  /\ IF defined
     THEN slots' = [slots EXCEPT ![v] = s] /\ size' = [size EXCEPT ![v] = n]
     ELSE UNCHANGED <<slots, size>>
  /\ UNCHANGED <<trivial, program>>

Assignable(s, i) == trivial \/ s[i] # Destroyed

(* Faulty variant: the new storage is not constructed. *)
Allocated(s, n, len) == [i \in 1..n |-> IF i <= len THEN s[i] ELSE Destroyed]

(* reallocate(n): n default-constructed slots, the elements moved to them. *)
Reallocated(s, n, len) == [i \in 1..n |-> IF i <= len THEN s[i] ELSE Default]

(* ensure_space *)
Roomy(v) ==
  LET cap == Len(slots[v]) IN
  IF size[v] < cap THEN slots[v]
  ELSE Reallocated(slots[v], IF cap = 0 THEN 1 ELSE 2 * cap, size[v])

PushBack(v, x) ==
  LET s == Roomy(v)  i == size[v] + 1 IN
  Becomes(v, Assignable(s, i), [s EXCEPT ![i] = x], i)

(* push_back(v[i]): if there is no space the reference is left dangling.   *)
PushBackOwn(v, i) ==
  LET s == slots[v]  n == size[v] + 1 IN
  IF size[v] = Len(s)
  THEN Becomes(v, FALSE, s, size[v])
  ELSE Becomes(v, Assignable(s, n), [s EXCEPT ![n] = s[i]], n)

(* An assignment to v[i], be it through an iterator. *)
SetElement(v, i, x) ==
  Becomes(v, Assignable(slots[v], i), [slots[v] EXCEPT ![i] = x], size[v])

PopBack(v) ==
  /\ size[v] > 0
  /\ Becomes(v, TRUE, [slots[v] EXCEPT ![size[v]] = Destroyed], size[v] - 1)

Clear(v) == Becomes(v, TRUE, <<>>, 0)

(* Pops what is too much, reallocates, pushes what is missing. *)
Resize(v, n, x) ==
  Becomes(v, TRUE, [i \in 1..n |-> IF i <= size[v] THEN slots[v][i] ELSE x], n)

ShrinkToFit(v) == Becomes(v, TRUE, Reallocated(slots[v], size[v], size[v]), size[v])

Reserve(v, n) ==
  /\ n > Len(slots[v])
  /\ Becomes(v, TRUE, Reallocated(slots[v], n, size[v]), size[v])

(* assign(n, val) clears and resizes; so does a constructor. *)
AssignCopies(v, n, x) == Becomes(v, TRUE, [i \in 1..n |-> x], n)

(* The capacity, one only, that n calls of push_back lead to from 0. *)
Doubled(n) ==
  {c \in n..(2 * n) : (c = 0 \/ \E k \in 0..n : c = 2^k) /\ (c = n \/ c < 2 * n)}

(* assign(first, last) clears and pushes; so do the other constructors.    *)
AssignRange(v, s) ==
  \E c \in Doubled(Len(s)) : Becomes(v, TRUE, Reallocated(s, c, Len(s)), Len(s))

Contents(v) == SubSeq(slots[v], 1, size[v])

(* The copy constructor, which Vector(Vector&&) hands its vector on to.    *)
CopyConstruct(v, w) == AssignRange(v, Contents(w))

(* Vector(Vector&&, alloc) pushes copies into storage never constructed.   *)
MoveConstruct(v, w) == Becomes(v, trivial \/ size[w] = 0, Contents(w), size[w])

Swap(v, w) ==
  /\ lawful
  /\ Len(slots[v]) <= MaxCapacity[w] /\ Len(slots[w]) <= MaxCapacity[v]
  /\ slots' = [slots EXCEPT ![v] = slots[w], ![w] = slots[v]]
  /\ size' = [size EXCEPT ![v] = size[w], ![w] = size[v]]
  /\ UNCHANGED <<trivial, program, lawful>>

(* Faulty variant: what follows a range is moved as if after one element.  *)
NextOf(k, n) == IF n = 0 THEN k ELSE k + 1

Follower(k, n) == k + n

(* Destroys the elements from place i up to, and without, j, and then      *)
(* moves those after them into the destroyed slots.                        *)
Erase(v, i, j) ==
  LET s == slots[v]  n == j - i  rest == size[v] - n IN
  Becomes(v, trivial \/ n = 0 \/ rest < i,
          [k \in 1..Len(s) |->
             CASE k \in i..rest -> s[Follower(k, n)]
               [] k \in (rest + 1)..size[v] -> IF k < j THEN Destroyed ELSE Default
               [] OTHER -> s[k]],
          rest)

(* insert_space(it, n) and the assignment of the n new elements.  The loop *)
(* moves elements by n from the old end down: an insertion at the end runs *)
(* out of the storage, and so does a long one near the front; the last n   *)
(* elements go nowhere; and elements before the place are moved from.      *)
(* Inserting nothing moves each later element to itself, or runs out of    *)
(* the storage at the end like the rest, and is left out.                  *)
InsertRange(v, i, xs) ==
  LET n == Len(xs)
      s == Reallocated(slots[v], size[v] + n, size[v])
      moved == (i + 1 - n)..(size[v] - n)       \* the sources of the loop
  IN  Becomes(v, i <= size[v] /\ \A k \in moved : k >= 1,
              [k \in 1..Len(s) |->
                 CASE k < i -> IF k \in moved /\ ~trivial THEN Default ELSE s[k]
                   [] k \in i..(i + n - 1) -> xs[k - i + 1]
                   [] k \in (i + n)..size[v] -> s[k - n]
                   [] OTHER -> Default],
              size[v] + n)

-----------------------------------------------------------------------------
(* What the program does to its vectors.                                   *)
Push(v) == \E x \in Value : PushBack(v, x)
Write(v) == \E i \in 1..size[v], x \in Value : SetElement(v, i, x)

(* The buckets of an index, of keys, times, pairs or shared pointers: the  *)
(* two vectors of buckets get their size at once, each bucket is filled    *)
(* and sorted.                                                             *)
IndexCall(v) ==
  \/ \E n \in 0..MaxCapacity[v] : size[v] = 0 /\ Resize(v, n, Default)
  \/ Push(v) \/ Write(v)

(* The edge keys of a node are pushed into storage reserved for them.      *)
EdgeKeysCall(v) == Push(v) \/ \E n \in 0..MaxCapacity[v] : size[v] = 0 /\ Reserve(v, n)

(* The heap of PFS, of raw pointers: std::priority_queue copies an empty   *)
(* vector for its container, and pushes, pops and moves elements about.    *)
QueueCall(v) ==
  /\ trivial
  /\ \/ \E w \in Vectors \ {v} : size[w] = 0 /\ CopyConstruct(v, w)
     \/ Push(v) \/ PopBack(v) \/ Write(v)

(* The children of a node are treated as its edge keys are; the records of *)
(* the database and the flights of a path are just pushed; and constructor *)
(* and destructor leave every vector empty.                                *)
ProgramCall(v) == Clear(v) \/ IndexCall(v) \/ EdgeKeysCall(v) \/ QueueCall(v)

AnyCall(v) ==
  \/ ShrinkToFit(v) \/ PopBack(v)
  \/ \E x \in Value, n \in 0..MaxCapacity[v] : Resize(v, n, x) \/ AssignCopies(v, n, x)
  \/ \E n \in 0..MaxCapacity[v] : Reserve(v, n)
  \/ \E s \in Inserted : AssignRange(v, s)
  \/ \E i \in 1..size[v] : PushBackOwn(v, i)
  \/ \E w \in Vectors \ {v} : CopyConstruct(v, w) \/ MoveConstruct(v, w) \/ Swap(v, w)
  \/ \E i \in 1..(size[v] + 1) :
       \/ \E j \in i..(size[v] + 1) : Erase(v, i, j)
       \/ \E s \in Inserted : s # <<>> /\ InsertRange(v, i, s)

Next == \E v \in Vectors : ProgramCall(v) \/ (~program /\ AnyCall(v))

Spec == Init /\ [][Next]_vars

-----------------------------------------------------------------------------
(***************************************************************************)
(* Properties                                                              *)
(***************************************************************************)

(* The elements in use have storage, and none is a destroyed object.  And  *)
(* what this program does to its vectors (resize, reserve, push_back,      *)
(* writing elements, the copy in std::priority_queue, pop_back of raw      *)
(* pointers) is never undefined, whatever the element type: wherever it    *)
(* assigns it finds a constructed object, also in the slots that reserve   *)
(* and growth leave behind the end.                                        *)
LifetimesRespected ==
  /\ \A v \in Vectors : \A i \in 1..size[v] : i <= Len(slots[v]) /\ slots[v][i] # Destroyed
  /\ program => lawful

Promise == INSTANCE Containers WITH contents <- [v \in Vectors |-> Contents(v)]

(* What an insertion keeps: the vector grows, the new elements stand at    *)
(* their place; of the old ones, a vector of a trivial type keeps those    *)
(* that do not come to stand behind the old end, and any vector those that *)
(* come before the place and the moved range.                              *)
InsertSpoilsTheEnd(v, i, xs) ==
  LET old == Contents(v)
      ideal == SubSeq(old, 1, i - 1) \o xs \o SubSeq(old, i, Len(old))
  IN  /\ size'[v] = Len(ideal)
      /\ \A k \in 1..Len(ideal) :
           \/ k \in i..(i + Len(xs) - 1)
           \/ k <= size[v] /\ (trivial \/ k >= i \/ k <= i - Len(xs))
           => slots'[v][k] = ideal[k]
      /\ \A w \in Vectors \ {v} : Contents(w)' = Contents(w)

Emptying(v) ==
  /\ Clear(v) => Promise!Assign(v, <<>>)
  /\ PopBack(v) => Promise!PopBack(v)
  /\ ShrinkToFit(v) => UNCHANGED [w \in Vectors |-> Contents(w)]

Appending(v) ==
  /\ \A x \in Value : PushBack(v, x) => Promise!PushBack(v, x)
  /\ \A i \in 1..size[v] :
       /\ PushBackOwn(v, i) => Promise!PushBack(v, slots[v][i])
       /\ \A x \in Value : SetElement(v, i, x) => Promise!Update(v, i, x)

Filling(v) ==
  /\ \A n \in 0..MaxCapacity[v] :
       /\ Reserve(v, n) => UNCHANGED [w \in Vectors |-> Contents(w)]
       /\ \A x \in Value :
            LET s == [k \in 1..n |-> x] IN
            /\ AssignCopies(v, n, x) => Promise!Assign(v, s)
            /\ Resize(v, n, x) => Promise!Assign(v, SubSeq(Contents(v) \o s, 1, n))
  /\ \A s \in Inserted : AssignRange(v, s) => Promise!Assign(v, s)

Splicing(v) ==
  \A i \in 1..(size[v] + 1) :
    /\ \A j \in i..(size[v] + 1) : Erase(v, i, j) => Promise!Remove(v, i, j)
    /\ \A s \in Inserted \ {<<>>} : InsertRange(v, i, s) => InsertSpoilsTheEnd(v, i, s)

Exchanging(v) ==
  \A w \in Vectors \ {v} :
    /\ CopyConstruct(v, w) => Promise!Assign(v, Contents(w))
    /\ MoveConstruct(v, w) => Promise!Assign(v, Contents(w))
    /\ Swap(v, w) => Promise!Swap(v, w)

KeepsPromise ==
  lawful' => \A v \in Vectors :
    Emptying(v) /\ Appending(v) /\ Filling(v) /\ Splicing(v) /\ Exchanging(v)

(* As long as nothing undefined happens a vector is a sequence: every      *)
(* operation does to it what its name says, to no other vector anything,   *)
(* and reserve and shrink_to_fit do nothing; but insert loses elements.    *)
VectorIsSequence == [][KeepsPromise]_vars
=============================================================================
