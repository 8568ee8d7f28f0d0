---------------------------- MODULE NodePoolProofs ----------------------------
(***************************************************************************)
(* Theorems about NodePool, for every data file and every set of nodes     *)
(* asked for: a graph has one object to a key, and always the same.        *)
(***************************************************************************)
EXTENDS NodePool, FiniteSetTheorems, TLAPS

-----------------------------------------------------------------------------
(* The inductive invariant *)

InRange(a) == a \in pool.min..pool.max

PoolType ==
  /\ pool = [min |-> pool.min, max |-> pool.max,
             elements |-> pool.elements, datetimes |-> pool.datetimes]
  /\ pool.min \in Int /\ pool.max \in Int
  /\ pool.elements \in [pool.min..pool.max -> Seq(Nat)]
  /\ pool.datetimes \in [pool.min..pool.max -> Seq(Time)]

ObjectType ==
  /\ db \in Databases
  /\ key \in Seq(Node)
  /\ children \in Seq(Seq(Nat) \cup {NotLoaded})
  /\ Len(children) = Len(key)
  /\ todo \subseteq db
  /\ loading # NoObject => loading \in Object /\ children[loading] \in Seq(Nat)

(* The range is that of the data file. *)
Spanned == \A f \in db : InRange(record[f].airport_from) /\ InRange(record[f].airport_to)

(* What stands in the pool is an object, at the time of its key. *)
Filed ==
  \A a \in pool.min..pool.max :
    /\ Len(pool.elements[a]) = Len(pool.datetimes[a])
    /\ \A i \in 1..Len(pool.elements[a]) :
         /\ pool.elements[a][i] \in Object
         /\ key[pool.elements[a][i]] = [airport |-> a, no_sooner_than |-> pool.datetimes[a][i]]

(* Every object stands in the pool. *)
Present ==
  \A o \in Object :
    /\ InRange(key[o].airport)
    /\ \E i \in 1..Len(pool.elements[key[o].airport]) : pool.elements[key[o].airport][i] = o

(* No airport has a time twice. *)
NoRepeat ==
  \A a \in pool.min..pool.max : \A i, j \in 1..Len(pool.datetimes[a]) :
    pool.datetimes[a][i] = pool.datetimes[a][j] => i = j

PoolInv == PoolType /\ ObjectType /\ Spanned /\ Filed /\ Present /\ NoRepeat

-----------------------------------------------------------------------------
LEMMA RecordFields ==
  ASSUME NEW f \in Flight
  PROVE  /\ record[f].airport_from \in Airport /\ record[f].airport_to \in Airport
         /\ record[f].airport_from \in Int /\ record[f].airport_to \in Int
         /\ record[f].datetime_to \in Time
         /\ Arrival(f) \in Node
  BY RecordAssumption, DomainAssumption DEF Record, Arrival, Node

(* A sequence whose elements are in T is a sequence over T. *)
LEMMA SeqOf ==
  ASSUME NEW S, NEW T, NEW s \in Seq(S), \A i \in 1..Len(s) : s[i] \in T
  PROVE  s \in Seq(T)
<1>1. Len(s) \in Nat /\ s = [i \in 1..Len(s) |-> s[i]]
  OBVIOUS
<1>2. s \in [1..Len(s) -> T]
  BY <1>1
<1> QED BY <1>1, <1>2

(* What Append leaves and what it adds. *)
LEMMA AppendFacts ==
  ASSUME NEW S, NEW s \in Seq(S), NEW e \in S
  PROVE  /\ Append(s, e) \in Seq(S)
         /\ Len(s) \in Nat /\ Len(Append(s, e)) = Len(s) + 1
         /\ \A i \in 1..Len(s) : Append(s, e)[i] = s[i]
         /\ Append(s, e)[Len(s) + 1] = e
  OBVIOUS

LEMMA PoolInit == Init => PoolInv
<1> SUFFICES ASSUME Init PROVE PoolInv
  OBVIOUS
<1>2. db \subseteq Flight
  BY DatabasesAssumption DEF Init
<1>4. Served \subseteq Int
  BY <1>2, RecordFields DEF Served
<1>1. PICK lo \in Served, hi \in Served :
        pool = Container(lo, hi) /\ \A a \in Served : lo <= a /\ a <= hi
  <2>1. PICK b \in Bounds : pool = Container(b[1], b[2])
    BY DEF Init
  <2>2. b[1] \in Served /\ b[2] \in Served /\ \A a \in Served : b[1] <= a /\ a <= b[2]
    BY <2>1 DEF Bounds
  <2> QED BY <2>1, <2>2
<1>3. /\ pool.min = lo /\ pool.max = hi /\ lo \in Int /\ hi \in Int
      /\ pool.elements = [a \in lo..hi |-> <<>>]
      /\ pool.datetimes = [a \in lo..hi |-> <<>>]
      /\ pool = [min |-> pool.min, max |-> pool.max,
                 elements |-> pool.elements, datetimes |-> pool.datetimes]
  BY <1>1, <1>4 DEF Container
<1>5. PoolType
  <2>1. pool.elements \in [pool.min..pool.max -> Seq(Nat)]
    BY <1>3
  <2>2. pool.datetimes \in [pool.min..pool.max -> Seq(Time)]
    BY <1>3
  <2> QED BY <1>3, <2>1, <2>2 DEF PoolType
<1>6. Spanned
  <2> SUFFICES ASSUME NEW f \in db
               PROVE  InRange(record[f].airport_from) /\ InRange(record[f].airport_to)
    BY DEF Spanned
  <2>1. record[f].airport_from \in Served /\ record[f].airport_to \in Served
    BY DEF Served
  <2> QED BY <2>1, <1>1, <1>3, <1>4 DEF InRange
<1>7. ObjectType
  BY DEF Init, ObjectType, Object
<1>8. Filed /\ NoRepeat
  BY <1>3 DEF Filed, NoRepeat
<1>9. Present
  BY DEF Init, Present, Object
<1> QED BY <1>5, <1>6, <1>7, <1>8, <1>9 DEF PoolInv

(* Where nothing is created, the pool stays in order. *)
LEMMA PoolUntouched ==
  ASSUME PoolType, Filed, Present, NoRepeat, UNCHANGED <<pool, key>>
  PROVE  PoolType' /\ Filed' /\ Present' /\ NoRepeat'
<1>1. pool' = pool /\ key' = key /\ Object' = Object
  BY DEF Object
<1>2. PoolType'
  BY <1>1 DEF PoolType
<1>3. Filed'
  BY <1>1 DEF Filed
<1>4. Present'
  <2> SUFFICES ASSUME NEW o \in Object
               PROVE  /\ key'[o].airport \in pool'.min..pool'.max
                      /\ \E i \in 1..Len(pool'.elements[key'[o].airport]) :
                           pool'.elements[key'[o].airport][i] = o
    BY <1>1 DEF Present, InRange
  <2>1. /\ key[o].airport \in pool.min..pool.max
        /\ \E i \in 1..Len(pool.elements[key[o].airport]) : pool.elements[key[o].airport][i] = o
    BY DEF Present, InRange
  <2> QED BY <1>1, <2>1, Zenon
<1>5. NoRepeat'
  BY <1>1 DEF NoRepeat
<1> QED BY <1>2, <1>3, <1>4, <1>5

(* GetNode, called for an airport in range: if it creates a node, the pool *)
(* had none of that key.                                                   *)
LEMMA GetNodeEffect ==
  ASSUME PoolInv, NEW n \in Node, InRange(n.airport), NEW object, NEW links,
         GetNode(n, object, links)
  PROVE  /\ key' \in Seq(Node)
         /\ \/ key' = key /\ children' = links
            \/ Len(key') = Len(key) + 1 /\ children' = Append(links, NotLoaded)
         /\ object \in 1..Len(key')
         /\ pool'.min = pool.min /\ pool'.max = pool.max
         /\ PoolType' /\ Filed' /\ Present' /\ NoRepeat'
<1>a. key \in Seq(Node) /\ PoolType /\ Filed /\ Present /\ NoRepeat
  BY DEF PoolInv, ObjectType
<1>t. n = [airport |-> n.airport, no_sooner_than |-> n.no_sooner_than] /\ n.no_sooner_than \in Time
  BY DEF Node
<1> DEFINE a == n.airport  t == n.no_sooner_than
<1>1. CASE ~Missing(n)
  <2>1. UNCHANGED <<key, pool>> /\ object \in Pooled(n)
    BY <1>1 DEF GetNode
  <2>4. children' = links
    BY <1>1 DEF GetNode
  <2>2. object \in Object
    BY <2>1, <1>a DEF Pooled, Found, Slots, Filed, InRange
  <2>3. PoolType' /\ Filed' /\ Present' /\ NoRepeat'
    BY <2>1, <1>a, PoolUntouched
  <2> QED BY <2>1, <2>2, <2>3, <2>4, <1>a DEF Object
<1>2. CASE Missing(n)
  <2>1. /\ object = Len(key) + 1 /\ key' = Append(key, n)
        /\ pool' = [pool EXCEPT !.elements[a] = Append(@, object), !.datetimes[a] = Append(@, t)]
    BY <1>2 DEF GetNode, PoolWith, Added
  <2>2. /\ pool'.min = pool.min /\ pool'.max = pool.max
        /\ pool'.elements = [pool.elements EXCEPT ![a] = Append(@, object)]
        /\ pool'.datetimes = [pool.datetimes EXCEPT ![a] = Append(@, t)]
        /\ pool' = [min |-> pool'.min, max |-> pool'.max,
                    elements |-> pool'.elements, datetimes |-> pool'.datetimes]
    BY <2>1, <1>a DEF PoolType
  <2>3. Len(key) \in Nat /\ object \in Nat
    BY <2>1, <1>a
  <2>4. PoolType'
    BY <2>2, <2>3, <1>a, <1>t DEF PoolType, InRange
  <2>5. \A o \in Object : o \in Object' /\ key'[o] = key[o]
    BY <2>1, <1>a DEF Object
  <2>6. object \in Object' /\ key'[object] = n /\ Object' = Object \cup {object}
    BY <2>1, <1>a DEF Object
  <2>7. \A i \in 1..Len(pool.datetimes[a]) : pool.datetimes[a][i] # t
    BY <1>2, <1>a DEF Missing, Pooled, Found, Slots
  <2>8. \A b \in pool.min..pool.max : b # a =>
          pool'.elements[b] = pool.elements[b] /\ pool'.datetimes[b] = pool.datetimes[b]
    BY <2>2, <1>a DEF PoolType
  <2>9. PICK len \in Nat :
          /\ Len(pool.elements[a]) = len /\ Len(pool.datetimes[a]) = len
          /\ Len(pool'.elements[a]) = len + 1 /\ Len(pool'.datetimes[a]) = len + 1
          /\ \A i \in 1..len : /\ pool'.elements[a][i] = pool.elements[a][i]
                              /\ pool'.datetimes[a][i] = pool.datetimes[a][i]
          /\ pool'.elements[a][len + 1] = object /\ pool'.datetimes[a][len + 1] = t
    <3>1. /\ pool'.elements[a] = Append(pool.elements[a], object)
          /\ pool'.datetimes[a] = Append(pool.datetimes[a], t)
      BY <2>2, <1>a DEF PoolType, InRange
    <3>2. pool.elements[a] \in Seq(Nat) /\ pool.datetimes[a] \in Seq(Time)
      BY <1>a DEF PoolType, InRange
    <3>3. Len(pool.elements[a]) = Len(pool.datetimes[a])
      BY <1>a DEF Filed, InRange
    <3>4. /\ Len(pool.elements[a]) \in Nat
          /\ Len(pool'.elements[a]) = Len(pool.elements[a]) + 1
          /\ \A i \in 1..Len(pool.elements[a]) : pool'.elements[a][i] = pool.elements[a][i]
          /\ pool'.elements[a][Len(pool.elements[a]) + 1] = object
      BY <3>1, <3>2, <2>3, AppendFacts
    <3>5. /\ Len(pool'.datetimes[a]) = Len(pool.datetimes[a]) + 1
          /\ \A i \in 1..Len(pool.datetimes[a]) : pool'.datetimes[a][i] = pool.datetimes[a][i]
          /\ pool'.datetimes[a][Len(pool.datetimes[a]) + 1] = t
      BY <3>1, <3>2, <1>t, AppendFacts
    <3> QED BY <3>3, <3>4, <3>5
  <2>10. Filed'
    <3> SUFFICES ASSUME NEW b \in pool.min..pool.max
                 PROVE  /\ Len(pool'.elements[b]) = Len(pool'.datetimes[b])
                        /\ \A i \in 1..Len(pool'.elements[b]) :
                             /\ pool'.elements[b][i] \in Object'
                             /\ key'[pool'.elements[b][i]]
                                  = [airport |-> b, no_sooner_than |-> pool'.datetimes[b][i]]
      BY <2>2 DEF Filed
    <3>1. CASE b # a
      <4>1. pool'.elements[b] = pool.elements[b] /\ pool'.datetimes[b] = pool.datetimes[b]
        BY <3>1, <2>8
      <4>2. /\ Len(pool.elements[b]) = Len(pool.datetimes[b])
            /\ \A i \in 1..Len(pool.elements[b]) :
                 /\ pool.elements[b][i] \in Object
                 /\ key[pool.elements[b][i]] = [airport |-> b, no_sooner_than |-> pool.datetimes[b][i]]
        BY <1>a DEF Filed
      <4> QED BY <4>1, <4>2, <2>5
    <3>2. CASE b = a
      <4>1. Len(pool'.elements[a]) = Len(pool'.datetimes[a])
        BY <2>9
      <4>2. ASSUME NEW i \in 1..Len(pool'.elements[a])
            PROVE  /\ pool'.elements[a][i] \in Object'
                   /\ key'[pool'.elements[a][i]]
                        = [airport |-> a, no_sooner_than |-> pool'.datetimes[a][i]]
        <5>1. CASE i = len + 1
          <6>1. pool'.elements[a][i] = object /\ pool'.datetimes[a][i] = t
            BY <5>1, <2>9
          <6> QED BY <6>1, <2>6, <1>t
        <5>2. CASE i \in 1..len
          <6>1. pool'.elements[a][i] = pool.elements[a][i] /\ pool'.datetimes[a][i] = pool.datetimes[a][i]
            BY <5>2, <2>9
          <6>2. a \in pool.min..pool.max
            BY DEF InRange
          <6>3. i \in 1..Len(pool.elements[a])
            BY <5>2, <2>9
          <6>4. /\ pool.elements[a][i] \in Object
                /\ key[pool.elements[a][i]] = [airport |-> a, no_sooner_than |-> pool.datetimes[a][i]]
            BY <6>2, <6>3, <1>a DEF Filed
          <6> QED BY <6>1, <6>4, <2>5
        <5>3. i = len + 1 \/ i \in 1..len
          BY <2>9
        <5> QED BY <5>1, <5>2, <5>3
      <4> QED BY <4>1, <4>2, <3>2
    <3> QED BY <3>1, <3>2
  <2>11. Present'
    <3> SUFFICES ASSUME NEW o \in Object'
                 PROVE  /\ key'[o].airport \in pool.min..pool.max
                        /\ \E i \in 1..Len(pool'.elements[key'[o].airport]) :
                             pool'.elements[key'[o].airport][i] = o
      BY <2>2 DEF Present, InRange
    <3>1. CASE o = object
      <4>1. len + 1 \in 1..Len(pool'.elements[a]) /\ pool'.elements[a][len + 1] = object
        BY <2>9
      <4> QED BY <4>1, <3>1, <2>6 DEF InRange
    <3>2. CASE o \in Object
      <4> DEFINE b == key[o].airport
      <4>1. key'[o] = key[o] /\ b \in pool.min..pool.max
        BY <3>2, <2>5, <1>a DEF Present, InRange
      <4>2. PICK i \in 1..Len(pool.elements[b]) : pool.elements[b][i] = o
        BY <3>2, <1>a DEF Present
      <4>3. CASE b # a
        BY <4>1, <4>2, <4>3, <2>8
      <4>4. CASE b = a
        <5>1. i \in 1..Len(pool'.elements[a]) /\ pool'.elements[a][i] = o
          BY <4>2, <4>4, <2>9
        <5> QED BY <5>1, <4>1, <4>4
      <4> QED BY <4>3, <4>4
    <3> QED BY <3>1, <3>2, <2>6
  <2>12. NoRepeat'
    <3> SUFFICES ASSUME NEW b \in pool.min..pool.max,
                        NEW i \in 1..Len(pool'.datetimes[b]), NEW j \in 1..Len(pool'.datetimes[b]),
                        pool'.datetimes[b][i] = pool'.datetimes[b][j]
                 PROVE  i = j
      BY <2>2 DEF NoRepeat
    <3>1. CASE b # a
      BY <3>1, <2>8, <1>a DEF NoRepeat
    <3>2. CASE b = a
      <4>1. \A k, l \in 1..len : pool.datetimes[a][k] = pool.datetimes[a][l] => k = l
        BY <2>9, <1>a DEF NoRepeat, InRange
      <4>2. \A k \in 1..len : pool.datetimes[a][k] # t
        BY <2>7, <2>9
      <4> QED BY <4>1, <4>2, <2>9, <3>2
    <3> QED BY <3>1, <3>2
  <2>13. key' \in Seq(Node) /\ Len(key') = Len(key) + 1
    BY <2>1, <1>a
  <2>14. children' = Append(links, NotLoaded)
    BY <1>2 DEF GetNode
  <2> QED BY <2>1, <2>2, <2>3, <2>4, <2>10, <2>11, <2>12, <2>13, <2>14
<1> QED BY <1>1, <1>2

(* The children of the objects, when GetNode has perhaps added one. *)
LEMMA ChildrenEffect ==
  ASSUME NEW links \in Seq(Seq(Nat) \cup {NotLoaded}), key \in Seq(Node), key' \in Seq(Node),
         Len(links) = Len(key),
         \/ key' = key /\ children' = links
         \/ Len(key') = Len(key) + 1 /\ children' = Append(links, NotLoaded)
  PROVE  /\ children' \in Seq(Seq(Nat) \cup {NotLoaded})
         /\ Len(children') = Len(key')
         /\ \A o \in Object : o \in Object' /\ children'[o] = links[o]
<1>1. Len(key) \in Nat /\ Len(key') \in Nat
  OBVIOUS
<1>2. CASE key' = key /\ children' = links
  BY <1>1, <1>2 DEF Object
<1>3. CASE Len(key') = Len(key) + 1 /\ children' = Append(links, NotLoaded)
  <2>1. /\ children' \in Seq(Seq(Nat) \cup {NotLoaded})
        /\ Len(children') = Len(links) + 1
        /\ \A i \in 1..Len(links) : children'[i] = links[i]
    BY <1>3, AppendFacts
  <2> QED BY <2>1, <1>1, <1>3 DEF Object
<1> QED BY <1>2, <1>3

(* The child vector of one object grows by a pointer, or is created. *)
LEMMA LinksFacts ==
  ASSUME NEW links \in Seq(Seq(Nat) \cup {NotLoaded}), NEW o \in 1..Len(links), NEW v \in Seq(Nat)
  PROVE  /\ [links EXCEPT ![o] = v] \in Seq(Seq(Nat) \cup {NotLoaded})
         /\ Len([links EXCEPT ![o] = v]) = Len(links)
         /\ [links EXCEPT ![o] = v][o] = v
         /\ \A i \in 1..Len(links) : i # o => [links EXCEPT ![o] = v][i] = links[i]
  OBVIOUS

(* An airport that WithinOrThrow lets pass is in the range. *)
LEMMA HeldInRange ==
  ASSUME PoolType, NEW n \in Node
  PROVE  Holds(pool, n.airport) <=> InRange(n.airport)
  BY DomainAssumption DEF PoolType, Holds, InRange, Node

LEMMA AskStep == ASSUME PoolInv, NEW n \in Wanted, Ask(n) PROVE PoolInv'
<1>1. n \in Node
  BY WantedAssumption
<1>2. PICK o \in 1..(Len(key) + 1) : GetNode(n, o, children)
  BY DEF Ask
<1>3. InRange(n.airport)
  BY <1>1, HeldInRange DEF Ask, PoolInv
<1>4. /\ key' \in Seq(Node)
      /\ \/ key' = key /\ children' = children
         \/ Len(key') = Len(key) + 1 /\ children' = Append(children, NotLoaded)
      /\ pool'.min = pool.min /\ pool'.max = pool.max
      /\ PoolType' /\ Filed' /\ Present' /\ NoRepeat'
  BY <1>1, <1>2, <1>3, GetNodeEffect
<1>5. /\ children' \in Seq(Seq(Nat) \cup {NotLoaded})
      /\ Len(children') = Len(key')
  BY <1>4, ChildrenEffect DEF PoolInv, ObjectType
<1>6. UNCHANGED <<db, loading, todo>> /\ loading = NoObject
  BY DEF Ask
<1>7. ObjectType'
  BY <1>4, <1>5, <1>6 DEF PoolInv, ObjectType
<1>8. Spanned'
  BY <1>4, <1>6 DEF PoolInv, Spanned, InRange
<1> QED BY <1>4, <1>7, <1>8 DEF PoolInv

LEMMA BeginLoadStep == ASSUME PoolInv, NEW o \in Object, BeginLoad(o) PROVE PoolInv'
<1>1. /\ children' = [children EXCEPT ![o] = <<>>] /\ loading' = o
      /\ todo' = DiscreteChildrenOf(key[o])
      /\ UNCHANGED <<db, pool, key>>
  BY DEF BeginLoad
<1>2. /\ children' \in Seq(Seq(Nat) \cup {NotLoaded}) /\ Len(children') = Len(key')
      /\ children'[o] = <<>>
  BY <1>1, LinksFacts DEF PoolInv, ObjectType, Object
<1>3. todo' \subseteq db'
  BY <1>1 DEF DiscreteChildrenOf
<1>4. children'[loading'] \in Seq(Nat) /\ loading' \in Object'
  BY <1>1, <1>2 DEF Object
<1>5. ObjectType'
  BY <1>1, <1>2, <1>3, <1>4 DEF PoolInv, ObjectType
<1>6. PoolType' /\ Spanned' /\ Filed' /\ Present' /\ NoRepeat'
  <2>1. Spanned'
    BY <1>1 DEF PoolInv, Spanned, InRange
  <2>2. PoolType' /\ Filed' /\ Present' /\ NoRepeat'
    BY <1>1, PoolUntouched DEF PoolInv
  <2> QED BY <2>1, <2>2
<1> QED BY <1>5, <1>6 DEF PoolInv

(* The loop body, as GetNode and the vector of children it appends to. *)
LEMMA LoadChildEffect ==
  ASSUME PoolInv, LoadChild
  PROVE  \E f \in todo, o \in 1..(Len(key) + 1) :
           /\ Arrival(f) \in Node /\ InRange(Arrival(f).airport)
           /\ GetNode(Arrival(f), o, [children EXCEPT ![loading] = Append(@, o)])
           /\ [children EXCEPT ![loading] = Append(@, o)] \in Seq(Seq(Nat) \cup {NotLoaded})
           /\ Len([children EXCEPT ![loading] = Append(@, o)]) = Len(key)
           /\ [children EXCEPT ![loading] = Append(@, o)][loading] \in Seq(Nat)
           /\ \A i \in Object : i # loading =>
                 [children EXCEPT ![loading] = Append(@, o)][i] = children[i]
           /\ todo' = todo \ {f}
<1>1. PICK f \in FirstOf(todo), o \in 1..(Len(key) + 1) :
        /\ GetNode(Arrival(f), o, [children EXCEPT ![loading] = Append(@, o)])
        /\ todo' = todo \ {f}
  BY DEF LoadChild
<1>2. f \in todo /\ f \in db /\ f \in Flight
  BY <1>1, DatabasesAssumption DEF FirstOf, PoolInv, ObjectType
<1>3. Arrival(f) \in Node /\ InRange(Arrival(f).airport)
  BY <1>2, RecordFields DEF Arrival, PoolInv, Spanned
<1>4. o \in Nat /\ loading \in Object /\ children[loading] \in Seq(Nat)
  BY <1>1 DEF PoolInv, ObjectType, LoadChild
<1>5. Append(children[loading], o) \in Seq(Nat)
  BY <1>4, AppendFacts
<1>6. [children EXCEPT ![loading] = Append(@, o)]
        = [children EXCEPT ![loading] = Append(children[loading], o)]
  OBVIOUS
<1>7. /\ [children EXCEPT ![loading] = Append(@, o)] \in Seq(Seq(Nat) \cup {NotLoaded})
      /\ Len([children EXCEPT ![loading] = Append(@, o)]) = Len(key)
      /\ [children EXCEPT ![loading] = Append(@, o)][loading] \in Seq(Nat)
      /\ \A i \in Object : i # loading =>
           [children EXCEPT ![loading] = Append(@, o)][i] = children[i]
  BY <1>4, <1>5, <1>6, LinksFacts DEF PoolInv, ObjectType, Object
<1> QED BY <1>1, <1>2, <1>3, <1>7

LEMMA LoadChildStep == ASSUME PoolInv, LoadChild PROVE PoolInv'
<1>1. PICK f \in todo, o \in 1..(Len(key) + 1) :
           /\ Arrival(f) \in Node /\ InRange(Arrival(f).airport)
           /\ GetNode(Arrival(f), o, [children EXCEPT ![loading] = Append(@, o)])
           /\ [children EXCEPT ![loading] = Append(@, o)] \in Seq(Seq(Nat) \cup {NotLoaded})
           /\ Len([children EXCEPT ![loading] = Append(@, o)]) = Len(key)
           /\ [children EXCEPT ![loading] = Append(@, o)][loading] \in Seq(Nat)
           /\ todo' = todo \ {f}
  BY LoadChildEffect
<1> DEFINE links == [children EXCEPT ![loading] = Append(@, o)]
<1>2. /\ links \in Seq(Seq(Nat) \cup {NotLoaded}) /\ Len(links) = Len(key)
      /\ links[loading] \in Seq(Nat) /\ GetNode(Arrival(f), o, links)
  BY <1>1
<1> HIDE DEF links
<1>3. /\ key' \in Seq(Node)
      /\ \/ key' = key /\ children' = links
         \/ Len(key') = Len(key) + 1 /\ children' = Append(links, NotLoaded)
      /\ pool'.min = pool.min /\ pool'.max = pool.max
      /\ PoolType' /\ Filed' /\ Present' /\ NoRepeat'
  BY <1>1, <1>2, GetNodeEffect
<1>4. /\ children' \in Seq(Seq(Nat) \cup {NotLoaded})
      /\ Len(children') = Len(key')
      /\ \A i \in Object : i \in Object' /\ children'[i] = links[i]
  BY <1>2, <1>3, ChildrenEffect DEF PoolInv, ObjectType
<1>5. UNCHANGED <<db, loading>> /\ loading \in Object
  BY DEF LoadChild, PoolInv, ObjectType
<1>6. todo' \subseteq db'
  BY <1>1, <1>5 DEF PoolInv, ObjectType
<1>7. ObjectType'
  BY <1>2, <1>3, <1>4, <1>5, <1>6 DEF PoolInv, ObjectType
<1>8. Spanned'
  BY <1>3, <1>5 DEF PoolInv, Spanned, InRange
<1> QED BY <1>3, <1>7, <1>8 DEF PoolInv

LEMMA PoolStep == PoolInv /\ [Next]_vars => PoolInv'
<1> SUFFICES ASSUME PoolInv, [Next]_vars PROVE PoolInv'
  OBVIOUS
<1>1. ASSUME NEW n \in Wanted, Ask(n) PROVE PoolInv'
  BY <1>1, AskStep
<1>2. ASSUME NEW o \in Object, BeginLoad(o) PROVE PoolInv'
  BY <1>2, BeginLoadStep
<1>3. CASE LoadChild
  BY <1>3, LoadChildStep
<1>4. CASE EndLoad
  <2>1. UNCHANGED <<db, pool, key, children, todo>> /\ loading' = NoObject
    BY <1>4 DEF EndLoad
  <2>2. PoolType' /\ Filed' /\ Present' /\ NoRepeat'
    BY <2>1, PoolUntouched DEF PoolInv
  <2>3. ObjectType' /\ Spanned'
    BY <2>1 DEF PoolInv, ObjectType, Spanned, InRange
  <2> QED BY <2>2, <2>3 DEF PoolInv
<1>5. CASE UNCHANGED vars
  <2>1. UNCHANGED <<db, pool, key, children, loading, todo>>
    BY <1>5 DEF vars
  <2>2. PoolType' /\ Filed' /\ Present' /\ NoRepeat'
    BY <2>1, PoolUntouched DEF PoolInv
  <2>3. ObjectType' /\ Spanned'
    BY <2>1 DEF PoolInv, ObjectType, Spanned, InRange, Object
  <2> QED BY <2>2, <2>3 DEF PoolInv
<1> QED BY <1>1, <1>2, <1>3, <1>4, <1>5 DEF Next

(* What follows rests on this: the pool and the objects agree in every     *)
(* state of AbstractGraph::GetNode and LoadDiscreteChildren.               *)
THEOREM PoolInvariant == Spec => []PoolInv
<1> QED BY PoolInit, PoolStep, PTL DEF Spec

-----------------------------------------------------------------------------
(* The pool finds an object by its key, that object alone; GetNode never   *)
(* throws "Non-unique (Airport, DateTime)"; and LoadDiscreteChildren never *)
(* calls WithinOrThrow with an airport that it rejects, so that a node is  *)
(* not left with half of its children.                                     *)
THEOREM PoolLookups == Spec => []GetNodeSucceeds
<1>1. PoolInv => GetNodeSucceeds
  <2> SUFFICES ASSUME PoolInv PROVE GetNodeSucceeds
    OBVIOUS
  <2>a. key \in Seq(Node) /\ PoolType /\ Filed /\ Present /\ NoRepeat
    BY DEF PoolInv, ObjectType
  <2>1. ASSUME NEW o \in Object PROVE Pooled(key[o]) = {o}
    <3> DEFINE a == key[o].airport  t == key[o].no_sooner_than
    <3>1. key[o] \in Node /\ a \in pool.min..pool.max
      BY <2>a DEF Object, Present, InRange
    <3>2. PICK i \in 1..Len(pool.elements[a]) : pool.elements[a][i] = o
      BY <2>a DEF Present
    <3>3. /\ i \in 1..Len(pool.datetimes[a])
          /\ key[pool.elements[a][i]] = [airport |-> a, no_sooner_than |-> pool.datetimes[a][i]]
      BY <3>1, <3>2, <2>a DEF Filed
    <3>4. pool.datetimes[a][i] = t
      BY <3>2, <3>3
    <3>5. \A j \in 1..Len(pool.datetimes[a]) : pool.datetimes[a][j] = t => j = i
      BY <3>1, <3>3, <3>4, <2>a DEF NoRepeat
    <3>6. Slots(pool, a, t) = {i}
      BY <3>3, <3>4, <3>5 DEF Slots
    <3> QED BY <3>2, <3>6 DEF Pooled, Found
  <2>2. ASSUME NEW n \in Node, Holds(pool, n.airport)
        PROVE  ~NonUnique(pool, n.airport, n.no_sooner_than)
    <3>1. n.airport \in pool.min..pool.max
      BY <2>2, <2>a, HeldInRange DEF InRange
    <3> QED BY <3>1, <2>a DEF NonUnique, Slots, NoRepeat
  <2>3. ASSUME NEW f \in todo PROVE Holds(pool, record[f].airport_to)
    <3>1. record[f].airport_to \in pool.min..pool.max
      BY DEF PoolInv, ObjectType, Spanned, InRange
    <3> QED BY <3>1 DEF Holds, PoolInv, PoolType
  <2> QED BY <2>1, <2>2, <2>3 DEF GetNodeSucceeds
<1> QED BY <1>1, PoolInvariant, PTL

-----------------------------------------------------------------------------
(* Creating one node does not hide another. *)
LEMMA GetNodeKeeps ==
  ASSUME PoolInv, NEW n \in Node, InRange(n.airport), NEW object \in Nat, NEW links,
         GetNode(n, object, links),
         NEW m \in Node, InRange(m.airport), Pooled(m) # {}
  PROVE  Pooled(m)' = Pooled(m)
<1> DEFINE a == n.airport  t == n.no_sooner_than  b == m.airport  u == m.no_sooner_than
<1>1. CASE ~Missing(n)
  BY <1>1 DEF GetNode, Pooled
<1>2. CASE Missing(n)
  <2>a. PoolType /\ Filed
    BY DEF PoolInv
  <2>1. pool' = [pool EXCEPT !.elements[a] = Append(@, object), !.datetimes[a] = Append(@, t)]
    BY <1>2 DEF GetNode, PoolWith, Added
  <2>2. /\ pool'.elements = [pool.elements EXCEPT ![a] = Append(@, object)]
        /\ pool'.datetimes = [pool.datetimes EXCEPT ![a] = Append(@, t)]
    BY <2>1, <2>a DEF PoolType
  <2>3. a # b \/ t # u
    BY <1>2 DEF Missing, Pooled
  <2>4. CASE a # b
    <3>1. pool'.elements[b] = pool.elements[b] /\ pool'.datetimes[b] = pool.datetimes[b]
      BY <2>2, <2>4, <2>a DEF PoolType, InRange
    <3>2. Slots(pool', b, u) = Slots(pool, b, u)
      BY <3>1 DEF Slots
    <3> QED BY <3>1, <3>2 DEF Pooled, Found
  <2>5. CASE a = b /\ t # u
    <3>1. /\ pool'.elements[a] = Append(pool.elements[a], object)
          /\ pool'.datetimes[a] = Append(pool.datetimes[a], t)
      BY <2>2, <2>a DEF PoolType, InRange
    <3>2. /\ pool.elements[a] \in Seq(Nat) /\ pool.datetimes[a] \in Seq(Time) /\ t \in Time
          /\ Len(pool.elements[a]) = Len(pool.datetimes[a])
      BY <2>a DEF PoolType, InRange, Filed, Node
    <3>3. PICK len \in Nat :
            /\ Len(pool.datetimes[a]) = len /\ Len(pool'.datetimes[a]) = len + 1
            /\ pool'.datetimes[a][len + 1] = t
            /\ \A i \in 1..len : /\ pool'.elements[a][i] = pool.elements[a][i]
                                /\ pool'.datetimes[a][i] = pool.datetimes[a][i]
      <4>1. \A i \in 1..Len(pool.elements[a]) : pool'.elements[a][i] = pool.elements[a][i]
        BY <3>1, <3>2, AppendFacts
      <4>2. /\ Len(pool.datetimes[a]) \in Nat
            /\ Len(pool'.datetimes[a]) = Len(pool.datetimes[a]) + 1
            /\ pool'.datetimes[a][Len(pool.datetimes[a]) + 1] = t
            /\ \A i \in 1..Len(pool.datetimes[a]) : pool'.datetimes[a][i] = pool.datetimes[a][i]
        BY <3>1, <3>2, AppendFacts
      <4> QED BY <4>1, <4>2, <3>2
    <3>4. Slots(pool', a, u) = Slots(pool, a, u)
      BY <3>3, <2>5 DEF Slots
    <3>5. \A i \in Slots(pool, a, u) : pool'.elements[a][i] = pool.elements[a][i]
      BY <3>3 DEF Slots
    <3> QED BY <3>4, <3>5, <2>5 DEF Pooled, Found
  <2> QED BY <2>3, <2>4, <2>5
<1> QED BY <1>1, <1>2

(* The pointers handed out stay good: GetNode gives the same object for a  *)
(* key ever after, and a child vector, once loaded, is not touched again.  *)
THEOREM PoolStability == Spec => ObjectsAreStable
<1> DEFINE Stable ==
      /\ \A n \in Wanted : Holds(pool, n.airport) /\ Pooled(n) # {} => Pooled(n)' = Pooled(n)
      /\ \A o \in Object : o # loading /\ children[o] # NotLoaded => children'[o] = children[o]
<1>1. ASSUME PoolInv, Next PROVE Stable
  <2>a. /\ key \in Seq(Node) /\ children \in Seq(Seq(Nat) \cup {NotLoaded})
        /\ Len(children) = Len(key) /\ PoolType
    BY <1>1 DEF PoolInv, ObjectType
  <2>b. ASSUME NEW m \in Wanted, Holds(pool, m.airport) PROVE m \in Node /\ InRange(m.airport)
    BY <2>b, <2>a, WantedAssumption, HeldInRange
  <2>1. ASSUME NEW n \in Wanted, Ask(n) PROVE Stable
    <3>1. PICK o \in 1..(Len(key) + 1) : GetNode(n, o, children)
      BY <2>1 DEF Ask
    <3>2. n \in Node /\ InRange(n.airport) /\ o \in Nat
      BY <2>1, <2>b DEF Ask
    <3>3. /\ key' \in Seq(Node)
          /\ \/ key' = key /\ children' = children
             \/ Len(key') = Len(key) + 1 /\ children' = Append(children, NotLoaded)
      BY <1>1, <3>1, <3>2, GetNodeEffect
    <3>4. \A i \in Object : children'[i] = children[i]
      BY <3>3, <2>a, ChildrenEffect
    <3>5. \A m \in Wanted : Holds(pool, m.airport) /\ Pooled(m) # {} => Pooled(m)' = Pooled(m)
      BY <1>1, <3>1, <3>2, <2>b, GetNodeKeeps
    <3> QED BY <3>4, <3>5
  <2>2. ASSUME NEW o \in Object, BeginLoad(o) PROVE Stable
    <3>1. /\ children' = [children EXCEPT ![o] = <<>>] /\ children[o] = NotLoaded
          /\ pool' = pool
      BY <2>2 DEF BeginLoad
    <3>2. \A i \in Object : i # o => children'[i] = children[i]
      BY <3>1, <2>a, LinksFacts DEF Object
    <3> QED BY <3>1, <3>2 DEF Pooled
  <2>3. CASE LoadChild
    <3>1. PICK f \in todo, o \in 1..(Len(key) + 1) :
           /\ Arrival(f) \in Node /\ InRange(Arrival(f).airport)
           /\ GetNode(Arrival(f), o, [children EXCEPT ![loading] = Append(@, o)])
           /\ [children EXCEPT ![loading] = Append(@, o)] \in Seq(Seq(Nat) \cup {NotLoaded})
           /\ Len([children EXCEPT ![loading] = Append(@, o)]) = Len(key)
           /\ \A i \in Object : i # loading =>
                 [children EXCEPT ![loading] = Append(@, o)][i] = children[i]
      BY <1>1, <2>3, LoadChildEffect
    <3> DEFINE links == [children EXCEPT ![loading] = Append(@, o)]
    <3>2. /\ links \in Seq(Seq(Nat) \cup {NotLoaded}) /\ Len(links) = Len(key)
          /\ GetNode(Arrival(f), o, links)
          /\ \A i \in Object : i # loading => links[i] = children[i]
      BY <3>1
    <3> HIDE DEF links
    <3>3. o \in Nat
      BY <2>a
    <3>4. /\ key' \in Seq(Node)
          /\ \/ key' = key /\ children' = links
             \/ Len(key') = Len(key) + 1 /\ children' = Append(links, NotLoaded)
      BY <1>1, <3>1, <3>2, GetNodeEffect
    <3>5. \A i \in Object : children'[i] = links[i]
      BY <3>2, <3>4, <2>a, ChildrenEffect
    <3>6. \A m \in Wanted : Holds(pool, m.airport) /\ Pooled(m) # {} => Pooled(m)' = Pooled(m)
      BY <1>1, <3>1, <3>2, <3>3, <2>b, GetNodeKeeps
    <3> QED BY <3>2, <3>5, <3>6
  <2>4. CASE EndLoad
    BY <2>4 DEF EndLoad, Pooled
  <2> QED BY <1>1, <2>1, <2>2, <2>3, <2>4 DEF Next
<1>2. PoolInv /\ [Next]_vars => [Stable]_vars
  BY <1>1
<1>3. Spec => [][Stable]_vars
  BY <1>2, PoolInvariant, PTL DEF Spec
<1> QED BY <1>3 DEF ObjectsAreStable

-----------------------------------------------------------------------------
(***************************************************************************)
(* Children.  The vector v, of objects with the keys k, has one place for  *)
(* each flight of F: some h tells which.  While an object is loading, F    *)
(* are the flights that its loop has taken.                                *)
(***************************************************************************)

Enlists(k, v, F) ==
  /\ v \in Seq(1..Len(k))
  /\ \E h \in [1..Len(v) -> F] :
       /\ \A i, j \in 1..Len(v) : h[i] = h[j] => i = j
       /\ \A f \in F : \E i \in 1..Len(v) : h[i] = f
       /\ \A i \in 1..Len(v) : k[v[i]] = Arrival(h[i])

Taken(o) == IF o = loading THEN DiscreteChildrenOf(key[o]) \ todo ELSE DiscreteChildrenOf(key[o])

ChildInv ==
  /\ loading # NoObject => todo \subseteq DiscreteChildrenOf(key[loading])
  /\ \A o \in Object : children[o] # NotLoaded => Enlists(key, children[o], Taken(o))

(* New objects change nothing in an old vector. *)
LEMMA EnlistsStill ==
  ASSUME NEW k \in Seq(Node), NEW l \in Seq(Node), Len(k) <= Len(l),
         \A o \in 1..Len(k) : l[o] = k[o],
         NEW v, NEW F, Enlists(k, v, F)
  PROVE  Enlists(l, v, F)
<1>1. PICK h \in [1..Len(v) -> F] :
        /\ \A i, j \in 1..Len(v) : h[i] = h[j] => i = j
        /\ \A f \in F : \E i \in 1..Len(v) : h[i] = f
        /\ \A i \in 1..Len(v) : k[v[i]] = Arrival(h[i])
  BY DEF Enlists
<1>2. v \in Seq(1..Len(k)) /\ 1..Len(k) \subseteq 1..Len(l)
  BY DEF Enlists
<1>3. v \in Seq(1..Len(l))
  BY <1>2
<1>4. \A i \in 1..Len(v) : v[i] \in 1..Len(k)
  BY <1>2
<1>5. \A i \in 1..Len(v) : l[v[i]] = Arrival(h[i])
  BY <1>1, <1>4
<1> QED BY <1>1, <1>3, <1>5, Zenon DEF Enlists

(* The loop appends the object of one more flight's arrival.               *)
LEMMA EnlistsOneMore ==
  ASSUME NEW k \in Seq(Node), NEW v, NEW F, Enlists(k, v, F),
         NEW f, f \notin F, NEW o \in 1..Len(k), k[o] = Arrival(f)
  PROVE  Enlists(k, Append(v, o), F \cup {f})
<1>1. PICK h \in [1..Len(v) -> F] :
        /\ \A i, j \in 1..Len(v) : h[i] = h[j] => i = j
        /\ \A g \in F : \E i \in 1..Len(v) : h[i] = g
        /\ \A i \in 1..Len(v) : k[v[i]] = Arrival(h[i])
  BY DEF Enlists
<1>2. v \in Seq(1..Len(k))
  BY DEF Enlists
<1> DEFINE n == Len(v)  w == Append(v, o)
           e == [i \in 1..(n + 1) |-> IF i <= n THEN h[i] ELSE f]
<1>3. /\ n \in Nat /\ w \in Seq(1..Len(k)) /\ Len(w) = n + 1
      /\ \A i \in 1..n : w[i] = v[i]
      /\ w[n + 1] = o
  BY <1>2, AppendFacts
<1>4. /\ e \in [1..(n + 1) -> F \cup {f}] /\ e[n + 1] = f
      /\ \A i \in 1..n : e[i] = h[i] /\ h[i] \in F
  <2>1. h \in [1..n -> F] /\ n \in Nat
    BY <1>1, <1>3
  <2> HIDE DEF n
  <2>2. \A i \in 1..(n + 1) : (IF i <= n THEN h[i] ELSE f) \in F \cup {f}
    BY <2>1
  <2> QED BY <2>1, <2>2
<1> HIDE DEF n, w, e
<1>5. \A i \in 1..(n + 1) : i \in 1..n \/ i = n + 1
  BY <1>3
<1>6. n + 1 \in 1..(n + 1) /\ 1..n \subseteq 1..(n + 1)
  BY <1>3
<1>7. \A i, j \in 1..(n + 1) : e[i] = e[j] => i = j
  BY <1>1, <1>4, <1>5 DEF n
<1>8. \A g \in F \cup {f} : \E i \in 1..(n + 1) : e[i] = g
  BY <1>1, <1>4, <1>6 DEF n
<1>9. \A i \in 1..(n + 1) : k[w[i]] = Arrival(e[i])
  BY <1>1, <1>3, <1>4, <1>5 DEF n
<1>10. Enlists(k, w, F \cup {f})
  <2>1. /\ e \in [1..Len(w) -> F \cup {f}]
        /\ \A i, j \in 1..Len(w) : e[i] = e[j] => i = j
        /\ \A g \in F \cup {f} : \E i \in 1..Len(w) : e[i] = g
        /\ \A i \in 1..Len(w) : k[w[i]] = Arrival(e[i])
    BY <1>3, <1>4, <1>7, <1>8, <1>9
  <2> QED BY <1>3, <2>1, Zenon DEF Enlists
<1> QED BY <1>10 DEF w

(* What GetNode returns has the key asked for, and no other key changes.   *)
LEMMA GetNodeKeys ==
  ASSUME PoolInv, NEW n \in Node, InRange(n.airport), NEW object, NEW links,
         GetNode(n, object, links)
  PROVE  /\ object \in 1..Len(key') /\ key'[object] = n
         /\ Len(key) <= Len(key')
         /\ \A o \in Object : key'[o] = key[o]
<1>1. key \in Seq(Node) /\ Filed
  BY DEF PoolInv, ObjectType
<1>2. n = [airport |-> n.airport, no_sooner_than |-> n.no_sooner_than]
  BY DEF Node
<1>3. CASE Missing(n)
  BY <1>1, <1>3, AppendFacts DEF GetNode, Object
<1>4. CASE ~Missing(n)
  <2>1. key' = key /\ object \in Pooled(n)
    BY <1>4 DEF GetNode
  <2>2. PICK i \in 1..Len(pool.datetimes[n.airport]) :
          pool.datetimes[n.airport][i] = n.no_sooner_than /\ object = pool.elements[n.airport][i]
    BY <2>1 DEF Pooled, Found, Slots
  <2>3. object \in Object /\ key[object] = n
    BY <1>1, <1>2, <2>2 DEF Filed, InRange
  <2> QED BY <1>1, <2>1, <2>3 DEF Object
<1> QED BY <1>3, <1>4

(* A vector that is left alone keeps its places, whoever calls GetNode.    *)
LEMMA ChildrenKept ==
  ASSUME ChildInv, key \in Seq(Node), key' \in Seq(Node), Len(key) <= Len(key'),
         db' = db, \A o \in Object : key'[o] = key[o],
         NEW o \in Object, children[o] # NotLoaded, children'[o] = children[o],
         o # loading, o # loading'
  PROVE  Enlists(key', children'[o], Taken(o)')
<1>1. key'[o] = key[o] /\ Enlists(key, children[o], Taken(o))
  BY DEF ChildInv
<1>2. Taken(o)' = Taken(o)
  BY <1>1 DEF Taken, DiscreteChildrenOf
<1>3. Enlists(key', children[o], Taken(o))
  BY <1>1, EnlistsStill DEF Object
<1> QED BY <1>2, <1>3

LEMMA ChildrenAsk == ASSUME PoolInv, ChildInv, NEW n \in Wanted, Ask(n) PROVE ChildInv'
<1>1. PICK o \in 1..(Len(key) + 1) : GetNode(n, o, children)
  BY DEF Ask
<1>2. n \in Node /\ InRange(n.airport)
  BY WantedAssumption, HeldInRange DEF Ask, PoolInv
<1>3. /\ key \in Seq(Node) /\ children \in Seq(Seq(Nat) \cup {NotLoaded}) /\ Len(children) = Len(key)
  BY DEF PoolInv, ObjectType
<1>4. /\ key' \in Seq(Node)
      /\ \/ key' = key /\ children' = children
         \/ Len(key') = Len(key) + 1 /\ children' = Append(children, NotLoaded)
  BY <1>1, <1>2, GetNodeEffect
<1>5. Len(key) <= Len(key') /\ \A i \in Object : key'[i] = key[i]
  BY <1>1, <1>2, GetNodeKeys
<1>6. UNCHANGED <<db, loading, todo>> /\ loading = NoObject /\ loading \notin Nat
  BY NotLoadedAssumption DEF Ask
<1>7. \A i \in Object : children'[i] = children[i]
  BY <1>3, <1>4, ChildrenEffect
<1>8. \A i \in Object' : i \in Object \/ children'[i] = NotLoaded
  BY <1>3, <1>4, AppendFacts DEF Object
<1>9. \A i \in Object : i # NoObject
  BY <1>3, <1>6 DEF Object
<1> QED BY <1>3, <1>4, <1>5, <1>6, <1>7, <1>8, <1>9, ChildrenKept DEF ChildInv

LEMMA ChildrenBegin ==
  ASSUME PoolInv, ChildInv, NEW o \in Object, BeginLoad(o) PROVE ChildInv'
<1>1. /\ children' = [children EXCEPT ![o] = <<>>] /\ loading' = o /\ loading = NoObject
      /\ todo' = DiscreteChildrenOf(key[o])
      /\ UNCHANGED <<db, pool, key>>
  BY DEF BeginLoad
<1>2. /\ key \in Seq(Node) /\ children \in Seq(Seq(Nat) \cup {NotLoaded}) /\ Len(children) = Len(key)
  BY DEF PoolInv, ObjectType
<1>3. children'[o] = <<>> /\ \A i \in Object : i # o => children'[i] = children[i]
  BY <1>1, <1>2, LinksFacts DEF Object
<1>4. DiscreteChildrenOf(key[o])' = DiscreteChildrenOf(key[o])
  BY <1>1 DEF DiscreteChildrenOf
<1>5. Enlists(key', children'[o], Taken(o)')
  <2>1. Taken(o)' = {}
    BY <1>1, <1>4 DEF Taken
  <2>2. <<>> \in [1..Len(<<>>) -> {}] /\ <<>> \in Seq(1..Len(key))
    OBVIOUS
  <2> QED BY <1>1, <1>3, <2>1, <2>2 DEF Enlists
<1>6. loading \notin Object
  BY <1>1, <1>2, NotLoadedAssumption DEF Object
<1>7. ASSUME NEW i \in Object, i # o, children'[i] # NotLoaded
      PROVE  Enlists(key', children'[i], Taken(i)')
  BY <1>1, <1>2, <1>3, <1>6, <1>7, ChildrenKept DEF Object
<1>8. Object' = Object
  BY <1>1 DEF Object
<1> QED BY <1>1, <1>4, <1>5, <1>7, <1>8 DEF ChildInv

LEMMA ChildrenLoad == ASSUME PoolInv, ChildInv, LoadChild PROVE ChildInv'
<1>1. PICK f \in todo, o \in 1..(Len(key) + 1) :
           /\ Arrival(f) \in Node /\ InRange(Arrival(f).airport)
           /\ GetNode(Arrival(f), o, [children EXCEPT ![loading] = Append(@, o)])
           /\ [children EXCEPT ![loading] = Append(@, o)] \in Seq(Seq(Nat) \cup {NotLoaded})
           /\ Len([children EXCEPT ![loading] = Append(@, o)]) = Len(key)
           /\ \A i \in Object : i # loading =>
                 [children EXCEPT ![loading] = Append(@, o)][i] = children[i]
           /\ todo' = todo \ {f}
  BY LoadChildEffect
<1> DEFINE links == [children EXCEPT ![loading] = Append(@, o)]
<1>2. /\ loading # NoObject /\ loading \in Object /\ children[loading] \in Seq(Nat)
      /\ key \in Seq(Node) /\ Len(children) = Len(key)
      /\ children \in Seq(Seq(Nat) \cup {NotLoaded})
      /\ UNCHANGED <<db, loading>>
  BY DEF LoadChild, PoolInv, ObjectType
<1>3. /\ links \in Seq(Seq(Nat) \cup {NotLoaded}) /\ Len(links) = Len(key)
      /\ GetNode(Arrival(f), o, links)
      /\ \A i \in Object : i # loading => links[i] = children[i]
  BY <1>1
<1>4. links[loading] = Append(children[loading], o)
  BY <1>2 DEF Object
<1> HIDE DEF links
<1>5. /\ key' \in Seq(Node)
      /\ \/ key' = key /\ children' = links
         \/ Len(key') = Len(key) + 1 /\ children' = Append(links, NotLoaded)
  BY <1>1, <1>3, GetNodeEffect
<1>6. /\ Len(key) <= Len(key') /\ \A i \in Object : key'[i] = key[i]
      /\ o \in 1..Len(key') /\ key'[o] = Arrival(f)
  BY <1>1, <1>3, GetNodeKeys
<1>7. \A i \in Object : children'[i] = links[i]
  BY <1>2, <1>3, <1>5, ChildrenEffect
<1>8. \A i \in Object' : i \in Object \/ children'[i] = NotLoaded
  BY <1>2, <1>3, <1>5, AppendFacts DEF Object
<1>9. DiscreteChildrenOf(key[loading])' = DiscreteChildrenOf(key[loading])
  BY <1>2, <1>6 DEF DiscreteChildrenOf
<1>10. todo \subseteq DiscreteChildrenOf(key[loading])
  BY <1>2 DEF ChildInv
<1>11. Enlists(key', children'[loading], Taken(loading)')
  <2>1. Enlists(key, children[loading], Taken(loading))
    BY <1>2, NotLoadedAssumption DEF ChildInv
  <2>2. Enlists(key', children[loading], Taken(loading))
    BY <1>2, <1>5, <1>6, <2>1, EnlistsStill DEF Object
  <2>3. /\ Taken(loading)' = Taken(loading) \cup {f}
        /\ f \notin Taken(loading)
    BY <1>1, <1>2, <1>9, <1>10 DEF Taken
  <2>4. children'[loading] = Append(children[loading], o)
    BY <1>2, <1>4, <1>7
  <2>5. Enlists(key', Append(children[loading], o), Taken(loading) \cup {f})
    <3> DEFINE k == key'  v == children[loading]  F == Taken(loading)
    <3>1. k \in Seq(Node) /\ o \in 1..Len(k) /\ k[o] = Arrival(f)
      BY <1>5, <1>6
    <3>2. Enlists(k, v, F) /\ f \notin F
      BY <2>2, <2>3
    <3> HIDE DEF k, v, F
    <3>3. Enlists(k, Append(v, o), F \cup {f})
      BY <3>1, <3>2, EnlistsOneMore
    <3> QED BY <3>3 DEF k, v, F
  <2> QED BY <2>3, <2>4, <2>5
<1>12. ASSUME NEW i \in Object, i # loading, children'[i] # NotLoaded
       PROVE  Enlists(key', children'[i], Taken(i)')
  BY <1>2, <1>3, <1>5, <1>6, <1>7, <1>12, ChildrenKept
<1>13. todo' \subseteq DiscreteChildrenOf(key[loading])'
  BY <1>1, <1>2, <1>9, <1>10
<1>14. ASSUME NEW i \in Object', children'[i] # NotLoaded
       PROVE  Enlists(key', children'[i], Taken(i)')
  BY <1>2, <1>8, <1>11, <1>12, <1>14
<1> QED BY <1>2, <1>13, <1>14 DEF ChildInv

LEMMA ChildrenStep == PoolInv /\ ChildInv /\ [Next]_vars => ChildInv'
<1> SUFFICES ASSUME PoolInv, ChildInv, [Next]_vars PROVE ChildInv'
  OBVIOUS
<1>1. ASSUME NEW n \in Wanted, Ask(n) PROVE ChildInv'
  BY <1>1, ChildrenAsk
<1>2. ASSUME NEW o \in Object, BeginLoad(o) PROVE ChildInv'
  BY <1>2, ChildrenBegin
<1>3. CASE LoadChild
  BY <1>3, ChildrenLoad
<1>4. CASE EndLoad
  <2>1. UNCHANGED <<db, key, children>> /\ loading' = NoObject /\ todo = {} /\ key \in Seq(Node)
    BY <1>4 DEF EndLoad, PoolInv, ObjectType
  <2>2. \A o \in Object : Taken(o)' = Taken(o)
    BY <2>1, NotLoadedAssumption DEF Taken, DiscreteChildrenOf, Object
  <2>3. Object' = Object
    BY <2>1 DEF Object
  <2> QED BY <2>1, <2>2, <2>3 DEF ChildInv
<1>5. CASE UNCHANGED vars
  <2>1. UNCHANGED <<db, key, children, loading, todo>>
    BY <1>5 DEF vars
  <2>2. Object' = Object /\ \A o : Taken(o)' = Taken(o)
    BY <2>1 DEF Taken, DiscreteChildrenOf, Object
  <2>3. DiscreteChildrenOf(key[loading])' = DiscreteChildrenOf(key[loading])
    BY <2>1 DEF DiscreteChildrenOf
  <2> QED BY <2>1, <2>2, <2>3 DEF ChildInv
<1> QED BY <1>1, <1>2, <1>3, <1>4, <1>5 DEF Next

LEMMA ChildInvariant == Spec => [](PoolInv /\ ChildInv)
<1>1. Init => ChildInv
  BY DEF Init, ChildInv, Object
<1> QED BY <1>1, PoolInit, PoolStep, ChildrenStep, PTL DEF Spec

(* The types of a graph's variables: what the pool and the children hold   *)
(* are objects that exist, and a child vector holds objects or is not      *)
(* loaded.                                                                 *)
THEOREM Typing == Spec => []TypeOK
<1>1. PoolInv /\ ChildInv => TypeOK
  <2> SUFFICES ASSUME PoolInv, ChildInv PROVE TypeOK
    OBVIOUS
  <2>1. /\ db \in Databases /\ key \in Seq(Node) /\ Len(children) = Len(key) /\ todo \subseteq db
        /\ loading \in Object \cup {NoObject}
    BY DEF PoolInv, ObjectType
  <2>2. ASSUME NEW a \in pool.min..pool.max
        PROVE  pool.elements[a] \in Seq(Object) /\ pool.datetimes[a] \in Seq(Time)
    <3>1. pool.elements[a] \in Seq(Nat) /\ pool.datetimes[a] \in Seq(Time)
      BY DEF PoolInv, PoolType
    <3>2. \A i \in 1..Len(pool.elements[a]) : pool.elements[a][i] \in Object
      BY DEF PoolInv, Filed
    <3>3. pool.elements[a] \in Seq(Object)
      BY <3>1, <3>2, SeqOf
    <3> QED BY <3>1, <3>3
  <2>3. \A o \in Object : children[o] = NotLoaded \/ children[o] \in Seq(Object)
    BY DEF ChildInv, Enlists, Object
  <2> QED BY <2>1, <2>2, <2>3 DEF TypeOK
<1> QED BY <1>1, ChildInvariant, PTL

(* A node's loaded children are its flights' arrivals, as often as there   *)
(* are such flights: LoadDiscreteChildren misses and repeats nothing.      *)
THEOREM ChildrenCounted == Spec => []ChildrenAreArrivals
<1>1. PoolInv /\ ChildInv => ChildrenAreArrivals
  <2> SUFFICES ASSUME PoolInv, ChildInv,
                      NEW o \in Object, o # loading, children[o] # NotLoaded, NEW n \in Node
               PROVE  Cardinality({i \in 1..Len(children[o]) : key[children[o][i]] = n})
                      = Cardinality({f \in db : Catches(key[o], f) /\ Arrival(f) = n})
    BY DEF ChildrenAreArrivals
  <2> DEFINE v == children[o]
             A == {i \in 1..Len(v) : key[v[i]] = n}
             B == {f \in db : Catches(key[o], f) /\ Arrival(f) = n}
             F == DiscreteChildrenOf(key[o])
  <2>1. Enlists(key, v, F)
    BY DEF ChildInv, Taken
  <2>2. PICK h \in [1..Len(v) -> F] :
          /\ \A i, j \in 1..Len(v) : h[i] = h[j] => i = j
          /\ \A f \in F : \E i \in 1..Len(v) : h[i] = f
          /\ \A i \in 1..Len(v) : key[v[i]] = Arrival(h[i])
    BY <2>1 DEF Enlists
  <2>3. B = {f \in F : Arrival(f) = n}
    BY DEF DiscreteChildrenOf, Catches
  <2>4. IsFiniteSet(A)
    <3>1. Len(v) \in Nat /\ 1 \in Int
      BY <2>1 DEF Enlists
    <3>2. IsFiniteSet(1..Len(v))
      BY <3>1, FS_Interval
    <3>3. A \in SUBSET (1..Len(v))
      OBVIOUS
    <3> QED BY <3>2, <3>3, FS_Subset
  <2>5. ExistsBijection(A, B)
    <3> DEFINE g == [i \in A |-> h[i]]
    <3>1. g \in [A -> B]
      BY <2>2, <2>3
    <3>2. \A i, j \in A : g[i] = g[j] => i = j
      BY <2>2
    <3>3. \A f \in B : \E i \in A : g[i] = f
      BY <2>2, <2>3
    <3> QED BY <3>1, <3>2, <3>3 DEF ExistsBijection, Bijection, Injection, Surjection, IsInjective
  <2>6. Cardinality(B) = Cardinality(A)
    BY <2>4, <2>5, FS_Bijection
  <2> QED BY <2>6
<1> QED BY <1>1, ChildInvariant, PTL
=============================================================================
