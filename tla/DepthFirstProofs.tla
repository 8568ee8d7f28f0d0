-------------------------- MODULE DepthFirstProofs --------------------------
(***************************************************************************)
(* Theorems about the recursion of DFS, the tour `dfs' and the connections *)
(* that all_paths lists, for every data file, every set of queries, every  *)
(* depth limit and every width of int.                                     *)
(***************************************************************************)
EXTENDS DepthFirst, SearchGraphProofs, SequenceTheorems

-----------------------------------------------------------------------------
(* The stack of calls *)

LEMMA OuterEffect ==
  ASSUME TypeOK, frames # <<>>
  PROVE  /\ Len(frames) \in Nat \ {0}
         /\ Inner \in Frame
         /\ Outer \in Seq(Frame)
         /\ Len(Outer) = Len(frames) - 1
         /\ \A i \in 1..(Len(frames) - 1) : Outer[i] = frames[i]
<1>1. frames \in Seq(Frame) /\ Len(frames) \in Nat \ {0}
  BY DEF TypeOK
<1>2. Inner \in Frame
  BY <1>1 DEF Inner
<1>3. /\ Outer \in Seq(Frame)
      /\ Len(Outer) = Len(frames) - 1
      /\ \A i \in 1..(Len(frames) - 1) : Outer[i] = frames[i]
  <2>1. Outer = SubSeq(frames, 1, Len(frames) - 1)
    BY DEF Outer
  <2> DEFINE n == Len(frames) - 1
  <2>2. n \in Nat /\ (n - 1 + 1) = n
    BY <1>1
  <2>3. \A i \in 1..n : frames[i] \in Frame
    BY <1>1
  <2> HIDE DEF n
  <2>4. /\ Outer \in Seq(Frame)
        /\ Len(Outer) = IF 1 <= n THEN n - 1 + 1 ELSE 0
        /\ \A i \in 1..(n - 1 + 1) : Outer[i] = frames[i + 1 - 1]
    <3>1. /\ SubSeq(frames, 1, n) \in Seq(Frame)
          /\ Len(SubSeq(frames, 1, n)) = IF 1 <= n THEN n - 1 + 1 ELSE 0
          /\ \A i \in 1..(n - 1 + 1) : SubSeq(frames, 1, n)[i] = frames[1 + i - 1]
      BY <2>2, <2>3, SubSeqProperties
    <3>2. \A i \in 1..(n - 1 + 1) : 1 + i - 1 = i + 1 - 1
      BY <2>2
    <3>3. Outer = SubSeq(frames, 1, n)
      BY <2>1 DEF n
    <3> QED BY <3>1, <3>2, <3>3
  <2>5. /\ Outer \in Seq(Frame)
        /\ Len(Outer) = n
        /\ \A i \in 1..n : Outer[i] = frames[i]
    <3>1. \A i \in 1..n : i + 1 - 1 = i
      BY <2>2
    <3> QED BY <2>2, <2>4, <3>1
  <2> QED BY <2>5 DEF n
<1> QED BY <1>1, <1>2, <1>3

LEMMA AdvancedEffect ==
  ASSUME TypeOK, frames # <<>>, NEW f
  PROVE  /\ Advanced(f) \in Seq(Frame)
         /\ Len(Advanced(f)) = Len(frames)
         /\ \A i \in 1..(Len(frames) - 1) : Advanced(f)[i] = frames[i]
         /\ Advanced(f)[Len(frames)] = [Inner EXCEPT !.edges = @ \ {f}]
<1>1. [Inner EXCEPT !.edges = @ \ {f}] \in Frame
  BY OuterEffect DEF Frame
<1> QED BY <1>1, OuterEffect DEF Advanced

LEMMA PushedEffect ==
  ASSUME TypeOK, frames # <<>>, NEW f, NEW c \in Frame
  PROVE  LET s == Append(Advanced(f), c) IN
         /\ s \in Seq(Frame)
         /\ Len(s) = Len(frames) + 1
         /\ \A i \in 1..(Len(frames) - 1) : s[i] = frames[i]
         /\ s[Len(frames)] = [Inner EXCEPT !.edges = @ \ {f}]
         /\ s[Len(frames) + 1] = c
<1>1. Len(frames) \in Nat \ {0}
  BY OuterEffect
<1> QED BY <1>1, AdvancedEffect

-----------------------------------------------------------------------------
(* Typing of the operators *)

LEMMA EdgesType ==
  ASSUME TypeOK, NEW n
  PROVE  /\ db \subseteq Flight
         /\ DiscreteChildrenOf(n) \subseteq Flight
         /\ ChildNodes(n) \subseteq Node
         /\ \A op : CreatedOnDiscover(op, n) \subseteq Node
<1>1. db \subseteq Flight
  BY DatabasesAssumption DEF TypeOK
<1> QED BY <1>1, ArrivalType DEF CreatedOnDiscover, ArrivalsAt, ChildNodes, DiscreteChildrenOf

LEMMA CallType ==
  ASSUME TypeOK, NEW n \in Node, NEW k \in Nat
  PROVE  Call(n, k) \in Frame
BY EdgesType DEF Call, Frame

LEMMA QueryType ==
  ASSUME NEW q \in Queries
  PROVE  /\ q \in Query /\ q.from \in Node /\ q.to \in Node /\ q.limit \in Nat
         /\ q.from.airport \in Airport
         /\ EndNodes(q) \subseteq Node
         /\ DepthLimit(q) \in Nat
         /\ q # NoQuery
<1>1. q \in Query /\ q.from \in Node /\ q.to \in Node /\ q.limit \in Nat /\ q # NoQuery
  BY QueriesAssumption, NullAssumption DEF Query
<1> QED BY <1>1, IntMaxAssumption DEF Node, EndNodes, DepthLimit

LEMMA NodesFromType ==
  ASSUME TypeOK, NEW n \in Node
  PROVE  NodesFrom(n) \subseteq Node /\ n \in NodesFrom(n)
BY EdgesType, ArrivalType DEF NodesFrom

LEMMA ConvertType ==
  ASSUME TypeOK, NEW p \in Seq(Node), Convertible(p)
  PROVE  ConvertPath(p) \in Seq(Flight)
<1>1. db \subseteq Flight
  BY EdgesType
<1>2. \A i \in 1..(Len(p) - 1) :
        (CHOOSE f \in db : f \in RecordsBetween(p[i], p[i+1])) \in Flight
  BY <1>1 DEF Convertible
<1>3. CASE Len(p) = 0
  <2>1. ConvertPath(p) = [i \in 1..0 |-> CHOOSE f \in db : f \in RecordsBetween(p[i], p[i+1])]
    BY <1>3 DEF ConvertPath
  <2> QED BY <1>2, <1>3, <2>1
<1>4. CASE Len(p) > 0
  <2>1. Len(p) - 1 \in Nat
    BY <1>4
  <2> QED BY <1>2, <2>1 DEF ConvertPath
<1> QED BY <1>3, <1>4

-----------------------------------------------------------------------------
(***************************************************************************)
(* The shape of the recursion.  Each call has one less of the limit than   *)
(* the call around it, and takes edges only while something is left of it: *)
(* without this a call could get a limit that is no number.                *)
(***************************************************************************)

Shape ==
  /\ phase = "idle" => Unused
  /\ phase # "idle" => query \in Queries
  /\ phase = "search" <=> frames # <<>>
  /\ Len(answers) <= Len(paths)
  /\ \A i \in 1..Len(frames) :
       /\ frames[i].edges \subseteq DiscreteChildrenOf(frames[i].node)
       /\ frames[i].edges # {} => frames[i].limit > 0
       /\ frames[i].limit + i = DepthLimit(query) + 1

(* all_paths pops its list with each visit: that the list has something    *)
(* to pop hangs on its being the stack of calls.                           *)
Typed == TypeOK /\ Shape /\ TrailIsCallStack

LEMMA TypedInit == Init => Typed
<1> SUFFICES ASSUME Init PROVE Typed
  OBVIOUS
<1>1. TypeOK
  BY DEF Init, Unused, TypeOK, Phases, Undiscovered, Status
<1>2. Shape /\ TrailIsCallStack
  BY DEF Init, Unused, Shape, TrailIsCallStack
<1> QED BY <1>1, <1>2 DEF Typed

(* What both steps of the loop have in common. *)
LEMMA EdgeType ==
  ASSUME Typed, phase = "search", NEW f \in FirstOf(Inner.edges)
  PROVE  /\ frames # <<>> /\ query \in Queries
         /\ f \in db /\ f \in Flight /\ Arrival(f) \in Node
         /\ Inner.node \in Node /\ Catches(Inner.node, f)
         /\ LimitBelow \in Nat
         /\ LimitBelow + Len(frames) + 1 = DepthLimit(query) + 1
<1>1. frames # <<>> /\ query \in Queries
  BY DEF Typed, Shape
<1>2. Len(frames) \in Nat \ {0} /\ Inner \in Frame
  BY <1>1, OuterEffect DEF Typed
<1>3. /\ f \in DiscreteChildrenOf(Inner.node)
      /\ Inner.limit > 0
      /\ Inner.limit + Len(frames) = DepthLimit(query) + 1
  BY <1>2 DEF Typed, Shape, Inner, FirstOf
<1>4. Inner.limit \in Nat /\ Inner.node \in Node
  BY <1>2 DEF Frame
<1>5. f \in db /\ f \in Flight
  BY <1>3, EdgesType DEF DiscreteChildrenOf, Typed
<1>6. DepthLimit(query) \in Nat
  BY <1>1, QueryType
<1>7. LimitBelow \in Nat /\ LimitBelow + Len(frames) + 1 = DepthLimit(query) + 1
  BY <1>2, <1>3, <1>4, <1>6 DEF LimitBelow
<1>8. Catches(Inner.node, f)
  BY <1>3 DEF DiscreteChildrenOf, Catches
<1> QED BY <1>1, <1>4, <1>5, <1>7, <1>8, ArrivalType

LEMMA TypedAsk ==
  ASSUME Typed, NEW q \in Queries, Ask(q)
  PROVE  Typed'
<1>1. Unused /\ phase = "idle"
  BY DEF Ask, Typed, Shape
<1>2. Call(q.from, DepthLimit(q)) \in Frame
  BY QueryType, CallType DEF Typed
<1>3. Len(frames') = 1 /\ frames'[1] = Call(q.from, DepthLimit(q)) /\ frames' \in Seq(Frame)
  BY <1>2 DEF Ask
<1>4. status' \in [Node -> Status]
  BY QueryType, StatusType DEF Ask, Typed, TypeOK
<1>5. pool' \subseteq Node
  BY QueryType, EdgesType DEF Ask, Typed
<1>6. tour' \in Seq(Airport) /\ trail' \in Seq(Node)
  BY QueryType DEF Ask, TourOnDiscover, TrailOnDiscover, Typed, TypeOK
<1>7. TypeOK'
  BY <1>3, <1>4, <1>5, <1>6 DEF Ask, Typed, TypeOK, Phases
<1>8. \A i \in 1..Len(frames') :
        /\ frames'[i].edges \subseteq DiscreteChildrenOf(frames'[i].node)
        /\ frames'[i].edges # {} => frames'[i].limit > 0
        /\ frames'[i].limit + i = DepthLimit(q) + 1
  BY <1>3, QueryType DEF Call
<1>9. /\ query' = q /\ phase' = "search" /\ db' = db /\ frames' # <<>>
      /\ Len(answers') <= Len(paths')
  BY <1>1, <1>3 DEF Ask, Unused
<1>10. Shape'
  BY <1>8, <1>9 DEF Shape, DiscreteChildrenOf, DepthLimit
<1>11. TrailIsCallStack'
  <2>1. trail = <<>> /\ q.from \in Node
    BY <1>1, QueryType DEF Unused
  <2>2. q.op = "all_paths" => trail' = <<q.from>>
    BY <2>1 DEF Ask, TrailOnDiscover
  <2>3. q.op = "all_paths" => Len(trail') = 1 /\ trail'[1] = q.from
    BY <2>1, <2>2
  <2>4. frames'[1].node = q.from
    BY <1>3 DEF Call
  <2> SUFFICES ASSUME q.op = "all_paths"
               PROVE  Len(trail') = Len(frames') /\ \A i \in 1..Len(trail') : trail'[i] = frames'[i].node
    BY <1>9 DEF TrailIsCallStack
  <2>5. Len(frames') = 1 /\ \A i \in 1..1 : i = 1
    BY <1>3
  <2> QED BY <2>3, <2>4, <2>5
<1> QED BY <1>7, <1>10, <1>11 DEF Typed

(* The nodes of the stack, after each step of the recursion. *)
LEMMA NodesDescend ==
  ASSUME Typed, phase = "search", NEW f \in FirstOf(Inner.edges),
         frames' = Append(Advanced(f), Call(Arrival(f), LimitBelow))
  PROVE  /\ Len(frames) \in Nat \ {0}
         /\ Len(frames') = Len(frames) + 1
         /\ \A i \in 1..Len(frames) : frames'[i].node = frames[i].node
         /\ frames'[Len(frames) + 1].node = Arrival(f)
<1> DEFINE c == Call(Arrival(f), LimitBelow)
<1>1. frames # <<>> /\ c \in Frame
  BY EdgeType, CallType DEF Typed
<1>2. /\ Len(frames') = Len(frames) + 1 /\ Len(frames) \in Nat \ {0} /\ Inner \in Frame
      /\ \A i \in 1..(Len(frames) - 1) : frames'[i] = frames[i]
      /\ frames'[Len(frames)] = [Inner EXCEPT !.edges = @ \ {f}]
      /\ frames'[Len(frames) + 1] = c
  <2>1. frames' = Append(Advanced(f), c) /\ TypeOK
    BY DEF Typed
  <2>2. Len(frames) \in Nat \ {0} /\ Inner \in Frame
    BY <1>1, <2>1, OuterEffect
  <2> HIDE DEF c
  <2> QED BY <1>1, <2>1, <2>2, PushedEffect
<1>3. frames'[Len(frames)].node = frames[Len(frames)].node
  BY <1>2 DEF Inner, Frame
<1>4. c.node = Arrival(f)
  BY DEF Call
<1>5. \A i \in 1..Len(frames) : i \in 1..(Len(frames) - 1) \/ i = Len(frames)
  BY <1>2
<1> HIDE DEF c
<1> QED BY <1>2, <1>3, <1>4, <1>5

LEMMA NodesSkipEdge ==
  ASSUME Typed, SkipEdge
  PROVE  /\ Len(frames) \in Nat \ {0}
         /\ Len(frames') = Len(frames)
         /\ \A i \in 1..Len(frames) : frames'[i].node = frames[i].node
<1>1. PICK f \in FirstOf(Inner.edges) : frames' = Advanced(f)
  BY DEF SkipEdge
<1>2. phase = "search" /\ frames # <<>>
  BY DEF SkipEdge, Typed, Shape
<1>3. /\ Len(frames') = Len(frames) /\ Len(frames) \in Nat \ {0} /\ Inner \in Frame
      /\ \A i \in 1..(Len(frames) - 1) : frames'[i] = frames[i]
      /\ frames'[Len(frames)] = [Inner EXCEPT !.edges = @ \ {f}]
  BY <1>1, <1>2, AdvancedEffect, OuterEffect DEF Typed
<1>4. frames'[Len(frames)].node = frames[Len(frames)].node
  BY <1>3 DEF Inner, Frame
<1>5. \A i \in 1..Len(frames) : i \in 1..(Len(frames) - 1) \/ i = Len(frames)
  BY <1>3
<1> QED BY <1>3, <1>4, <1>5

LEMMA FramesLeave ==
  ASSUME Typed, Leave
  PROVE  /\ Len(frames) \in Nat \ {0} /\ frames # <<>>
         /\ frames' \in Seq(Frame)
         /\ Len(frames') = Len(frames) - 1
         /\ \A i \in 1..(Len(frames) - 1) : frames'[i] = frames[i]
         /\ Inner = frames[Len(frames)] /\ Inner.node \in Node
         /\ query \in Queries
<1>1. frames # <<>> /\ query \in Queries
  BY DEF Leave, Typed, Shape
<1> QED BY <1>1, OuterEffect DEF Leave, Typed, Inner, Frame

LEMMA TypedDescend ==
  ASSUME Typed, Descend
  PROVE  Typed'
<1>1. PICK f \in FirstOf(Inner.edges) :
        /\ status' = StatusOnDiscover(query.op, Arrival(f))
        /\ tour' = TourOnDiscover(query.op, Arrival(f))
        /\ trail' = TrailOnDiscover(query.op, Arrival(f))
        /\ pool' = pool \cup CreatedOnDiscover(query.op, Arrival(f)) \cup ChildNodes(Arrival(f))
        /\ frames' = Append(Advanced(f), Call(Arrival(f), LimitBelow))
  BY DEF Descend
<1>2. phase = "search" /\ UNCHANGED <<db, query, phase, paths, answers>>
  BY DEF Descend
<1> DEFINE c == Call(Arrival(f), LimitBelow)
<1>3. /\ frames # <<>> /\ Arrival(f) \in Node /\ LimitBelow \in Nat
      /\ LimitBelow + Len(frames) + 1 = DepthLimit(query) + 1 /\ query \in Queries
  BY <1>2, EdgeType
<1>4. c \in Frame
  BY <1>3, CallType DEF Typed
<1>5. /\ frames' \in Seq(Frame) /\ Len(frames') = Len(frames) + 1 /\ Len(frames) \in Nat \ {0}
      /\ \A i \in 1..(Len(frames) - 1) : frames'[i] = frames[i]
      /\ frames'[Len(frames)] = [Inner EXCEPT !.edges = @ \ {f}]
      /\ frames'[Len(frames) + 1] = c
  <2>1. frames' = Append(Advanced(f), c) /\ TypeOK
    BY <1>1 DEF Typed
  <2>2. Len(frames) \in Nat \ {0}
    BY <1>3, <2>1, OuterEffect
  <2> HIDE DEF c
  <2> QED BY <1>3, <1>4, <2>1, <2>2, PushedEffect
<1>6. status' \in [Node -> Status]
  BY <1>1, <1>3, StatusType DEF Typed, TypeOK
<1>7. tour' \in Seq(Airport) /\ trail' \in Seq(Node)
  <2>1. Arrival(f).airport \in Airport /\ tour \in Seq(Airport) /\ trail \in Seq(Node)
    BY <1>3 DEF Typed, TypeOK, Node
  <2> QED BY <1>1, <1>3, <2>1 DEF TourOnDiscover, TrailOnDiscover
<1>8. pool' \subseteq Node
  <2>1. CreatedOnDiscover(query.op, Arrival(f)) \subseteq Node /\ ChildNodes(Arrival(f)) \subseteq Node
    BY EdgesType DEF Typed
  <2> QED BY <1>1, <2>1 DEF Typed, TypeOK
<1>9. TypeOK'
  BY <1>2, <1>5, <1>6, <1>7, <1>8 DEF Typed, TypeOK
<1>10. \A i \in 1..Len(frames') :
        /\ frames'[i].edges \subseteq DiscreteChildrenOf(frames'[i].node)
        /\ frames'[i].edges # {} => frames'[i].limit > 0
        /\ frames'[i].limit + i = DepthLimit(query) + 1
  <2> SUFFICES ASSUME NEW i \in 1..Len(frames')
               PROVE  /\ frames'[i].edges \subseteq DiscreteChildrenOf(frames'[i].node)
                      /\ frames'[i].edges # {} => frames'[i].limit > 0
                      /\ frames'[i].limit + i = DepthLimit(query) + 1
    OBVIOUS
  <2>1. CASE i \in 1..(Len(frames) - 1)
    <3>1. frames'[i] = frames[i] /\ i \in 1..Len(frames)
      BY <1>5, <2>1
    <3> QED BY <3>1 DEF Typed, Shape
  <2>2. CASE i = Len(frames)
    <3>1. /\ Inner.edges \subseteq DiscreteChildrenOf(Inner.node)
          /\ Inner.edges # {} => Inner.limit > 0
          /\ Inner.limit + i = DepthLimit(query) + 1
          /\ Inner \in Frame
      BY <1>3, <1>5, <2>2, OuterEffect DEF Inner, Typed, Shape
    <3>2. /\ frames'[i].edges = Inner.edges \ {f}
          /\ frames'[i].node = Inner.node /\ frames'[i].limit = Inner.limit
      BY <1>5, <2>2, <3>1 DEF Frame
    <3> QED BY <3>1, <3>2
  <2>3. CASE i = Len(frames) + 1
    BY <1>3, <1>5, <2>3 DEF Call
  <2> QED BY <1>5, <2>1, <2>2, <2>3
<1>11. Shape'
  BY <1>2, <1>5, <1>10 DEF Typed, Shape, DiscreteChildrenOf, DepthLimit
<1>12. TrailIsCallStack'
  <2> SUFFICES ASSUME query.op = "all_paths" PROVE TrailIsCallStack'
    BY <1>2 DEF TrailIsCallStack
  <2>1. trail' = Append(trail, Arrival(f)) /\ trail \in Seq(Node)
    BY <1>1 DEF TrailOnDiscover, Typed, TypeOK
  <2>2. Len(trail) = Len(frames) /\ \A i \in 1..Len(frames) : trail[i] = frames[i].node
    BY <1>2 DEF Typed, TrailIsCallStack
  <2>3. /\ Len(trail') = Len(frames) + 1
        /\ \A i \in 1..Len(frames) : trail'[i] = frames[i].node
        /\ trail'[Len(frames) + 1] = Arrival(f)
    BY <1>3, <2>1, <2>2
  <2>4. /\ Len(frames') = Len(frames) + 1
        /\ \A i \in 1..Len(frames) : frames'[i].node = frames[i].node
        /\ frames'[Len(frames) + 1].node = Arrival(f)
    BY <1>1, <1>2, NodesDescend
  <2>5. \A i \in 1..Len(trail') : i \in 1..Len(frames) \/ i = Len(frames) + 1
    BY <1>5, <2>3
  <2> QED BY <2>3, <2>4, <2>5 DEF TrailIsCallStack
<1> QED BY <1>9, <1>11, <1>12 DEF Typed

LEMMA TypedSkipEdge ==
  ASSUME Typed, SkipEdge
  PROVE  Typed'
<1>1. PICK f \in FirstOf(Inner.edges) : frames' = Advanced(f)
  BY DEF SkipEdge
<1>2. phase = "search" /\ UNCHANGED <<db, query, phase, pool, status, tour, trail, paths, answers>>
  BY DEF SkipEdge
<1>3. frames # <<>>
  BY <1>2 DEF Typed, Shape
<1>4. /\ frames' \in Seq(Frame) /\ Len(frames') = Len(frames) /\ Len(frames) \in Nat \ {0}
      /\ \A i \in 1..(Len(frames) - 1) : frames'[i] = frames[i]
      /\ frames'[Len(frames)] = [Inner EXCEPT !.edges = @ \ {f}]
  BY <1>1, <1>3, AdvancedEffect, OuterEffect DEF Typed
<1>5. TypeOK'
  BY <1>2, <1>4 DEF Typed, TypeOK
<1>6. \A i \in 1..Len(frames') :
        /\ frames'[i].edges \subseteq DiscreteChildrenOf(frames'[i].node)
        /\ frames'[i].edges # {} => frames'[i].limit > 0
        /\ frames'[i].limit + i = DepthLimit(query) + 1
  <2> SUFFICES ASSUME NEW i \in 1..Len(frames')
               PROVE  /\ frames'[i].edges \subseteq DiscreteChildrenOf(frames'[i].node)
                      /\ frames'[i].edges # {} => frames'[i].limit > 0
                      /\ frames'[i].limit + i = DepthLimit(query) + 1
    OBVIOUS
  <2>1. CASE i \in 1..(Len(frames) - 1)
    <3>1. frames'[i] = frames[i] /\ i \in 1..Len(frames)
      BY <1>4, <2>1
    <3> QED BY <3>1 DEF Typed, Shape
  <2>2. CASE i = Len(frames)
    <3>1. /\ Inner.edges \subseteq DiscreteChildrenOf(Inner.node)
          /\ Inner.edges # {} => Inner.limit > 0
          /\ Inner.limit + i = DepthLimit(query) + 1
          /\ Inner \in Frame
      BY <1>3, <1>4, <2>2, OuterEffect DEF Inner, Typed, Shape
    <3>2. /\ frames'[i].edges = Inner.edges \ {f}
          /\ frames'[i].node = Inner.node /\ frames'[i].limit = Inner.limit
      BY <1>4, <2>2, <3>1 DEF Frame
    <3> QED BY <3>1, <3>2
  <2> QED BY <1>4, <2>1, <2>2
<1>7. Shape'
  BY <1>2, <1>3, <1>4, <1>6 DEF Typed, Shape, DiscreteChildrenOf, DepthLimit
<1>8. TrailIsCallStack'
  BY <1>2, NodesSkipEdge DEF Typed, TrailIsCallStack
<1> QED BY <1>5, <1>7, <1>8 DEF Typed

LEMMA FrontEffect ==
  ASSUME NEW S, NEW s \in Seq(S), s # <<>>
  PROVE  /\ Front(s) \in Seq(S)
         /\ Len(Front(s)) = Len(s) - 1
         /\ \A i \in 1..(Len(s) - 1) : Front(s)[i] = s[i]
<1> DEFINE n == Len(s) - 1
<1>1. n \in Nat /\ \A i \in 1..n : s[i] \in S
  OBVIOUS
<1>2. Front(s) = SubSeq(s, 1, n)
  BY DEF Front
<1> HIDE DEF n
<1>3. /\ SubSeq(s, 1, n) \in Seq(S)
      /\ Len(SubSeq(s, 1, n)) = IF 1 <= n THEN n - 1 + 1 ELSE 0
      /\ \A i \in 1..(n - 1 + 1) : SubSeq(s, 1, n)[i] = s[1 + i - 1]
  BY <1>1, SubSeqProperties
<1>4. /\ Front(s) \in Seq(S)
      /\ Len(Front(s)) = n
      /\ \A i \in 1..n : Front(s)[i] = s[i]
  <2>1. \A i \in 1..n : 1 + i - 1 = i
    BY <1>1
  <2> QED BY <1>1, <1>2, <1>3, <2>1
<1> QED BY <1>4 DEF n

LEMMA TypedLeave ==
  ASSUME Typed, Leave
  PROVE  Typed'
<1>1. /\ phase = "search" /\ Outer = frames' /\ frames # <<>>
      /\ Len(frames) \in Nat \ {0} /\ frames' \in Seq(Frame)
      /\ Len(frames') = Len(frames) - 1
      /\ \A i \in 1..(Len(frames) - 1) : frames'[i] = frames[i]
      /\ Inner.node \in Node /\ query \in Queries
      /\ UNCHANGED <<db, query, pool, tour, answers>>
  BY FramesLeave DEF Leave
<1>2. status' \in [Node -> Status]
  BY <1>1, StatusType DEF Leave, Typed, TypeOK
<1>3. phase' \in Phases /\ phase' # "idle" /\ (phase' = "search" <=> frames' # <<>>)
  BY <1>1 DEF Leave, Phases
<1>4. trail \in Seq(Node) /\ paths \in Seq(Seq(Node))
  BY DEF Typed, TypeOK
<1>5. Len(answers') <= Len(paths')
  <2>1. Len(paths') = Len(paths) + 1 \/ paths' = paths
    BY <1>4 DEF Leave
  <2>2. Len(paths) \in Nat /\ Len(answers) \in Nat /\ answers' = answers /\ Len(answers) <= Len(paths)
    BY <1>1 DEF Typed, TypeOK, Shape
  <2> QED BY <2>1, <2>2
<1>6. CASE query.op = "all_paths"
  <2>1. trail # <<>> /\ Len(trail) = Len(frames)
        /\ \A i \in 1..Len(frames) : trail[i] = frames[i].node
    BY <1>1, <1>4, <1>6 DEF Typed, TrailIsCallStack
  <2>2. trail' = Front(trail)
    BY <1>6 DEF Leave
  <2>3. /\ trail' \in Seq(Node) /\ Len(trail') = Len(trail) - 1
        /\ \A i \in 1..(Len(trail) - 1) : trail'[i] = trail[i]
    BY <1>4, <2>1, <2>2, FrontEffect
  <2>4. paths' \in Seq(Seq(Node))
    <3>1. paths' = Append(paths, trail) \/ paths' = paths
      BY <1>6 DEF Leave
    <3> QED BY <1>4, <3>1
  <2>5. TrailIsCallStack'
    <3>1. Len(trail') = Len(frames')
      BY <1>1, <2>1, <2>3
    <3>2. ASSUME NEW i \in 1..Len(trail') PROVE trail'[i] = frames'[i].node
      <4>1. i \in 1..(Len(frames) - 1) /\ i \in 1..Len(frames) /\ i \in 1..(Len(trail) - 1)
        BY <1>1, <2>1, <2>3
      <4> QED BY <1>1, <2>1, <2>3, <4>1
    <3> QED BY <3>1, <3>2 DEF TrailIsCallStack
  <2>6. TypeOK'
    BY <1>1, <1>2, <1>3, <2>3, <2>4 DEF Typed, TypeOK
  <2>7. Shape'
    BY <1>1, <1>3, <1>5 DEF Typed, Shape, DiscreteChildrenOf, DepthLimit
  <2> QED BY <2>5, <2>6, <2>7 DEF Typed
<1>7. CASE query.op # "all_paths"
  <2>1. UNCHANGED <<paths, trail>>
    BY <1>7 DEF Leave
  <2>2. TypeOK'
    BY <1>1, <1>2, <1>3, <2>1 DEF Typed, TypeOK
  <2>3. Shape'
    BY <1>1, <1>3, <1>5 DEF Typed, Shape, DiscreteChildrenOf, DepthLimit
  <2>4. TrailIsCallStack'
    BY <1>1, <1>7 DEF TrailIsCallStack
  <2> QED BY <2>2, <2>3, <2>4 DEF Typed
<1> QED BY <1>6, <1>7

LEMMA TypedStep == Typed /\ [Next]_vars => Typed'
<1> SUFFICES ASSUME Typed, [Next]_vars PROVE Typed'
  OBVIOUS
<1>1. ASSUME NEW q \in Queries, Ask(q) PROVE Typed'
  BY <1>1, TypedAsk
<1>2. ASSUME NEW q \in Queries, AskOutOfRange(q) PROVE Typed'
  <2>1. /\ Unused /\ phase' = "error" /\ query' = q
        /\ UNCHANGED <<db, pool, status, tour, frames, trail, paths, answers>>
    BY <1>2 DEF AskOutOfRange, Typed, Shape
  <2>2. frames' = <<>> /\ Len(frames') = 0
    BY <2>1 DEF Unused
  <2>3. TypeOK'
    BY <2>1, QueryType DEF Typed, TypeOK, Phases
  <2>4. Shape' /\ TrailIsCallStack'
    BY <2>1, <2>2 DEF Shape, TrailIsCallStack, Unused
  <2> QED BY <2>3, <2>4 DEF Typed
<1>3. CASE Descend
  BY <1>3, TypedDescend
<1>4. CASE SkipEdge
  BY <1>4, TypedSkipEdge
<1>5. CASE Leave
  BY <1>5, TypedLeave
<1>6. CASE Convert
  <2>1. /\ phase = "convert" /\ phase' \in {"convert", "answered", "error"}
        /\ UNCHANGED <<db, query, pool, status, tour, frames, trail, paths>>
    BY <1>6 DEF Convert
  <2>2. answers' # answers => Len(answers) + 1 \in 1..Len(paths)
    <3>1. Len(answers) \in Nat /\ Len(paths) \in Nat /\ Len(answers) <= Len(paths)
      BY DEF Typed, TypeOK, Shape
    <3>2. answers' # answers => Len(answers) # Len(paths)
      BY <1>6 DEF Convert
    <3> QED BY <3>1, <3>2
  <2>3. Len(answers') <= Len(paths')
    <3>1. answers' = answers \/ answers' = Append(answers, ConvertPath(paths[Len(answers) + 1]))
      BY <1>6 DEF Convert
    <3>2. answers \in Seq(Seq(Flight)) /\ Len(answers) <= Len(paths) /\ paths \in Seq(Seq(Node))
      BY DEF Typed, TypeOK, Shape
    <3>3. CASE answers' = answers
      BY <2>1, <3>2, <3>3
    <3>4. CASE answers' # answers
      <4>1. Len(answers') = Len(answers) + 1
        BY <3>1, <3>2, <3>4
      <4> QED BY <2>1, <2>2, <3>2, <3>4, <4>1
    <3> QED BY <3>3, <3>4
  <2>4. answers' \in Seq(Seq(Flight))
    <3>1. answers \in Seq(Seq(Flight)) /\ paths \in Seq(Seq(Node))
      BY DEF Typed, TypeOK
    <3> DEFINE next == paths[Len(answers) + 1]
    <3>2. CASE answers' = answers
      BY <3>1, <3>2
    <3>3. CASE answers' # answers
      <4>1. Convertible(next) /\ answers' = Append(answers, ConvertPath(next))
        BY <1>6, <3>3 DEF Convert
      <4> QED BY <3>1, <2>2, <4>1, ConvertType DEF Typed
    <3> QED BY <3>2, <3>3
  <2>5. TypeOK'
    BY <2>1, <2>4 DEF Typed, TypeOK, Phases
  <2>6. Shape' /\ TrailIsCallStack'
    BY <2>1, <2>3 DEF Typed, Shape, TrailIsCallStack, DiscreteChildrenOf, DepthLimit
  <2> QED BY <2>5, <2>6 DEF Typed
<1>7. CASE Return
  <2>1. Unused' /\ phase' = "idle" /\ db' = db
    BY <1>7 DEF Return, Unused, Undiscovered
  <2>2. TypeOK'
    BY <2>1 DEF Typed, TypeOK, Unused, Undiscovered, Status, Phases
  <2>3. frames' = <<>> /\ Len(frames') = 0
    BY <2>1 DEF Unused
  <2>4. Shape' /\ TrailIsCallStack'
    BY <2>1, <2>3 DEF Shape, TrailIsCallStack, Unused
  <2> QED BY <2>2, <2>4 DEF Typed
<1>8. CASE UNCHANGED vars
  BY <1>8 DEF vars, Typed, TypeOK, Shape, Unused, TrailIsCallStack, DiscreteChildrenOf, DepthLimit
<1> QED BY <1>1, <1>2, <1>3, <1>4, <1>5, <1>6, <1>7, <1>8 DEF Next, Step

(* The types of the variables, in every state of every session; the depth  *)
(* limit of a call never falls below zero.                                 *)
THEOREM Typing == Spec => []TypeOK
<1>1. Typed => TypeOK
  BY DEF Typed
<1> QED BY <1>1, TypedInit, TypedStep, PTL DEF Spec

(* The list that the listeners of all_paths keep is the stack of calls,    *)
(* although nothing but the order of the events ties the one to the other. *)
THEOREM TrailFollowsCalls == Spec => []TrailIsCallStack
<1>1. Typed => TrailIsCallStack
  BY DEF Typed
<1> QED BY <1>1, TypedInit, TypedStep, PTL DEF Spec

-----------------------------------------------------------------------------
(***************************************************************************)
(* The asserts of the recursion, and the tour.  The recursion calls a      *)
(* child that is undiscovered; in a tour that hangs on the airports of the *)
(* calls in progress being different, and that one on the nodes of an      *)
(* airport having one status.                                              *)
(***************************************************************************)

TourInv ==
  query \in Queries /\ Touring =>
    /\ OneStatusPerAirport
    /\ TourRepeatsNothing
    /\ phase # "error" => status[query.from] # "UNDISCOVERED"
    /\ \A n \in Callers : /\ n \in NodesFrom(query.from)
                          /\ n.airport = query.from.airport => n = query.from
    /\ \A i, j \in 1..Len(frames) :
         frames[i].node.airport = frames[j].node.airport => i = j
    /\ \A i \in 1..Len(tour) :
         /\ \A n \in NodesFrom(query.from) : n.airport = tour[i] => status[n] # "UNDISCOVERED"
         /\ \E n \in Reachable(query.from) : n.airport = tour[i]

CallersReachable == \A n \in Callers : n \in Reachable(query.from)

SearchInv == Typed /\ AssertsHold /\ TourInv /\ CallersReachable

(* The steps that leave the statuses, the tour and the stack's nodes alone. *)
LEMMA SearchOther ==
  ASSUME SearchInv, Typed', UNCHANGED <<db, query, status, tour>>,
         Len(frames') = Len(frames),
         \A i \in 1..Len(frames) : frames'[i].node = frames[i].node,
         phase' = "error" \/ phase # "error"
  PROVE  SearchInv'
<1>1. Callers' = Callers
  BY DEF Callers
<1>2. AssertsHold'
  BY <1>1 DEF SearchInv, AssertsHold
<1>3. CallersReachable'
  BY <1>1, ReachableSame DEF SearchInv, CallersReachable
<1>4. OneStatusPerAirport <=> OneStatusPerAirport'
  BY DEF OneStatusPerAirport, Arrival
<1>5. TourInv'
  <2> SUFFICES ASSUME query \in Queries, Touring PROVE TourInv'
    BY DEF TourInv, Touring
  <2>1. TourInv!2
    BY DEF SearchInv, TourInv
  <2> QED BY <1>1, <1>4, <2>1, ReachableSame DEF TourInv, TourRepeatsNothing
<1> QED BY <1>2, <1>3, <1>5 DEF SearchInv

LEMMA CallersType == ASSUME TypeOK PROVE Callers \subseteq Node
<1>1. \A i \in 1..Len(frames) : frames[i] \in Frame
  BY DEF TypeOK
<1>2. \A i \in 1..Len(frames) : frames[i].node \in Node
  BY <1>1 DEF Frame
<1> QED BY <1>2 DEF Callers

LEMMA SearchInit == Init => SearchInv
<1> SUFFICES ASSUME Init PROVE SearchInv
  OBVIOUS
<1>1. query \notin Queries /\ frames = <<>>
  BY QueriesAssumption, NullAssumption DEF Init, Unused
<1>2. Callers = {} /\ Len(frames) = 0
  BY <1>1 DEF Callers
<1> QED BY <1>1, <1>2, TypedInit DEF SearchInv, AssertsHold, TourInv, CallersReachable

(* A query starts: its airport is discovered and nothing else.             *)
LEMMA SearchAsk ==
  ASSUME SearchInv, Typed', NEW q \in Queries, Ask(q)
  PROVE  SearchInv'
<1> DEFINE K == NodesFrom(q.from)
<1>1. /\ q.from \in Node /\ query' = q /\ phase' = "search" /\ db' = db
      /\ frames' = <<Call(q.from, DepthLimit(q))>>
      /\ status' = StatusOnDiscover(q.op, q.from)
      /\ tour' = IF q.op \in TourOps THEN <<q.from.airport>> ELSE <<>>
  <2>1. Unused
    BY DEF Ask, SearchInv, Typed, Shape
  <2> QED BY <2>1, QueryType DEF Ask, Unused, TourOnDiscover
<1>2. Len(frames') = 1 /\ frames'[1].node = q.from /\ \A i \in 1..1 : i = 1
  BY <1>1 DEF Call
<1>3. Callers' = {q.from}
  BY <1>2 DEF Callers
<1>4. \A k \in Node : status[k] = "UNDISCOVERED"
  BY DEF Ask, SearchInv, Typed, Shape, Unused, Undiscovered
<1>5. status'[q.from] = "DISCOVERED"
  BY <1>1, DiscoverEffect DEF SearchInv, Typed, TypeOK
<1>6. AssertsHold'
  BY <1>2, <1>3, <1>5 DEF AssertsHold
<1>7. Reachable(query.from)' = Reachable(q.from)' /\ q.from \in Reachable(q.from)'
  BY <1>1 DEF Reachable, NodesFrom
<1>8. CallersReachable'
  BY <1>1, <1>3, <1>7 DEF CallersReachable
<1>9. TourInv'
  <2> SUFFICES ASSUME q.op \in TourOps PROVE TourInv'
    BY <1>1 DEF TourInv, Touring
  <2>1. K \subseteq Node /\ q.from \in K
    BY <1>1, NodesFromType DEF SearchInv, Typed
  <2>2. \A k \in K : status'[k] = IF k.airport = q.from.airport THEN "DISCOVERED" ELSE "UNDISCOVERED"
    <3> SUFFICES ASSUME NEW k \in K
                 PROVE  status'[k] = IF k.airport = q.from.airport THEN "DISCOVERED" ELSE "UNDISCOVERED"
      OBVIOUS
    <3>1. k \in Node /\ status[k] = "UNDISCOVERED"
      BY <1>4, <2>1
    <3>2. k = q.from \/ \E f \in db : k = Arrival(f)
      BY DEF NodesFrom
    <3>3. k \in ArrivalsAt(q.from.airport) <=> k.airport = q.from.airport /\ \E f \in db : k = Arrival(f)
      BY ArrivalsAtType
    <3> QED BY <1>1, <3>1, <3>2, <3>3, DiscoverEffect DEF SearchInv, Typed, TypeOK
  <2>3. NodesFrom(query.from)' = K
    BY <1>1 DEF NodesFrom, Arrival
  <2>4. OneStatusPerAirport'
    BY <1>1, <2>2, <2>3 DEF OneStatusPerAirport, NodesFrom
  <2>5. tour' = <<q.from.airport>> /\ Len(tour') = 1 /\ tour'[1] = q.from.airport
    BY <1>1
  <2>6. TourRepeatsNothing'
    BY <1>2, <2>5 DEF TourRepeatsNothing
  <2>7. \A i \in 1..Len(tour') :
          /\ \A n \in K : n.airport = tour'[i] => status'[n] # "UNDISCOVERED"
          /\ \E n \in Reachable(query.from)' : n.airport = tour'[i]
    BY <1>2, <1>7, <2>2, <2>5
  <2>8. status'[q.from] # "UNDISCOVERED"
    BY <1>5
  <2>9. \A i, j \in 1..Len(frames') : i = j
    BY <1>2
  <2> QED BY <1>1, <1>3, <2>1, <2>3, <2>4, <2>6, <2>7, <2>8, <2>9 DEF TourInv
<1> QED BY <1>6, <1>8, <1>9 DEF SearchInv

(* A child is called.  Its airport has no discovered node, hence no call   *)
(* in progress, and is not listed.                                         *)
LEMMA SearchDescend ==
  ASSUME SearchInv, Typed', Descend
  PROVE  SearchInv'
<1> DEFINE K == NodesFrom(query.from)
           len == Len(frames)
<1>1. PICK f \in FirstOf(Inner.edges) :
        /\ Fresh(Arrival(f))
        /\ status' = StatusOnDiscover(query.op, Arrival(f))
        /\ tour' = TourOnDiscover(query.op, Arrival(f))
        /\ frames' = Append(Advanced(f), Call(Arrival(f), LimitBelow))
  BY DEF Descend
<1> DEFINE child == Arrival(f)
<1>2. phase = "search" /\ UNCHANGED <<db, query, phase>>
  BY DEF Descend
<1>3. /\ query \in Queries /\ query.from \in Node /\ frames # <<>>
      /\ f \in db /\ child \in Node /\ Catches(Inner.node, f)
  BY <1>2, EdgeType, QueryType DEF SearchInv
<1>4. /\ len \in Nat \ {0} /\ Len(frames') = len + 1
      /\ \A i \in 1..len : frames'[i].node = frames[i].node
      /\ frames'[len + 1].node = child
  BY <1>1, <1>2, NodesDescend DEF SearchInv
<1>5. \A i \in 1..(len + 1) : i \in 1..len \/ i = len + 1
  BY <1>4
<1>6. Callers' = Callers \cup {child}
  <2>1. 1..len \subseteq 1..(len + 1) /\ len + 1 \in 1..(len + 1)
    BY <1>4
  <2> HIDE DEF child, len
  <2>2. Callers' = {frames'[i].node : i \in 1..(len + 1)} /\ Callers = {frames[i].node : i \in 1..len}
    BY <1>4 DEF Callers, len
  <2> QED BY <1>4, <1>5, <2>1, <2>2
<1>7. status[child] = "UNDISCOVERED" /\ child \notin Callers
  BY <1>1 DEF Fresh, SearchInv, AssertsHold
<1>8. Callers \subseteq Node
  BY CallersType DEF SearchInv, Typed
<1>9. \A n \in Callers' : status'[n] = "DISCOVERED"
  BY <1>1, <1>3, <1>6, <1>8, DiscoverEffect DEF SearchInv, Typed, AssertsHold, TypeOK
<1>10. \A i \in 1..len : frames[i].node \in Callers /\ frames[i].node # child
  BY <1>7 DEF Callers
<1>11. AssertsHold'
  <2>1. ASSUME NEW i \in 1..(len + 1), NEW j \in 1..(len + 1), frames'[i].node = frames'[j].node
        PROVE  i = j
    BY <1>4, <1>5, <1>10, <2>1 DEF SearchInv, AssertsHold
  <2> QED BY <1>4, <1>9, <2>1 DEF AssertsHold
<1>12. /\ child \in Reachable(query.from)
       /\ Reachable(query.from)' = Reachable(query.from)
       /\ NodesFrom(query.from)' = K
  <2>1. Inner.node \in Callers
    BY <1>4 DEF Inner, Callers
  <2>2. Inner.node \in Reachable(query.from)
    BY <2>1 DEF SearchInv, CallersReachable
  <2> QED BY <1>2, <1>3, <2>2, ReachableStep, ReachableSame
<1>13. CallersReachable'
  BY <1>2, <1>6, <1>12 DEF SearchInv, CallersReachable
<1>14. CASE query.op \notin TourOps
  BY <1>2, <1>11, <1>13, <1>14 DEF SearchInv, TourInv, Touring
<1>15. CASE query.op \in TourOps
  <2>1. /\ OneStatusPerAirport
        /\ TourRepeatsNothing
        /\ status[query.from] # "UNDISCOVERED"
        /\ \A n \in Callers : /\ n \in K
                              /\ n.airport = query.from.airport => n = query.from
        /\ \A i, j \in 1..len : frames[i].node.airport = frames[j].node.airport => i = j
        /\ \A i \in 1..Len(tour) :
             /\ \A n \in K : n.airport = tour[i] => status[n] # "UNDISCOVERED"
             /\ \E n \in Reachable(query.from) : n.airport = tour[i]
    BY <1>2, <1>3, <1>15 DEF SearchInv, TourInv, Touring
  <2>2. K \subseteq Node /\ query.from \in K /\ child \in K
    BY <1>3, NodesFromType DEF SearchInv, Typed, NodesFrom
  <2>3. \A n \in K : n.airport = child.airport => status[n] = "UNDISCOVERED"
    BY <1>7, <2>1, <2>2 DEF OneStatusPerAirport, NodesFrom
  <2>4. child.airport # query.from.airport
    BY <2>1, <2>2, <2>3
  <2>5. \A n \in K : status'[n] = IF n.airport = child.airport THEN "DISCOVERED" ELSE status[n]
    <3> SUFFICES ASSUME NEW n \in K
                 PROVE  status'[n] = IF n.airport = child.airport THEN "DISCOVERED" ELSE status[n]
      OBVIOUS
    <3>1. n = query.from \/ \E g \in db : n = Arrival(g)
      BY DEF NodesFrom
    <3>2. n \in ArrivalsAt(child.airport) <=> n.airport = child.airport /\ \E g \in db : n = Arrival(g)
      BY ArrivalsAtType
    <3>3. n \in Node
      BY <2>2
    <3> QED BY <1>1, <1>3, <1>15, <2>3, <2>4, <3>1, <3>2, <3>3, DiscoverEffect DEF SearchInv, Typed, TypeOK
  <2>6. OneStatusPerAirport'
    BY <1>2, <1>12, <2>1, <2>5 DEF OneStatusPerAirport, NodesFrom
  <2>7. status'[query.from] # "UNDISCOVERED"
    BY <2>1, <2>2, <2>4, <2>5
  <2>8. \A n \in Callers' : n \in K /\ (n.airport = query.from.airport => n = query.from)
    BY <1>6, <2>1, <2>2, <2>4
  <2>9. ASSUME NEW i \in 1..(len + 1), NEW j \in 1..(len + 1),
               frames'[i].node.airport = frames'[j].node.airport
        PROVE  i = j
    <3>1. \A n \in Callers : n.airport # child.airport
      BY <2>1, <2>3 DEF SearchInv, AssertsHold
    <3> QED BY <1>4, <1>5, <1>10, <2>1, <2>9, <3>1
  <2>10. tour' = Append(tour, child.airport) /\ tour \in Seq(Airport) /\ child.airport \in Airport
    BY <1>1, <1>3, <1>15 DEF TourOnDiscover, SearchInv, Typed, TypeOK, Node
  <2>11. \A i \in 1..Len(tour') : \/ i \in 1..Len(tour) /\ tour'[i] = tour[i]
                                  \/ i = Len(tour) + 1 /\ tour'[i] = child.airport
    BY <2>10
  <2>12. \A i \in 1..Len(tour') :
           /\ \A n \in K : n.airport = tour'[i] => status'[n] # "UNDISCOVERED"
           /\ \E n \in Reachable(query.from) : n.airport = tour'[i]
    BY <1>12, <2>1, <2>5, <2>11
  <2>13. \A i \in 1..Len(tour) : tour[i] # child.airport
    BY <1>7, <2>1, <2>2
  <2>14. TourRepeatsNothing'
    BY <2>1, <2>11, <2>13 DEF TourRepeatsNothing
  <2>15. TourInv'
    BY <1>2, <1>4, <1>12, <2>6, <2>7, <2>8, <2>9, <2>12, <2>14 DEF TourInv
  <2> QED BY <1>11, <1>13, <2>15 DEF SearchInv
<1> QED BY <1>14, <1>15

(* A call returns and its node is visited.  In a tour this visits the      *)
(* nodes of its airport, where no other call is in progress.               *)
LEMMA SearchLeave ==
  ASSUME SearchInv, Typed', Leave
  PROVE  SearchInv'
<1> DEFINE K == NodesFrom(query.from)
           len == Len(frames)
           n == Inner.node
<1>1. /\ len \in Nat \ {0} /\ Len(frames') = len - 1
      /\ \A i \in 1..(len - 1) : frames'[i] = frames[i]
      /\ n = frames[len].node /\ n \in Node /\ query \in Queries /\ query.from \in Node
  BY FramesLeave, QueryType DEF SearchInv
<1>2. /\ phase = "search" /\ phase' # "error"
      /\ status' = StatusOnVisit(query.op, n)
      /\ UNCHANGED <<db, query, tour>>
  BY DEF Leave
<1>3. /\ \A i \in 1..(len - 1) : i \in 1..len /\ i # len
      /\ len \in 1..len
  BY <1>1
<1>4. Callers' \subseteq Callers /\ n \notin Callers' /\ n \in Callers /\ Callers \subseteq Node
  <2>1. Callers' = {frames'[i].node : i \in 1..(len - 1)} /\ Callers = {frames[i].node : i \in 1..len}
    BY <1>1 DEF Callers
  <2>2. \A i \in 1..(len - 1) : frames'[i].node = frames[i].node /\ frames[i].node # n
    BY <1>1, <1>3 DEF SearchInv, AssertsHold
  <2> HIDE DEF n, len
  <2>3. n = frames[len].node
    BY <1>1
  <2> QED BY <1>3, <2>1, <2>2, <2>3, CallersType DEF SearchInv, Typed
<1>5. \A i, j \in 1..(len - 1) : frames'[i].node = frames'[j].node => i = j
  BY <1>1, <1>3 DEF SearchInv, AssertsHold
<1>6. Reachable(query.from)' = Reachable(query.from) /\ NodesFrom(query.from)' = K
  BY <1>2, ReachableSame
<1>7. CallersReachable'
  BY <1>2, <1>4, <1>6 DEF SearchInv, CallersReachable
<1>8. CASE query.op \notin TourOps
  <2>1. \A k \in Callers' : status'[k] = status[k]
    BY <1>1, <1>2, <1>4, <1>8, VisitEffect DEF SearchInv, Typed, TypeOK
  <2>2. AssertsHold'
    BY <1>1, <1>4, <1>5, <2>1 DEF SearchInv, AssertsHold
  <2> QED BY <1>2, <1>7, <1>8, <2>2 DEF SearchInv, TourInv, Touring
<1>9. CASE query.op \in TourOps
  <2>1. /\ OneStatusPerAirport
        /\ TourRepeatsNothing
        /\ status[query.from] # "UNDISCOVERED"
        /\ \A k \in Callers : /\ k \in K
                              /\ k.airport = query.from.airport => k = query.from
        /\ \A i, j \in 1..len : frames[i].node.airport = frames[j].node.airport => i = j
        /\ \A i \in 1..Len(tour) :
             /\ \A k \in K : k.airport = tour[i] => status[k] # "UNDISCOVERED"
             /\ \E k \in Reachable(query.from) : k.airport = tour[i]
    BY <1>1, <1>2, <1>9 DEF SearchInv, TourInv, Touring
  <2>2. K \subseteq Node /\ query.from \in K
    BY <1>1, NodesFromType DEF SearchInv, Typed
  <2>3. \A k \in K : k.airport = n.airport => status[k] = "DISCOVERED"
    BY <1>4, <2>1 DEF OneStatusPerAirport, NodesFrom, SearchInv, AssertsHold
  <2>4. \A k \in K : status'[k] = IF k.airport = n.airport THEN "VISITED" ELSE status[k]
    <3> SUFFICES ASSUME NEW k \in K
                 PROVE  status'[k] = IF k.airport = n.airport THEN "VISITED" ELSE status[k]
      OBVIOUS
    <3>1. k = query.from \/ \E g \in db : k = Arrival(g)
      BY DEF NodesFrom
    <3>2. k \in ArrivalsAt(n.airport) <=> k.airport = n.airport /\ \E g \in db : k = Arrival(g)
      BY ArrivalsAtType
    <3>3. k \in Node /\ (query.from.airport = n.airport => query.from = n)
      BY <1>4, <2>1, <2>2
    <3> QED BY <1>1, <1>2, <1>9, <2>3, <3>1, <3>2, <3>3, VisitEffect DEF SearchInv, Typed, TypeOK
  <2>5. \A i \in 1..(len - 1) : frames[i].node.airport # n.airport
    BY <1>1, <1>3, <2>1
  <2>6. \A k \in Callers' : k.airport # n.airport
    <3>1. Callers' = {frames[i].node : i \in 1..(len - 1)}
      BY <1>1 DEF Callers
    <3> QED BY <2>5, <3>1
  <2>7. \A k \in Callers' : status'[k] = "DISCOVERED"
    BY <1>4, <2>1, <2>4, <2>6 DEF SearchInv, AssertsHold
  <2>8. AssertsHold'
    BY <1>1, <1>5, <2>7 DEF AssertsHold
  <2>9. OneStatusPerAirport'
    BY <1>2, <2>1, <2>4 DEF OneStatusPerAirport, NodesFrom, Arrival
  <2>10. \A i, j \in 1..(len - 1) : frames'[i].node.airport = frames'[j].node.airport => i = j
    BY <1>1, <1>3, <2>1
  <2>11. TourRepeatsNothing' /\ status'[query.from] # "UNDISCOVERED"
    BY <1>2, <2>1, <2>2, <2>4 DEF TourRepeatsNothing
  <2>12. \A k \in Callers' : k \in K /\ (k.airport = query.from.airport => k = query.from)
    BY <1>4, <2>1
  <2>13. \A i \in 1..Len(tour') :
           /\ \A k \in K : k.airport = tour'[i] => status'[k] # "UNDISCOVERED"
           /\ \E k \in Reachable(query.from) : k.airport = tour'[i]
    <3>1. \A k \in K : status[k] # "UNDISCOVERED" => status'[k] # "UNDISCOVERED"
      BY <2>4
    <3> QED BY <1>2, <2>1, <3>1
  <2>14. TourInv'
    BY <1>1, <1>2, <1>6, <2>9, <2>10, <2>11, <2>12, <2>13 DEF TourInv
  <2> QED BY <1>7, <2>8, <2>14 DEF SearchInv
<1> QED BY <1>8, <1>9

LEMMA SearchStep == SearchInv /\ [Next]_vars => SearchInv'
<1> SUFFICES ASSUME SearchInv, [Next]_vars PROVE SearchInv'
  OBVIOUS
<1>1. Typed'
  BY TypedStep DEF SearchInv
<1>2. ASSUME NEW q \in Queries, Ask(q) PROVE SearchInv'
  BY <1>1, <1>2, SearchAsk
<1>3. ASSUME NEW q \in Queries, AskOutOfRange(q) PROVE SearchInv'
  <2>1. /\ Unused
        /\ query' = q /\ phase' = "error"
        /\ UNCHANGED <<db, status, tour, frames>>
    BY <1>3 DEF AskOutOfRange, SearchInv, Typed, Shape
  <2>2. Callers' = {} /\ tour' = <<>> /\ Len(tour') = 0 /\ Len(frames') = 0
    BY <2>1 DEF Unused, Callers
  <2>3. AssertsHold' /\ CallersReachable' /\ TourRepeatsNothing'
    BY <2>2 DEF AssertsHold, CallersReachable, TourRepeatsNothing
  <2>4. \A k \in Node : status'[k] = "UNDISCOVERED"
    BY <2>1 DEF Unused, Undiscovered
  <2>5. {q.from} \cup {Arrival(f) : f \in db} \subseteq Node
    BY QueryType, NodesFromType DEF SearchInv, Typed, NodesFrom
  <2>6. OneStatusPerAirport'
    BY <2>1, <2>4, <2>5 DEF OneStatusPerAirport, Arrival
  <2>7. TourInv'
    BY <2>1, <2>2, <2>3, <2>6 DEF TourInv
  <2> QED BY <1>1, <2>3, <2>7 DEF SearchInv
<1>4. CASE Descend
  BY <1>1, <1>4, SearchDescend
<1>5. CASE SkipEdge
  <2>1. UNCHANGED <<db, query, phase, status, tour>> /\ phase = "search"
    BY <1>5 DEF SkipEdge
  <2>2. Len(frames') = Len(frames) /\ \A i \in 1..Len(frames) : frames'[i].node = frames[i].node
    BY <1>5, NodesSkipEdge DEF SearchInv
  <2> QED BY <1>1, <2>1, <2>2, SearchOther
<1>6. CASE Leave
  BY <1>1, <1>6, SearchLeave
<1>7. CASE Convert
  BY <1>1, <1>7, SearchOther DEF Convert
<1>8. CASE Return
  <2>1. query' \notin Queries /\ frames' = <<>>
    BY <1>8, QueriesAssumption, NullAssumption DEF Return
  <2>2. Callers' = {} /\ Len(frames') = 0
    BY <2>1 DEF Callers
  <2> QED BY <1>1, <2>1, <2>2 DEF SearchInv, AssertsHold, TourInv, CallersReachable
<1>9. CASE UNCHANGED vars
  <2>1. UNCHANGED <<db, query, phase, status, tour, frames>>
    BY <1>9 DEF vars
  <2>2. Callers' = Callers
    BY <2>1 DEF Callers
  <2>3. AssertsHold' /\ CallersReachable'
    BY <2>1, <2>2, ReachableSame DEF SearchInv, AssertsHold, CallersReachable
  <2>4. TourInv'
    BY <2>1, <2>2, ReachableSame
    DEF SearchInv, TourInv, Touring, TourRepeatsNothing, OneStatusPerAirport, Arrival
  <2> QED BY <1>1, <2>3, <2>4 DEF SearchInv
<1> QED BY <1>2, <1>3, <1>4, <1>5, <1>6, <1>7, <1>8, <1>9 DEF Next, Step

(* The asserts of abstract_node.hpp never fail in the recursion, whatever  *)
(* the query: no listener discovers or visits a node with a call in        *)
(* progress, and no node is called twice.                                  *)
THEOREM AssertsNeverFail == Spec => []AssertsHold
<1>1. SearchInv => AssertsHold
  BY DEF SearchInv
<1> QED BY <1>1, SearchInit, SearchStep, PTL DEF Spec

(* The nodes of an airport agree on its status throughout a tour.          *)
THEOREM TourStaysCoherent == Spec => []TourCoherent
<1>1. SearchInv => TourCoherent
  BY DEF SearchInv, Typed, TypeOK, TourInv, TourCoherent
<1> QED BY <1>1, SearchInit, SearchStep, PTL DEF Spec

(* A depth-first tour lists no airport twice, and only airports that can   *)
(* be reached from the start in time.                                      *)
THEOREM TourSound == Spec => []TourIsSound
<1>1. SearchInv => TourIsSound
  <2> SUFFICES ASSUME SearchInv PROVE TourIsSound
    OBVIOUS
  <2>1. phase = "answered" => query \in Queries
    BY DEF SearchInv, Typed, Shape
  <2> QED BY <2>1 DEF SearchInv, TourInv, TourIsSound
<1> QED BY <1>1, SearchInit, SearchStep, PTL DEF Spec

-----------------------------------------------------------------------------
(***************************************************************************)
(* The stack of calls is a way from the start: each node is an arrival     *)
(* that a traveller at the one below it can catch, and the limit is spent  *)
(* with the flights.  Every recorded path was the stack when its last node *)
(* was visited; no two paths end in one node, because a node is visited    *)
(* once.                                                                   *)
(***************************************************************************)

Linked(m, n) == \E f \in db : Catches(m, f) /\ n = Arrival(f)

IsTrail(p) ==
  /\ p \in Seq(Node)
  /\ Len(p) \in 1..(query.limit + 1)
  /\ p[1] = query.from
  /\ \A i \in 1..(Len(p) - 1) : Linked(p[i], p[i+1])

End(p) == p[Len(p)]

TrailInv == phase = "search" /\ query.op = "all_paths" => IsTrail(trail)

PathsInv ==
  /\ paths # <<>> => query.op = "all_paths" /\ query \in Queries
  /\ \A i \in 1..Len(paths) :
       /\ IsTrail(paths[i])
       /\ AtTarget(End(paths[i]))
       /\ status[End(paths[i])] = "VISITED"
  /\ \A i, j \in 1..Len(paths) : End(paths[i]) = End(paths[j]) => i = j

AnswersInv ==
  /\ \A i \in 1..Len(answers) :
       Convertible(paths[i]) /\ answers[i] = ConvertPath(paths[i])
  /\ Listed => Len(answers) = Len(paths)
  /\ FailsOnlyIfAmbiguous

ListInv == SearchInv /\ TrailInv /\ PathsInv /\ AnswersInv

LEMMA SameQuery ==
  ASSUME UNCHANGED <<db, query>>
  PROVE  /\ \A p : IsTrail(p)' <=> IsTrail(p)
         /\ \A n : AtTarget(n)' <=> AtTarget(n)
         /\ \A p : Convertible(p)' <=> Convertible(p)
         /\ \A p : ConvertPath(p)' = ConvertPath(p)
         /\ InRange(query)' <=> InRange(query)
         /\ UniqueArrivals' <=> UniqueArrivals
<1>1. \A p : IsTrail(p)' <=> IsTrail(p)
  BY DEF IsTrail, Linked, Catches, Arrival
<1>2. \A n : AtTarget(n)' <=> AtTarget(n)
  BY DEF AtTarget, IsContinuousChild
<1>3. \A p, q : RecordsBetween(p, q)' = RecordsBetween(p, q)
  BY DEF RecordsBetween, Arrival
<1>4. \A p : Convertible(p)' <=> Convertible(p)
  BY DEF Convertible, RecordsBetween, Arrival
<1>5. \A p : ConvertPath(p)' = ConvertPath(p)
  BY DEF ConvertPath, RecordsBetween, Arrival
<1>6. InRange(query)' <=> InRange(query)
  BY DEF InRange, EndNodes, Within, Served
<1>7. UniqueArrivals' <=> UniqueArrivals
  BY DEF UniqueArrivals, Arrival
<1> QED BY <1>1, <1>2, <1>4, <1>5, <1>6, <1>7

(* The paths stay what they are as long as their ends stay visited.        *)
LEMMA PathsKept ==
  ASSUME PathsInv, UNCHANGED <<db, query, paths>>,
         \A i \in 1..Len(paths) : status'[End(paths[i])] = "VISITED"
  PROVE  PathsInv'
BY SameQuery DEF PathsInv, End

LEMMA AnswersKept ==
  ASSUME AnswersInv, UNCHANGED <<db, query, paths, answers>>,
         phase' # "error", phase' = "answered" => query.op # "all_paths"
  PROVE  AnswersInv'
BY SameQuery DEF AnswersInv, Listed, FailsOnlyIfAmbiguous

LEMMA EmptyList ==
  ASSUME Unused', phase' # "error"
  PROVE  PathsInv' /\ AnswersInv'
<1>1. paths' = <<>> /\ answers' = <<>> /\ Len(paths') = 0 /\ Len(answers') = 0
  BY DEF Unused
<1> QED BY <1>1 DEF PathsInv, AnswersInv, Listed, FailsOnlyIfAmbiguous

LEMMA ListInit == Init => ListInv
<1> SUFFICES ASSUME Init PROVE ListInv
  OBVIOUS
<1>1. paths = <<>> /\ answers = <<>> /\ Len(paths) = 0 /\ Len(answers) = 0 /\ phase = "idle"
  BY DEF Init, Unused
<1> QED BY <1>1, SearchInit
        DEF ListInv, TrailInv, PathsInv, AnswersInv, Listed, FailsOnlyIfAmbiguous

LEMMA ListAsk ==
  ASSUME ListInv, SearchInv', NEW q \in Queries, Ask(q)
  PROVE  ListInv'
<1>1. /\ paths' = <<>> /\ answers' = <<>> /\ trail = <<>>
      /\ query' = q /\ phase' = "search"
      /\ trail' = TrailOnDiscover(q.op, q.from)
  BY DEF Ask, ListInv, SearchInv, Typed, Shape, Unused
<1>2. q.from \in Node /\ q.limit \in Nat
  BY QueryType
<1>3. TrailInv'
  <2> SUFFICES ASSUME q.op = "all_paths" PROVE TrailInv'
    BY <1>1 DEF TrailInv
  <2>1. trail' = <<q.from>>
    BY <1>1 DEF TrailOnDiscover
  <2>2. trail' \in Seq(Node) /\ Len(trail') = 1 /\ trail'[1] = q.from
    BY <1>2, <2>1
  <2>3. 1 \in 1..(q.limit + 1) /\ 1..(1 - 1) = {}
    BY <1>2
  <2> QED BY <1>1, <2>2, <2>3 DEF TrailInv, IsTrail
<1>4. Len(paths') = 0 /\ Len(answers') = 0
  BY <1>1
<1> QED BY <1>1, <1>3, <1>4
        DEF ListInv, PathsInv, AnswersInv, Listed, FailsOnlyIfAmbiguous

(* A child is called: the way gets longer by a flight, and no visited node *)
(* is discovered again.                                                    *)
LEMMA ListDescend ==
  ASSUME ListInv, SearchInv', Descend
  PROVE  ListInv'
<1>1. PICK f \in FirstOf(Inner.edges) :
        /\ Fresh(Arrival(f))
        /\ status' = StatusOnDiscover(query.op, Arrival(f))
        /\ trail' = TrailOnDiscover(query.op, Arrival(f))
  BY DEF Descend
<1> DEFINE child == Arrival(f)
           len == Len(frames)
<1>2. phase = "search" /\ UNCHANGED <<db, query, phase, paths, answers>>
  BY DEF Descend
<1>3. /\ query \in Queries /\ frames # <<>> /\ f \in db /\ child \in Node
      /\ Catches(Inner.node, f) /\ LimitBelow \in Nat
      /\ LimitBelow + len + 1 = DepthLimit(query) + 1
  BY <1>2, EdgeType DEF ListInv, SearchInv
<1>4. len \in Nat \ {0}
  BY <1>3, OuterEffect DEF ListInv, SearchInv, Typed
<1>5. TrailInv'
  <2> SUFFICES ASSUME query.op = "all_paths" PROVE IsTrail(trail')
    BY <1>2 DEF TrailInv, IsTrail, Linked, Catches, Arrival
  <2>1. IsTrail(trail) /\ Len(trail) = len /\ trail[len] = Inner.node
    BY <1>2, <1>4 DEF ListInv, TrailInv, SearchInv, Typed, TrailIsCallStack, Inner
  <2>2. trail' = Append(trail, child) /\ trail \in Seq(Node)
    BY <1>1, <2>1 DEF TrailOnDiscover, IsTrail
  <2>3. /\ trail' \in Seq(Node) /\ Len(trail') = len + 1
        /\ \A i \in 1..len : trail'[i] = trail[i]
        /\ trail'[len + 1] = child
    BY <1>3, <2>1, <2>2
  <2>4. len + 1 \in 1..(query.limit + 1)
    <3>1. query.limit \in Nat /\ DepthLimit(query) = query.limit
      BY <1>3, QueryType DEF DepthLimit
    <3> QED BY <1>3, <1>4, <3>1
  <2>5. trail'[1] = query.from
    BY <1>4, <2>1, <2>3 DEF IsTrail
  <2>6. ASSUME NEW i \in 1..len PROVE Linked(trail'[i], trail'[i+1])
    <3>1. CASE i = len
      BY <1>3, <1>4, <2>1, <2>3, <3>1 DEF Linked
    <3>2. CASE i # len
      <4>1. i \in 1..(len - 1) /\ i \in 1..len /\ i + 1 \in 1..len
        BY <1>4, <3>2
      <4> QED BY <2>1, <2>3, <4>1 DEF IsTrail
    <3> QED BY <3>1, <3>2
  <2>7. Len(trail') - 1 = len
    BY <1>4, <2>3
  <2> QED BY <2>3, <2>4, <2>5, <2>6, <2>7 DEF IsTrail
<1>6. \A i \in 1..Len(paths) : status'[End(paths[i])] = "VISITED"
  <2> SUFFICES ASSUME NEW i \in 1..Len(paths) PROVE status'[End(paths[i])] = "VISITED"
    OBVIOUS
  <2>1. IsTrail(paths[i]) /\ status[End(paths[i])] = "VISITED"
    BY DEF ListInv, PathsInv
  <2>2. End(paths[i]) \in Node
    BY <2>1 DEF IsTrail, End
  <2>3. query.op = "all_paths"
    <3>1. paths # <<>>
      OBVIOUS
    <3> QED BY <3>1 DEF ListInv, PathsInv
  <2>4. End(paths[i]) # child
    BY <1>1, <2>1 DEF Fresh
  <2> QED BY <1>1, <1>3, <2>1, <2>2, <2>3, <2>4, DiscoverEffect
          DEF TourOps, ListInv, SearchInv, Typed, TypeOK
<1>7. PathsInv' /\ AnswersInv'
  BY <1>2, <1>6, PathsKept, AnswersKept DEF ListInv
<1> QED BY <1>5, <1>7 DEF ListInv

(* A call returns: the stack loses its last node, which is visited and, if *)
(* the target is only a wait away, ends a recorded path.                   *)
LEMMA ListLeave ==
  ASSUME ListInv, SearchInv', Leave
  PROVE  ListInv'
<1> DEFINE len == Len(frames)
           n == Inner.node
<1>1. /\ len \in Nat \ {0} /\ n \in Node /\ query \in Queries
      /\ n = frames[len].node
      /\ phase = "search" /\ status' = StatusOnVisit(query.op, n)
      /\ Len(frames') = len - 1 /\ frames' = Outer
      /\ UNCHANGED <<db, query, answers>>
  BY FramesLeave DEF Leave, ListInv, SearchInv
<1>2. phase' # "error" /\ (phase' = "answered" => query.op # "all_paths")
      /\ (phase' = "search" <=> Outer # <<>>)
  BY <1>1 DEF Leave, Touring, TourOps
<1>3. n \in Callers /\ status[n] = "DISCOVERED"
  BY <1>1 DEF ListInv, SearchInv, AssertsHold, Callers
<1>4. CASE query.op # "all_paths"
  <2>1. paths' = paths /\ Len(paths) = 0
    BY <1>4 DEF Leave, ListInv, PathsInv
  <2>2. PathsInv' /\ AnswersInv'
    BY <1>1, <1>2, <2>1, PathsKept, AnswersKept DEF ListInv
  <2>3. TrailInv'
    BY <1>1, <1>4 DEF TrailInv
  <2> QED BY <2>2, <2>3 DEF ListInv
<1>5. CASE query.op = "all_paths"
  <2>1. /\ trail' = Front(trail)
        /\ paths' = IF AtTarget(n) THEN Append(paths, trail) ELSE paths
    BY <1>5 DEF Leave
  <2>2. /\ IsTrail(trail) /\ Len(trail) = len /\ End(trail) = n
        /\ trail \in Seq(Node) /\ trail # <<>>
    BY <1>1, <1>5 DEF ListInv, TrailInv, SearchInv, Typed, TrailIsCallStack, IsTrail, End
  <2>3. TrailInv'
    <3> SUFFICES ASSUME phase' = "search" PROVE IsTrail(trail')
      BY <1>1 DEF TrailInv, IsTrail, Linked, Catches, Arrival
    <3>1. len - 1 \in Nat \ {0}
      BY <1>1, <1>2
    <3>2. /\ trail' \in Seq(Node) /\ Len(trail') = len - 1
          /\ \A i \in 1..(len - 1) : trail'[i] = trail[i]
      BY <2>1, <2>2, FrontEffect
    <3>3. query.limit \in Nat /\ len \in 1..(query.limit + 1)
      BY <1>1, <2>2, QueryType DEF IsTrail
    <3>4. Len(trail') \in 1..(query.limit + 1)
      BY <3>1, <3>2, <3>3
    <3>5. \A i \in 1..(len - 1 - 1) : i \in 1..(len - 1) /\ i + 1 \in 1..(len - 1)
      BY <3>1
    <3>6. trail'[1] = query.from /\ \A i \in 1..(len - 1 - 1) : Linked(trail'[i], trail'[i+1])
      BY <2>2, <3>1, <3>2, <3>5 DEF IsTrail
    <3> QED BY <3>2, <3>4, <3>6 DEF IsTrail
  <2>4. /\ paths \in Seq(Seq(Node))
        /\ \A i \in 1..Len(paths) : /\ IsTrail(paths[i]) /\ AtTarget(End(paths[i]))
                                    /\ status[End(paths[i])] = "VISITED"
        /\ \A i, j \in 1..Len(paths) : End(paths[i]) = End(paths[j]) => i = j
    BY DEF ListInv, PathsInv, SearchInv, Typed, TypeOK
  <2>5. \A i \in 1..Len(paths) : End(paths[i]) # n
    BY <1>3, <2>4
  <2>6. \A i \in 1..Len(paths) : status'[End(paths[i])] = "VISITED"
    <3> SUFFICES ASSUME NEW i \in 1..Len(paths) PROVE status'[End(paths[i])] = "VISITED"
      OBVIOUS
    <3>1. End(paths[i]) \in Node /\ status[End(paths[i])] = "VISITED"
      BY <2>4 DEF IsTrail, End
    <3> QED BY <1>1, <3>1, VisitEffect DEF ListInv, SearchInv, Typed, TypeOK
  <2>7. CASE ~AtTarget(n)
    <3>1. paths' = paths
      BY <2>1, <2>7
    <3>2. PathsInv' /\ AnswersInv'
      BY <1>1, <1>2, <2>6, <3>1, PathsKept, AnswersKept DEF ListInv
    <3> QED BY <2>3, <3>2 DEF ListInv
  <2>8. CASE AtTarget(n)
    <3>1. /\ paths' = Append(paths, trail) /\ Len(paths') = Len(paths) + 1
          /\ \A i \in 1..Len(paths) : paths'[i] = paths[i]
          /\ paths'[Len(paths) + 1] = trail
      BY <2>1, <2>2, <2>4, <2>8
    <3>2. \A i \in 1..Len(paths') : i \in 1..Len(paths) \/ i = Len(paths) + 1
      BY <2>4, <3>1
    <3>3. status'[n] = "VISITED"
      BY <1>1, VisitEffect DEF ListInv, SearchInv, Typed, TypeOK
    <3>4. \A i \in 1..Len(paths') : /\ IsTrail(paths'[i]) /\ AtTarget(End(paths'[i]))
                                   /\ status'[End(paths'[i])] = "VISITED"
      <4> SUFFICES ASSUME NEW i \in 1..Len(paths')
                   PROVE  /\ IsTrail(paths'[i]) /\ AtTarget(End(paths'[i]))
                          /\ status'[End(paths'[i])] = "VISITED"
        OBVIOUS
      <4>1. CASE i \in 1..Len(paths)
        BY <2>4, <2>6, <3>1, <4>1
      <4>2. CASE i = Len(paths) + 1
        BY <2>2, <2>8, <3>1, <3>3, <4>2
      <4> QED BY <3>2, <4>1, <4>2
    <3>5. \A i, j \in 1..Len(paths') : End(paths'[i]) = End(paths'[j]) => i = j
      <4>1. \A i \in 1..Len(paths) : End(paths'[i]) = End(paths[i])
        BY <3>1
      <4>2. End(paths'[Len(paths) + 1]) = n
        BY <2>2, <3>1
      <4> QED BY <2>4, <2>5, <3>2, <4>1, <4>2
    <3>6. PathsInv'
      <4>1. ASSUME NEW i \in 1..Len(paths') PROVE IsTrail(paths[i])' /\ AtTarget(End(paths[i]))'
        <5>1. IsTrail(paths[i])'
          BY <1>1, <3>4 DEF IsTrail, Linked, Catches, Arrival
        <5>2. AtTarget(End(paths[i]))'
          BY <1>1, <3>4 DEF AtTarget, IsContinuousChild, End
        <5> QED BY <5>1, <5>2
      <4>2. query' = query /\ query.op = "all_paths" /\ query \in Queries
        BY <1>1, <1>5
      <4> QED BY <3>4, <3>5, <4>1, <4>2 DEF PathsInv, End
    <3>7. AnswersInv'
      <4>1. \A i \in 1..Len(answers) : i \in 1..Len(paths)
        BY DEF ListInv, SearchInv, Typed, TypeOK, Shape
      <4>2. \A i \in 1..Len(answers) :
              Convertible(paths[i]) /\ answers[i] = ConvertPath(paths[i])
        BY DEF ListInv, AnswersInv
      <4>3. \A p : (Convertible(p)' <=> Convertible(p)) /\ ConvertPath(p)' = ConvertPath(p)
        BY <1>1, SameQuery
      <4>4. \A i \in 1..Len(answers') : paths'[i] = paths[i] /\ answers'[i] = answers[i]
        BY <1>1, <3>1, <4>1
      <4>5. ASSUME NEW i \in 1..Len(answers')
            PROVE  Convertible(paths[i])' /\ answers'[i] = ConvertPath(paths[i])'
        <5>1. \A p, q : RecordsBetween(p, q)' = RecordsBetween(p, q)
          BY <1>1 DEF RecordsBetween, Arrival
        <5>2. paths'[i] = paths[i] /\ i \in 1..Len(answers) /\ db' = db
          BY <1>1, <4>4
        <5>3. Convertible(paths[i])'
          BY <4>2, <5>1, <5>2 DEF Convertible
        <5>4. ConvertPath(paths[i])' = ConvertPath(paths[i])
          BY <5>1, <5>2 DEF ConvertPath
        <5> QED BY <4>2, <4>4, <5>2, <5>3, <5>4
      <4> QED BY <1>1, <1>2, <1>5, <4>5 DEF AnswersInv, Listed, FailsOnlyIfAmbiguous
    <3> QED BY <2>3, <3>6, <3>7 DEF ListInv
  <2> QED BY <2>7, <2>8
<1> QED BY <1>4, <1>5

(* Every step of a trail has a record; ConvertPath throws at a second one. *)
LEMMA TrailConverts ==
  ASSUME TypeOK, NEW p, IsTrail(p), UniqueArrivals
  PROVE  Convertible(p)
<1> SUFFICES ASSUME NEW i \in 1..(Len(p) - 1)
             PROVE  \E f \in db : RecordsBetween(p[i], p[i+1]) = {f}
  BY DEF Convertible
<1>1. PICK f \in db : Catches(p[i], f) /\ p[i+1] = Arrival(f)
  BY DEF IsTrail, Linked
<1>2. f \in RecordsBetween(p[i], p[i+1])
  BY <1>1 DEF Catches, RecordsBetween
<1>3. \A g \in RecordsBetween(p[i], p[i+1]) : g = f
  BY <1>1 DEF Catches, RecordsBetween, UniqueArrivals
<1> QED BY <1>2, <1>3

LEMMA ListConvert ==
  ASSUME ListInv, SearchInv', Convert
  PROVE  ListInv'
<1> DEFINE k == Len(answers)
           next == paths[k + 1]
<1>1. /\ phase = "convert" /\ phase' # "search"
      /\ UNCHANGED <<db, query, status, trail, paths>>
  BY DEF Convert
<1>2. PathsInv'
  BY <1>1, PathsKept DEF ListInv, PathsInv
<1>3. TrailInv'
  BY <1>1 DEF TrailInv
<1>4. CASE k = Len(paths)
  <2>1. phase' = "answered" /\ answers' = answers
    BY <1>4 DEF Convert
  <2>2. AnswersInv'
    BY <1>1, <1>4, <2>1, SameQuery DEF ListInv, AnswersInv, Listed, FailsOnlyIfAmbiguous
  <2> QED BY <1>2, <1>3, <2>2 DEF ListInv
<1>5. CASE k # Len(paths) /\ Convertible(next)
  <2>1. answers' = Append(answers, ConvertPath(next)) /\ phase' = phase
    BY <1>5 DEF Convert
  <2>2. ConvertPath(next) \in Seq(Flight)
    <3>1. k + 1 \in 1..Len(paths) /\ paths \in Seq(Seq(Node))
      BY <1>5 DEF ListInv, SearchInv, Typed, TypeOK, Shape
    <3> QED BY <1>5, <3>1, ConvertType DEF ListInv, SearchInv, Typed
  <2>3. answers \in Seq(Seq(Flight))
    BY DEF ListInv, SearchInv, Typed, TypeOK
  <2>4. /\ answers \in Seq(Seq(Flight)) /\ k \in Nat
        /\ Len(answers') = k + 1
        /\ \A i \in 1..k : answers'[i] = answers[i]
        /\ answers'[k + 1] = ConvertPath(next)
        /\ \A i \in 1..(k + 1) : i \in 1..k \/ i = k + 1
    BY <2>1, <2>2, <2>3
  <2>5. ASSUME NEW i \in 1..(k + 1)
        PROVE  Convertible(paths[i])' /\ answers'[i] = ConvertPath(paths[i])'
    <3>1. Convertible(paths[i]) /\ answers'[i] = ConvertPath(paths[i])
      BY <1>5, <2>4 DEF ListInv, AnswersInv
    <3>2. \A p, q : RecordsBetween(p, q)' = RecordsBetween(p, q)
      BY <1>1 DEF RecordsBetween, Arrival
    <3>3. Convertible(paths[i])'
      BY <1>1, <3>1, <3>2 DEF Convertible
    <3>4. ConvertPath(paths[i])' = ConvertPath(paths[i])
      BY <1>1, <3>2 DEF ConvertPath
    <3> QED BY <3>1, <3>3, <3>4
  <2>6. AnswersInv'
    BY <1>1, <2>1, <2>4, <2>5 DEF AnswersInv, Listed, FailsOnlyIfAmbiguous
  <2> QED BY <1>2, <1>3, <2>6 DEF ListInv
<1>6. CASE k # Len(paths) /\ ~Convertible(next)
  <2>1. phase' = "error" /\ answers' = answers
    BY <1>6 DEF Convert
  <2>2. k + 1 \in 1..Len(paths)
    BY <1>6 DEF ListInv, SearchInv, Typed, TypeOK, Shape
  <2>3. IsTrail(next)
    BY <2>2 DEF ListInv, PathsInv
  <2>4. ~UniqueArrivals
    BY <1>6, <2>3, TrailConverts DEF ListInv, SearchInv, Typed
  <2>5. ~UniqueArrivals'
    BY <1>1, <2>4, SameQuery
  <2>6. ASSUME NEW i \in 1..k
        PROVE  Convertible(paths[i])' /\ answers'[i] = ConvertPath(paths[i])'
    <3>1. Convertible(paths[i]) /\ answers'[i] = ConvertPath(paths[i])
      BY <2>1 DEF ListInv, AnswersInv
    <3>2. \A p, q : RecordsBetween(p, q)' = RecordsBetween(p, q)
      BY <1>1 DEF RecordsBetween, Arrival
    <3>3. Convertible(paths[i])'
      BY <1>1, <3>1, <3>2 DEF Convertible
    <3>4. ConvertPath(paths[i])' = ConvertPath(paths[i])
      BY <1>1, <3>2 DEF ConvertPath
    <3> QED BY <3>1, <3>3, <3>4
  <2>7. AnswersInv'
    BY <2>1, <2>5, <2>6 DEF AnswersInv, Listed, FailsOnlyIfAmbiguous
  <2> QED BY <1>2, <1>3, <2>7 DEF ListInv
<1> QED BY <1>4, <1>5, <1>6

LEMMA ListStep == ListInv /\ [Next]_vars => ListInv'
<1> SUFFICES ASSUME ListInv, [Next]_vars PROVE ListInv'
  OBVIOUS
<1>1. SearchInv'
  BY SearchStep DEF ListInv
<1>2. ASSUME NEW q \in Queries, Ask(q) PROVE ListInv'
  BY <1>1, <1>2, ListAsk
<1>3. ASSUME NEW q \in Queries, AskOutOfRange(q) PROVE ListInv'
  <2>1. /\ paths' = <<>> /\ answers' = <<>> /\ phase' = "error" /\ ~InRange(q)
        /\ query' = q /\ db' = db
    BY <1>3 DEF AskOutOfRange, ListInv, SearchInv, Typed, Shape, Unused
  <2>2. ~InRange(query)'
    BY <2>1 DEF InRange, EndNodes, Within, Served
  <2>3. Len(paths') = 0 /\ Len(answers') = 0
    BY <2>1
  <2>4. TrailInv' /\ PathsInv' /\ AnswersInv'
    BY <2>1, <2>2, <2>3 DEF TrailInv, PathsInv, AnswersInv, Listed, FailsOnlyIfAmbiguous
  <2> QED BY <1>1, <2>4 DEF ListInv
<1>4. CASE Descend
  BY <1>1, <1>4, ListDescend
<1>5. CASE SkipEdge
  <2>1. UNCHANGED <<db, query, phase, status, trail, paths, answers>> /\ phase = "search"
    BY <1>5 DEF SkipEdge
  <2>2. TrailInv'
    BY <2>1 DEF ListInv, TrailInv, IsTrail, Linked, Catches, Arrival
  <2>3. PathsInv' /\ AnswersInv'
    BY <2>1, PathsKept, AnswersKept DEF ListInv, PathsInv
  <2> QED BY <1>1, <2>2, <2>3 DEF ListInv
<1>6. CASE Leave
  BY <1>1, <1>6, ListLeave
<1>7. CASE Convert
  BY <1>1, <1>7, ListConvert
<1>8. CASE Return
  <2>1. Unused' /\ phase' = "idle"
    BY <1>8 DEF Return, Unused, Undiscovered
  <2>2. TrailInv' /\ PathsInv' /\ AnswersInv'
    BY <2>1, EmptyList DEF TrailInv
  <2> QED BY <1>1, <2>2 DEF ListInv
<1>9. CASE UNCHANGED vars
  <2>1. UNCHANGED <<db, query, phase, status, trail, paths, answers>>
    BY <1>9 DEF vars
  <2>2. TrailInv'
    BY <2>1 DEF ListInv, TrailInv, IsTrail, Linked, Catches, Arrival
  <2>3. PathsInv'
    BY <2>1, PathsKept DEF ListInv, PathsInv
  <2>4. AnswersInv'
    BY <2>1, SameQuery DEF ListInv, AnswersInv, Listed, FailsOnlyIfAmbiguous
  <2> QED BY <1>1, <2>2, <2>3, <2>4 DEF ListInv
<1> QED BY <1>2, <1>3, <1>4, <1>5, <1>6, <1>7, <1>8, <1>9 DEF Next, Step

(* The flights between the nodes of a trail are an itinerary to its end.   *)
LEMMA FlightsOfTrail ==
  ASSUME NEW p, IsTrail(p), NEW s,
         s \in [1..(Len(p) - 1) -> db],
         \A i \in 1..(Len(p) - 1) : Catches(p[i], s[i]) /\ p[i+1] = Arrival(s[i])
  PROVE  /\ s \in Seq(db) /\ Len(s) = Len(p) - 1
         /\ IsItinerary(query.from, s) /\ LandsFrom(query.from, s) = End(p)
<1> DEFINE n == Len(p) - 1
<1>1. p \in Seq(Node) /\ n \in Nat /\ p[1] = query.from
  BY DEF IsTrail
<1>2. s \in Seq(db) /\ Len(s) = n
  <2>1. s \in [1..n -> db]
    OBVIOUS
  <2> HIDE DEF n
  <2> QED BY <1>1, <2>1
<1>3. IsItinerary(query.from, s)
  <2> SUFFICES ASSUME NEW i \in 1..n
               PROVE  Catches(IF i = 1 THEN query.from ELSE Arrival(s[i-1]), s[i])
    BY <1>2 DEF IsItinerary
  <2>1. CASE i = 1
    BY <1>1, <2>1
  <2>2. CASE i # 1
    <3>1. i - 1 \in 1..n /\ (i - 1) + 1 = i
      BY <1>1, <2>2
    <3>2. p[i] = Arrival(s[i-1])
      BY <3>1
    <3> QED BY <2>2, <3>2
  <2> QED BY <2>1, <2>2
<1>4. End(p) = LandsFrom(query.from, s)
  <2>1. End(p) = p[n + 1]
    BY <1>1 DEF End
  <2>2. CASE n = 0
    BY <1>1, <1>2, <2>1, <2>2 DEF LandsFrom
  <2>3. CASE n # 0
    <3>1. n \in 1..n
      <4>1. n \in Nat
        BY <1>1
      <4> HIDE DEF n
      <4> QED BY <4>1, <2>3
    <3>2. s # <<>>
      BY <1>2, <2>3
    <3> QED BY <1>2, <2>1, <3>1, <3>2 DEF LandsFrom
  <2> QED BY <2>2, <2>3
<1> QED BY <1>2, <1>3, <1>4

(* There are such flights for every trail. *)
LEMMA TrailIsItinerary ==
  ASSUME NEW p, IsTrail(p)
  PROVE  \E s \in Seq(db) : /\ Len(s) = Len(p) - 1
                            /\ IsItinerary(query.from, s) /\ LandsFrom(query.from, s) = End(p)
<1> DEFINE s == [i \in 1..(Len(p) - 1) |-> CHOOSE f \in db : Catches(p[i], f) /\ p[i+1] = Arrival(f)]
<1>1. ASSUME NEW i \in 1..(Len(p) - 1)
      PROVE  s[i] \in db /\ Catches(p[i], s[i]) /\ p[i+1] = Arrival(s[i])
  <2>1. \E f \in db : Catches(p[i], f) /\ p[i+1] = Arrival(f)
    BY DEF IsTrail, Linked
  <2> QED BY <2>1
<1>2. s \in [1..(Len(p) - 1) -> db]
  BY <1>1
<1> HIDE DEF s
<1> QED BY <1>1, <1>2, FlightsOfTrail

(* So are the flights that it is converted to.                             *)
LEMMA ConvertedIsItinerary ==
  ASSUME NEW p, IsTrail(p), Convertible(p)
  PROVE  /\ ConvertPath(p) \in Seq(db) /\ Len(ConvertPath(p)) = Len(p) - 1
         /\ IsItinerary(query.from, ConvertPath(p))
         /\ LandsFrom(query.from, ConvertPath(p)) = End(p)
<1> DEFINE s == ConvertPath(p)
<1>1. s = [i \in 1..(Len(p) - 1) |-> CHOOSE f \in db : f \in RecordsBetween(p[i], p[i+1])]
  BY DEF ConvertPath
<1>2. ASSUME NEW i \in 1..(Len(p) - 1)
      PROVE  s[i] \in db /\ Catches(p[i], s[i]) /\ p[i+1] = Arrival(s[i])
  <2>1. PICK f \in db : Catches(p[i], f) /\ p[i+1] = Arrival(f)
    BY DEF IsTrail, Linked
  <2>2. PICK g \in db : RecordsBetween(p[i], p[i+1]) = {g}
    BY DEF Convertible
  <2>3. f \in RecordsBetween(p[i], p[i+1])
    BY <2>1 DEF Catches, RecordsBetween
  <2>4. s[i] \in RecordsBetween(p[i], p[i+1])
    BY <1>1, <2>1, <2>3
  <2> QED BY <2>1, <2>2, <2>3, <2>4
<1>3. s \in [1..(Len(p) - 1) -> db]
  BY <1>1, <1>2
<1> HIDE DEF s
<1>4. /\ s \in Seq(db) /\ Len(s) = Len(p) - 1
      /\ IsItinerary(query.from, s) /\ LandsFrom(query.from, s) = End(p)
  BY <1>2, <1>3, FlightsOfTrail
<1> QED BY <1>4 DEF s

(* A trail that ends at the target is a way to it within the limit.        *)
LEMMA TrailIsWay ==
  ASSUME query \in Queries, NEW p, IsTrail(p), Convertible(p), AtTarget(End(p))
  PROVE  /\ Leads(query.from, ConvertPath(p), query.to)
         /\ Len(ConvertPath(p)) <= query.limit
<1>1. p \in Seq(Node) /\ Len(p) - 1 <= query.limit
  BY QueryType DEF IsTrail
<1>2. InTime(End(p), query.to)
  <2>1. query.to.no_sooner_than \in Int
    BY QueryType, DomainAssumption DEF Node
  <2> QED BY <2>1 DEF AtTarget, IsContinuousChild, InTime
<1> QED BY <1>1, <1>2, ConvertedIsItinerary DEF Leads, LandsFrom

(* Each connection all_paths lists is a way from the start to the target   *)
(* by the deadline, of no more flights than the depth limit.               *)
THEOREM ListedWays == Spec => []ListedAreWays
<1>1. ListInv => ListedAreWays
  <2> SUFFICES ASSUME ListInv, Listed, NEW i \in 1..Len(answers)
               PROVE  /\ Leads(query.from, answers[i], query.to)
                      /\ Len(answers[i]) <= query.limit
    BY DEF ListedAreWays
  <2>1. query \in Queries
    BY DEF Listed, ListInv, SearchInv, Typed, Shape
  <2>2. Convertible(paths[i]) /\ answers[i] = ConvertPath(paths[i]) /\ i \in 1..Len(paths)
    BY DEF ListInv, AnswersInv
  <2>3. IsTrail(paths[i]) /\ AtTarget(End(paths[i]))
    BY <2>2 DEF ListInv, PathsInv
  <2> QED BY <2>1, <2>2, <2>3, TrailIsWay DEF ListInv, SearchInv, Typed
<1> QED BY <1>1, ListInit, ListStep, PTL DEF Spec

(* No two listed connections end in the same arrival, hence none is listed *)
(* twice.                                                                  *)
THEOREM ListsNothingTwice == Spec => []ListedOnce
<1>1. ListInv => ListedOnce
  BY DEF ListInv, PathsInv, End, ListedOnce
<1> QED BY <1>1, ListInit, ListStep, PTL DEF Spec

(* all_paths fails only if the end nodes are out of range, or two flights  *)
(* of one route land at the same time.                                     *)
THEOREM OnlyAmbiguityFails == Spec => []FailsOnlyIfAmbiguous
<1>1. ListInv => FailsOnlyIfAmbiguous
  BY DEF ListInv, AnswersInv
<1> QED BY <1>1, ListInit, ListStep, PTL DEF Spec

-----------------------------------------------------------------------------
(***************************************************************************)
(* What all_paths lists is complete where only one way leads to each       *)
(* arrival.  A visited node was left with a trail; if that trail could     *)
(* have gone on within the limit, the flights from the node were followed. *)
(* So a way is followed flight by flight: its start is visited, and since  *)
(* the trail to each of its nodes is the way itself, so is the next node.  *)
(***************************************************************************)

Undisc(n) == status[n] = "UNDISCOVERED"

(* all_paths is searching, or has searched. *)
Listing ==
  query \in Queries /\ query.op = "all_paths" /\ phase \in {"search", "convert", "answered"}

(* A discovered node is on the stack until it is visited. *)
DiscoveredIsCalled ==
  ~Undisc(query.from) /\ \A n \in Node : status[n] = "DISCOVERED" => n \in Callers

(* All flights from n lead to discovered nodes. *)
Expanded(n) == \A f \in db : Catches(n, f) => ~Undisc(Arrival(f))

(* A visited node was left with a trail, and is expanded if that could go on. *)
VisitedIsExpanded ==
  \A n \in Node : status[n] = "VISITED" =>
    \E p \in Seq(Node) : IsTrail(p) /\ End(p) = n /\ (Len(p) <= query.limit => Expanded(n))

(* So will be the node of a call with something left of its limit. *)
CallsExpand ==
  \A i \in 1..Len(frames) : frames[i].limit > 0 =>
    \A f \in db : Catches(frames[i].node, f) => f \in frames[i].edges \/ ~Undisc(Arrival(f))

(* A visited node from which the target is a wait away ends a path. *)
VisitedIsRecorded ==
  \A n \in Node : status[n] = "VISITED" /\ AtTarget(n) =>
    \E i \in 1..Len(paths) : End(paths[i]) = n

Followed ==
  Listing => DiscoveredIsCalled /\ VisitedIsExpanded /\ CallsExpand /\ VisitedIsRecorded

FullInv == ListInv /\ Followed

(* What a step keeps that discovers nodes or leaves them alone, and visits *)
(* none.                                                                   *)
LEMMA FollowedKept ==
  ASSUME FullInv, Listing', UNCHANGED <<db, query, paths>>,
         phase \in {"search", "convert", "answered"},
         \A n \in Node : status'[n] = status[n] \/ (Undisc(n) /\ status'[n] = "DISCOVERED")
  PROVE  /\ Listing /\ ~Undisc(query.from)'
         /\ \A n \in Node : ~Undisc(n) => ~Undisc(n)'
         /\ VisitedIsExpanded' /\ VisitedIsRecorded'
<1>1. Listing /\ query.from \in Node
  BY QueryType DEF Listing
<1>2. ~Undisc(query.from)' /\ \A n \in Node : ~Undisc(n) => ~Undisc(n)'
  BY <1>1 DEF FullInv, Followed, DiscoveredIsCalled, Undisc
<1>3. \A n \in Node : status'[n] = "VISITED" => status[n] = "VISITED"
  OBVIOUS
<1>4. \A f \in db : Arrival(f) \in Node /\ Arrival(f)' = Arrival(f)
  BY EdgesType, ArrivalType DEF Arrival, FullInv, ListInv, SearchInv, Typed
<1>5. \A n \in Node : Expanded(n) => Expanded(n)'
  <2>1. \A n, f : Catches(n, f)' <=> Catches(n, f)
    BY DEF Catches
  <2> QED BY <1>2, <1>4, <2>1 DEF Expanded, Undisc
<1>6. VisitedIsExpanded'
  BY <1>1, <1>3, <1>5, SameQuery DEF FullInv, Followed, VisitedIsExpanded, End
<1>7. VisitedIsRecorded'
  BY <1>1, <1>3, SameQuery DEF FullInv, Followed, VisitedIsRecorded, End
<1> QED BY <1>1, <1>2, <1>6, <1>7

(* The first call has all its flights before it. *)
LEMMA FollowedAsk ==
  ASSUME FullInv, NEW q \in Queries, Ask(q)
  PROVE  Followed'
<1> SUFFICES ASSUME Listing' PROVE Followed'
  BY DEF Followed
<1>1. /\ query' = q /\ q.from \in Node /\ db' = db
      /\ frames' = <<Call(q.from, DepthLimit(q))>>
      /\ status' = StatusOnDiscover(q.op, q.from) /\ status = Undiscovered
  BY QueryType DEF Ask, FullInv, ListInv, SearchInv, Typed, Shape, Unused
<1>2. q.op = "all_paths"
  BY <1>1 DEF Listing
<1>3. \A n \in Node : status'[n] = IF n = q.from THEN "DISCOVERED" ELSE "UNDISCOVERED"
  BY <1>1, <1>2 DEF StatusOnDiscover, TourOps, Undiscovered
<1> DEFINE c == Call(q.from, DepthLimit(q))
<1>4. Len(frames') = 1 /\ frames'[1] = c
  BY <1>1
<1>5. c.node = q.from /\ (c.limit > 0 => c.edges = DiscreteChildrenOf(q.from))
  BY DEF Call
<1> HIDE DEF c
<1>6. DiscoveredIsCalled'
  BY <1>1, <1>3, <1>4, <1>5 DEF DiscoveredIsCalled, Undisc, Callers
<1>7. VisitedIsExpanded' /\ VisitedIsRecorded'
  BY <1>3 DEF VisitedIsExpanded, VisitedIsRecorded
<1>8. CallsExpand'
  BY <1>1, <1>4, <1>5 DEF CallsExpand, Catches, DiscreteChildrenOf
<1> QED BY <1>6, <1>7, <1>8 DEF Followed

(* The flight that is taken leads to the node that is now discovered. *)
LEMMA FollowedDescend ==
  ASSUME FullInv, Descend
  PROVE  Followed'
<1> SUFFICES ASSUME Listing' PROVE Followed'
  BY DEF Followed
<1>1. PICK f \in FirstOf(Inner.edges) :
        /\ Fresh(Arrival(f))
        /\ status' = StatusOnDiscover(query.op, Arrival(f))
        /\ frames' = Append(Advanced(f), Call(Arrival(f), LimitBelow))
  BY DEF Descend
<1>2. phase = "search" /\ UNCHANGED <<db, query, phase, paths, answers>>
  BY DEF Descend
<1> DEFINE child == Arrival(f)
           len == Len(frames)
           c == Call(child, LimitBelow)
<1>3. Typed /\ TypeOK /\ frames # <<>> /\ child \in Node /\ c \in Frame
  BY <1>2, EdgeType, CallType DEF FullInv, ListInv, SearchInv, Typed
<1>4. c.node = child /\ (c.limit > 0 => c.edges = DiscreteChildrenOf(child))
  BY DEF Call
<1>5. /\ len \in Nat \ {0} /\ Len(frames') = len + 1 /\ Inner \in Frame
      /\ \A i \in 1..(len - 1) : frames'[i] = frames[i]
      /\ frames'[len] = [Inner EXCEPT !.edges = @ \ {f}]
      /\ frames'[len + 1] = c
      /\ Inner = frames[len]
  <2>1. len \in Nat \ {0} /\ Inner \in Frame /\ frames' = Append(Advanced(f), c)
    BY <1>1, <1>3, OuterEffect
  <2> HIDE DEF c
  <2> QED BY <1>3, <2>1, PushedEffect DEF Inner
<1> HIDE DEF c
<1>6. /\ \A n \in Node : n # child => status'[n] = status[n]
      /\ status'[child] = "DISCOVERED" /\ Undisc(child)
  BY <1>1, <1>2, <1>3 DEF Listing, StatusOnDiscover, TourOps, Fresh, Undisc, TypeOK
<1>7. /\ Listing /\ ~Undisc(query.from)'
      /\ \A n \in Node : ~Undisc(n) => ~Undisc(n)'
      /\ VisitedIsExpanded' /\ VisitedIsRecorded'
  BY <1>2, <1>6, FollowedKept
<1>8. \A i \in 1..(len + 1) : i \in 1..(len - 1) \/ i = len \/ i = len + 1
  BY <1>5
<1>9. DiscoveredIsCalled'
  <2>1. /\ \A i \in 1..len : i \in 1..(len + 1) /\ frames'[i].node = frames[i].node
        /\ len + 1 \in 1..(len + 1) /\ frames'[len + 1].node = child
    BY <1>4, <1>5, <1>8 DEF Frame
  <2>2. Callers \subseteq Callers' /\ child \in Callers'
    BY <1>5, <2>1 DEF Callers
  <2>3. \A n \in Node : status'[n] = "DISCOVERED" => n \in Callers'
    BY <1>6, <1>7, <2>2 DEF FullInv, Followed, DiscoveredIsCalled
  <2> QED BY <1>7, <2>3 DEF DiscoveredIsCalled
<1>10. CallsExpand'
  <2>1. \A g \in db : Arrival(g) \in Node
    BY <1>3, EdgesType, ArrivalType
  <2>2. \A i \in 1..len : frames[i].limit > 0 =>
          \A g \in db : Catches(frames[i].node, g) => g \in frames[i].edges \/ ~Undisc(Arrival(g))
    BY <1>7 DEF FullInv, Followed, CallsExpand
  <2>3. ASSUME NEW i \in 1..(len + 1), frames'[i].limit > 0, NEW g \in db, Catches(frames'[i].node, g)
        PROVE  g \in frames'[i].edges \/ status'[Arrival(g)] # "UNDISCOVERED"
    <3>1. CASE i \in 1..(len - 1)
      BY <1>5, <1>7, <2>1, <2>2, <2>3, <3>1 DEF Undisc
    <3>2. CASE i = len
      <4>1. /\ frames'[len].node = Inner.node /\ frames'[len].limit = Inner.limit
            /\ frames'[len].edges = Inner.edges \ {f}
        BY <1>5 DEF Frame
      <4>2. g \in Inner.edges \/ ~Undisc(Arrival(g))
        <5>1. len \in 1..len
          BY <1>5
        <5>2. frames'[len].limit > 0 /\ Catches(frames'[len].node, g)
          BY <2>3, <3>2
        <5>3. frames[len].limit > 0 /\ Catches(frames[len].node, g)
          BY <1>5, <4>1, <5>2
        <5> QED BY <1>5, <2>2, <5>1, <5>3
      <4>3. CASE g = f
        BY <1>6, <4>3
      <4>4. CASE g # f
        BY <1>7, <2>1, <3>2, <4>1, <4>2, <4>4 DEF Undisc
      <4> QED BY <4>3, <4>4
    <3>3. CASE i = len + 1
      BY <1>4, <1>5, <2>3, <3>3 DEF Catches, DiscreteChildrenOf
    <3> QED BY <1>8, <3>1, <3>2, <3>3
  <2> QED BY <1>2, <1>5, <2>3 DEF CallsExpand, Undisc, Catches, Arrival
<1> QED BY <1>7, <1>9, <1>10 DEF Followed

(* The flight that is skipped leads to a node discovered before. *)
LEMMA FollowedSkipEdge ==
  ASSUME FullInv, SkipEdge
  PROVE  Followed'
<1> SUFFICES ASSUME Listing' PROVE Followed'
  BY DEF Followed
<1>1. PICK f \in FirstOf(Inner.edges) : ~Fresh(Arrival(f)) /\ frames' = Advanced(f)
  BY DEF SkipEdge
<1>2. phase = "search" /\ UNCHANGED <<db, query, phase, status, paths>>
  BY DEF SkipEdge
<1>3. /\ Listing /\ ~Undisc(query.from)'
      /\ VisitedIsExpanded' /\ VisitedIsRecorded'
  BY <1>2, FollowedKept
<1> DEFINE len == Len(frames)
<1>4. /\ Len(frames') = len /\ len \in Nat \ {0} /\ Inner \in Frame /\ Inner = frames[len]
      /\ \A i \in 1..(len - 1) : frames'[i] = frames[i]
      /\ frames'[len] = [Inner EXCEPT !.edges = @ \ {f}]
      /\ \A i \in 1..len : i \in 1..(len - 1) \/ i = len
  <2>1. frames # <<>> /\ TypeOK
    BY <1>2 DEF FullInv, ListInv, SearchInv, Typed, Shape
  <2>2. len \in Nat \ {0}
    BY <2>1, OuterEffect
  <2> QED BY <1>1, <2>1, <2>2, AdvancedEffect, OuterEffect DEF Inner
<1>5. \A i \in 1..len : /\ frames'[i].node = frames[i].node /\ frames'[i].limit = frames[i].limit
                        /\ \A g : g \in frames[i].edges => g = f \/ g \in frames'[i].edges
  BY <1>4 DEF Frame
<1>6. DiscoveredIsCalled'
  <2>1. Callers' = Callers
    BY <1>4, <1>5 DEF Callers
  <2> QED BY <1>2, <1>3, <2>1 DEF FullInv, Followed, DiscoveredIsCalled
<1>7. CallsExpand'
  <2>1. ~Undisc(Arrival(f))
    BY <1>1 DEF Fresh, Undisc
  <2>2. \A i \in 1..len : frames[i].limit > 0 =>
          \A g \in db : Catches(frames[i].node, g) => g \in frames[i].edges \/ ~Undisc(Arrival(g))
    BY <1>3 DEF FullInv, Followed, CallsExpand
  <2>3. ASSUME NEW i \in 1..len, frames'[i].limit > 0, NEW g \in db, Catches(frames'[i].node, g)
        PROVE  g \in frames'[i].edges \/ ~Undisc(Arrival(g))
    <3>1. g \in frames[i].edges \/ ~Undisc(Arrival(g))
      BY <1>5, <2>2, <2>3
    <3> QED BY <1>5, <2>1, <3>1
  <2> QED BY <1>2, <1>4, <2>3 DEF CallsExpand, Undisc, Catches, Arrival
<1> QED BY <1>3, <1>6, <1>7 DEF Followed

(* The call that returns had the limit that its trail left it. *)
LEMMA FollowedLeave ==
  ASSUME FullInv, Leave
  PROVE  Followed'
<1> SUFFICES ASSUME Listing' PROVE Followed'
  BY DEF Followed
<1> DEFINE len == Len(frames)
           n == Inner.node
<1>1. /\ len \in Nat \ {0} /\ n \in Node /\ n = frames[len].node
      /\ phase = "search" /\ status' = StatusOnVisit(query.op, n) /\ Inner.edges = {}
      /\ Len(frames') = len - 1 /\ \A i \in 1..(len - 1) : frames'[i] = frames[i]
      /\ UNCHANGED <<db, query, answers>> /\ Inner = frames[len]
  BY FramesLeave DEF Leave, FullInv, ListInv, SearchInv
<1>2. Listing /\ query \in Queries /\ query.op = "all_paths"
  BY <1>1 DEF Listing
<1>3. /\ \A m \in Node : m # n => status'[m] = status[m]
      /\ status'[n] = "VISITED" /\ status[n] = "DISCOVERED"
  <2>1. n \in Callers
    BY <1>1 DEF Callers
  <2>2. status' = [status EXCEPT ![n] = "VISITED"]
    BY <1>1, <1>2 DEF StatusOnVisit, TourOps
  <2> QED BY <1>1, <2>1, <2>2 DEF FullInv, ListInv, SearchInv, AssertsHold, Typed, TypeOK
<1>4. paths' = IF AtTarget(n) THEN Append(paths, trail) ELSE paths
  BY <1>2 DEF Leave
<1>5. IsTrail(trail) /\ Len(trail) = len /\ End(trail) = n /\ trail \in Seq(Node)
  BY <1>1, <1>2
  DEF FullInv, ListInv, TrailInv, SearchInv, Typed, TrailIsCallStack, TypeOK, End
<1>6. \A m \in Node : Undisc(m)' <=> Undisc(m)
  BY <1>3 DEF Undisc
<1>7. \A f \in db : Arrival(f) \in Node /\ Arrival(f)' = Arrival(f)
  BY <1>1, EdgesType, ArrivalType DEF Arrival, FullInv, ListInv, SearchInv, Typed
<1>8. \A m \in Node : Expanded(m)' <=> Expanded(m)
  <2>1. \A m, f : Catches(m, f)' <=> Catches(m, f)
    BY <1>1 DEF Catches
  <2> QED BY <1>1, <1>6, <1>7, <2>1 DEF Expanded
<1>9. DiscoveredIsCalled'
  <2>1. ASSUME NEW m \in Node, status'[m] = "DISCOVERED" PROVE m \in Callers'
    <3>1. m # n /\ m \in Callers
      BY <1>2, <1>3, <2>1 DEF FullInv, Followed, DiscoveredIsCalled
    <3>2. PICK i \in 1..len : m = frames[i].node
      BY <3>1 DEF Callers
    <3>3. i \in 1..(len - 1)
      BY <1>1, <3>1, <3>2
    <3> QED BY <1>1, <3>2, <3>3 DEF Callers
  <2>2. query.from \in Node
    BY <1>2, QueryType
  <2> QED BY <1>1, <1>2, <1>6, <2>1, <2>2 DEF FullInv, Followed, DiscoveredIsCalled, Undisc
<1>10. VisitedIsExpanded'
  <2>1. Len(trail) <= query.limit => Expanded(n)
    <3> SUFFICES ASSUME len <= query.limit PROVE Expanded(n)
      BY <1>5
    <3>1. frames[len].limit + len = DepthLimit(query) + 1 /\ frames[len].limit \in Nat
      <4>1. len \in 1..Len(frames) /\ frames[len] \in Frame
        BY <1>1 DEF FullInv, ListInv, SearchInv, Typed, TypeOK
      <4> QED BY <4>1 DEF FullInv, ListInv, SearchInv, Typed, Shape, Frame
    <3>2. DepthLimit(query) = query.limit /\ query.limit \in Nat
      BY <1>2, QueryType DEF DepthLimit
    <3>3. frames[len].limit > 0
      BY <1>1, <3>1, <3>2
    <3> QED BY <1>1, <1>2, <3>3 DEF FullInv, Followed, CallsExpand, Expanded
  <2>2. ASSUME NEW m \in Node, status'[m] = "VISITED"
        PROVE  \E p \in Seq(Node) : IsTrail(p) /\ End(p) = m /\ (Len(p) <= query.limit => Expanded(m))
    <3>1. CASE m = n
      BY <1>5, <2>1, <3>1
    <3>2. CASE m # n
      BY <1>2, <1>3, <2>2, <3>2 DEF FullInv, Followed, VisitedIsExpanded
    <3> QED BY <3>1, <3>2
  <2> QED BY <1>1, <1>8, <2>2, SameQuery DEF VisitedIsExpanded, End
<1>11. CallsExpand'
  <2>1. \A i \in 1..(len - 1) : frames[i].limit > 0 =>
          \A f \in db : Catches(frames[i].node, f) => f \in frames[i].edges \/ ~Undisc(Arrival(f))
    BY <1>1, <1>2 DEF FullInv, Followed, CallsExpand
  <2>2. \A f \in db : Undisc(Arrival(f))' <=> Undisc(Arrival(f))
    BY <1>6, <1>7 DEF Undisc
  <2> QED BY <1>1, <2>1, <2>2 DEF CallsExpand, Catches
<1>12. VisitedIsRecorded'
  <2>1. paths \in Seq(Seq(Node)) /\ Len(paths) \in Nat
    BY DEF FullInv, ListInv, SearchInv, Typed, TypeOK
  <2>2. /\ \A i \in 1..Len(paths) : i \in 1..Len(paths') /\ paths'[i] = paths[i]
        /\ AtTarget(n) => Len(paths') \in 1..Len(paths') /\ paths'[Len(paths')] = trail
    BY <1>4, <1>5, <2>1
  <2>3. ASSUME NEW m \in Node, status'[m] = "VISITED", AtTarget(m)
        PROVE  \E i \in 1..Len(paths') : End(paths'[i]) = m
    <3>1. CASE m = n
      BY <1>5, <2>2, <2>3, <3>1
    <3>2. CASE m # n
      BY <1>2, <1>3, <2>2, <2>3, <3>2 DEF FullInv, Followed, VisitedIsRecorded
    <3> QED BY <3>1, <3>2
  <2> QED BY <1>1, <2>3, SameQuery DEF VisitedIsRecorded, End
<1> QED BY <1>9, <1>10, <1>11, <1>12 DEF Followed

LEMMA FullInit == Init => FullInv
<1>1. Init => query \notin Queries
  BY QueriesAssumption, NullAssumption DEF Init, Unused
<1> QED BY <1>1, ListInit DEF FullInv, Followed, Listing

LEMMA FullStep == FullInv /\ [Next]_vars => FullInv'
<1> SUFFICES ASSUME FullInv, [Next]_vars PROVE FullInv'
  OBVIOUS
<1>1. ListInv'
  BY ListStep DEF FullInv
<1> SUFFICES ASSUME Listing' PROVE Followed'
  BY <1>1 DEF FullInv, Followed
<1>2. ASSUME NEW q \in Queries, Ask(q) PROVE Followed'
  BY <1>2, FollowedAsk
<1>3. ASSUME NEW q \in Queries, AskOutOfRange(q) PROVE Followed'
  BY <1>3 DEF AskOutOfRange, Listing
<1>4. CASE Descend
  BY <1>4, FollowedDescend
<1>5. CASE SkipEdge
  BY <1>5, FollowedSkipEdge
<1>6. CASE Leave
  BY <1>6, FollowedLeave
<1>7. CASE Convert \/ UNCHANGED vars
  <2>1. /\ phase \in {"search", "convert", "answered"}
        /\ UNCHANGED <<db, query, status, frames, paths>>
    BY <1>7 DEF Convert, vars, Listing
  <2>2. /\ Listing /\ ~Undisc(query.from)'
        /\ VisitedIsExpanded' /\ VisitedIsRecorded'
    BY <2>1, FollowedKept
  <2>3. DiscoveredIsCalled'
    BY <2>1, <2>2 DEF FullInv, Followed, DiscoveredIsCalled, Callers
  <2>4. CallsExpand'
    BY <2>1, <2>2 DEF FullInv, Followed, CallsExpand, Catches, Undisc, Arrival
  <2> QED BY <2>2, <2>3, <2>4 DEF Followed
<1>8. CASE Return
  <2>1. query' \notin Queries
    BY <1>8, QueriesAssumption, NullAssumption DEF Return
  <2> QED BY <2>1 DEF Listing
<1> QED BY <1>2, <1>3, <1>4, <1>5, <1>6, <1>7, <1>8 DEF Next, Step

LEMMA FullInvariant == Spec => []FullInv
BY FullInit, FullStep, PTL DEF Spec

(* Two itineraries that end in one arrival are one. *)
LEMMA OneItinerary ==
  ASSUME TypeOK, query \in Queries, OneWayToEach,
         NEW s \in Seq(db), NEW t \in Seq(db),
         IsItinerary(query.from, s), IsItinerary(query.from, t),
         LandsFrom(query.from, s) = LandsFrom(query.from, t)
  PROVE  s = t
<1>1. ASSUME NEW u \in Seq(db), NEW v \in Seq(db), u # <<>>,
             IsItinerary(query.from, u), IsItinerary(query.from, v),
             LandsFrom(query.from, u) = LandsFrom(query.from, v)
      PROVE  u = v
  <2> DEFINE f == u[Len(u)]
  <2>1. f \in db /\ LandsFrom(query.from, u) = Arrival(f) /\ LandsFrom(query.from, v) = Arrival(f)
    BY <1>1 DEF LandsFrom
  <2>2. /\ Cardinality(db) \in Nat /\ Len(u) <= Cardinality(db) /\ Len(v) <= Cardinality(db)
    BY <1>1, ItineraryLength DEF TypeOK
  <2>3. InTime(Arrival(f), Arrival(f))
    <3>1. Arrival(f) \in Node
      BY <2>1, EdgesType, ArrivalType
    <3>2. Arrival(f).no_sooner_than \in Int
      BY <3>1, DomainAssumption DEF Node
    <3> QED BY <3>2 DEF InTime
  <2> HIDE DEF f
  <2>4. /\ u \in Ways(query.from, Arrival(f), Cardinality(db))
        /\ v \in Ways(query.from, Arrival(f), Cardinality(db))
    BY <1>1, <2>1, <2>2, <2>3, WaysAre
  <2>5. /\ u = <<>> \/ Arrival(u[Len(u)]) = Arrival(f)
        /\ v = <<>> \/ Arrival(v[Len(v)]) = Arrival(f)
    BY <2>1 DEF LandsFrom
  <2> QED BY <2>1, <2>4, <2>5 DEF OneWayToEach
<1>2. CASE s # <<>>
  BY <1>1, <1>2
<1>3. CASE s = <<>> /\ t # <<>>
  BY <1>1, <1>3
<1> QED BY <1>2, <1>3

(* The first flights of an itinerary are one. *)
LEMMA FirstFlights ==
  ASSUME NEW n, NEW s \in Seq(db), IsItinerary(n, s), NEW k \in 0..Len(s)
  PROVE  \E t \in Seq(db) : /\ Len(t) = k /\ IsItinerary(n, t)
                            /\ LandsFrom(n, t) = IF k = 0 THEN n ELSE Arrival(s[k])
<1> DEFINE t == [i \in 1..k |-> s[i]]
<1>1. k \in Nat /\ \A i \in 1..k : i \in 1..Len(s) /\ s[i] \in db
  OBVIOUS
<1>2. t \in Seq(db) /\ Len(t) = k /\ \A i \in 1..k : t[i] = s[i]
  BY <1>1
<1> HIDE DEF t
<1>3. IsItinerary(n, t)
  <2> SUFFICES ASSUME NEW i \in 1..k PROVE Catches(IF i = 1 THEN n ELSE Arrival(t[i-1]), t[i])
    BY <1>2 DEF IsItinerary
  <2>1. t[i] = s[i] /\ (i # 1 => t[i-1] = s[i-1])
    <3>1. i # 1 => i - 1 \in 1..k
      OBVIOUS
    <3> QED BY <1>2, <3>1
  <2>2. Catches(IF i = 1 THEN n ELSE Arrival(s[i-1]), s[i])
    BY <1>1 DEF IsItinerary
  <2> QED BY <2>1, <2>2
<1>4. LandsFrom(n, t) = IF k = 0 THEN n ELSE Arrival(s[k])
  <2>1. CASE k = 0
    BY <1>2, <2>1 DEF LandsFrom
  <2>2. CASE k # 0
    <3>1. k \in 1..k /\ t # <<>>
      BY <1>1, <1>2, <2>2
    <3> QED BY <1>2, <2>2, <3>1 DEF LandsFrom
  <2> QED BY <2>1, <2>2
<1> QED BY <1>2, <1>3, <1>4

(* all_paths lists every connection within the limit if there is only one  *)
(* way to each arrival: what the search misses it misses because a node    *)
(* that was discovered once is not entered again.                          *)
THEOREM ListsAllIfOneWay == Spec => []AllListedIfOneWayToEach
<1>1. FullInv => AllListedIfOneWayToEach
  <2> SUFFICES ASSUME FullInv, Listed, OneWayToEach,
                      NEW s \in Ways(query.from, query.to, query.limit)
               PROVE  \E i \in 1..Len(answers) : answers[i] = s
    BY DEF AllListedIfOneWayToEach
  <2>1. /\ Listing /\ query \in Queries /\ TypeOK /\ frames = <<>>
        /\ query.from \in Node /\ query.to \in Node /\ query.limit \in Nat
    BY QueryType DEF Listed, Listing, FullInv, ListInv, SearchInv, Typed, Shape
  <2>2. /\ s \in Seq(db) /\ Len(s) \in Nat /\ Len(s) <= query.limit
        /\ IsItinerary(query.from, s) /\ InTime(LandsFrom(query.from, s), query.to)
    BY <2>1, WaysAre
  <2>3. /\ ~Undisc(query.from)
        /\ \A n \in Node : ~Undisc(n) => status[n] = "VISITED"
    <3>1. Callers = {}
      BY <2>1 DEF Callers
    <3> QED BY <2>1, <3>1 DEF FullInv, Followed, DiscoveredIsCalled, TypeOK, Status, Undisc
  <2> DEFINE At(k) == IF k = 0 THEN query.from ELSE Arrival(s[k])
             S == {k \in 0..Len(s) : At(k) \in Node /\ status[At(k)] = "VISITED"}
  <2>4. 0 \in S
    BY <2>1, <2>2, <2>3
  <2>5. ASSUME NEW k \in 0..(Len(s) - 1), k \in S PROVE k + 1 \in S
    <3> DEFINE f == s[k + 1]
    <3>1. /\ k + 1 \in 1..Len(s) /\ k + 1 \in 0..Len(s) /\ k \in 0..Len(s)
          /\ (k + 1) - 1 = k /\ k + 1 # 0 /\ f \in db
      BY <2>2
    <3>2. At(k) \in Node /\ status[At(k)] = "VISITED"
      BY <2>5
    <3>3. Catches(At(k), f)
      <4>1. CASE k = 0
        BY <2>2, <3>1, <4>1 DEF IsItinerary
      <4>2. CASE k # 0
        <5>1. k + 1 # 1
          BY <4>2
        <5> QED BY <2>2, <3>1, <4>2, <5>1 DEF IsItinerary
      <4> QED BY <4>1, <4>2
    <3>4. At(k + 1) = Arrival(f) /\ Arrival(f) \in Node
      BY <2>1, <3>1, EdgesType, ArrivalType
    <3>5. PICK p \in Seq(Node) : IsTrail(p) /\ End(p) = At(k) /\ (Len(p) <= query.limit => Expanded(At(k)))
      BY <2>1, <3>2 DEF FullInv, Followed, VisitedIsExpanded
    <3>6. PICK w \in Seq(db) : /\ Len(w) = Len(p) - 1
                               /\ IsItinerary(query.from, w) /\ LandsFrom(query.from, w) = At(k)
      BY <3>5, TrailIsItinerary
    <3>7. PICK t \in Seq(db) : Len(t) = k /\ IsItinerary(query.from, t) /\ LandsFrom(query.from, t) = At(k)
      BY <2>2, <3>1, FirstFlights
    <3>8. t = w
      BY <2>1, <3>6, <3>7, OneItinerary
    <3>9. Len(p) <= query.limit
      <4>1. Len(p) \in Nat
        BY <3>5
      <4> QED BY <2>1, <2>2, <3>6, <3>7, <3>8, <4>1
    <3>10. ~Undisc(Arrival(f))
      BY <3>1, <3>3, <3>5, <3>9 DEF Expanded
    <3> QED BY <2>3, <3>1, <3>4, <3>10
  <2>6. Len(s) \in S
    <3> HIDE DEF S
    <3>1. 0..Len(s) \subseteq S
      BY <2>2, <2>4, <2>5, UpTo
    <3> QED BY <2>2, <3>1
  <2>7. At(Len(s)) = LandsFrom(query.from, s)
    <3>1. Len(s) = 0 <=> s = <<>>
      BY <2>2
    <3> QED BY <3>1 DEF LandsFrom
  <2> DEFINE n == LandsFrom(query.from, s)
  <2>8. n \in Node /\ status[n] = "VISITED" /\ AtTarget(n)
    BY <2>2, <2>6, <2>7 DEF AtTarget, IsContinuousChild, InTime
  <2>9. PICK i \in 1..Len(paths) : End(paths[i]) = n
    BY <2>1, <2>8 DEF FullInv, Followed, VisitedIsRecorded
  <2>10. i \in 1..Len(answers) /\ Convertible(paths[i]) /\ answers[i] = ConvertPath(paths[i])
    BY DEF FullInv, ListInv, AnswersInv
  <2>11. IsTrail(paths[i])
    BY DEF FullInv, ListInv, PathsInv
  <2>12. /\ answers[i] \in Seq(db) /\ IsItinerary(query.from, answers[i])
         /\ LandsFrom(query.from, answers[i]) = n
    BY <2>9, <2>10, <2>11, ConvertedIsItinerary
  <2>13. answers[i] = s
    BY <2>1, <2>2, <2>12, OneItinerary
  <2> QED BY <2>10, <2>13
<1> QED BY <1>1, FullInvariant, PTL

-----------------------------------------------------------------------------
(***************************************************************************)
(* No query runs for ever.  Every node is called at most once, since only  *)
(* an undiscovered node is called; a call takes each edge of its node once.*)
(* Work weighs these against each other: a call that begins brings its     *)
(* edges with it, and a call that returns uncovers the edges of the call   *)
(* around it.                                                              *)
(***************************************************************************)

(* The numbers that Work is made of. *)
LEMMA WorkNumbers ==
  ASSUME SearchInv, phase = "search"
  PROVE  /\ query \in Queries /\ frames # <<>> /\ Len(frames) \in Nat \ {0}
         /\ Inner.edges \subseteq db /\ IsFiniteSet(Inner.edges)
         /\ IsFiniteSet(db) /\ Cardinality(db) \in Nat
         /\ Cardinality(Inner.edges) \in Nat /\ Cardinality(Inner.edges) <= Cardinality(db)
         /\ Cardinality(Unseen) \in Nat /\ Len(paths) \in Nat
<1>1. TypeOK /\ query \in Queries /\ frames # <<>> /\ Len(paths) \in Nat
  BY DEF SearchInv, Typed, TypeOK, Shape
<1>2. Len(frames) \in Nat \ {0} /\ Len(frames) \in 1..Len(frames)
  BY <1>1, OuterEffect
<1>3. Inner.edges \subseteq db
  BY <1>2 DEF SearchInv, Typed, Shape, Inner, DiscreteChildrenOf
<1>4. db \in Databases /\ query.from \in Node
  BY <1>1, QueryType DEF TypeOK
<1>5. IsFiniteSet(db) /\ IsFiniteSet(NodesFrom(query.from))
  BY <1>4, NodesAreFinite
<1>6. Cardinality(Unseen) \in Nat
  BY <1>5, Fewer DEF Unseen
<1> QED BY <1>1, <1>2, <1>3, <1>5, <1>6, Fewer

LEMMA SearchWorkIs ==
  ASSUME SearchInv, phase = "search"
  PROVE  /\ SearchWork \in Nat /\ SearchWork >= 2
         /\ Work = SearchWork + Len(paths) + 3
<1> DEFINE k == Cardinality(db) + 2
           b == 2 * Cardinality(Unseen) + Len(frames)
<1>1. /\ k \in Nat /\ k >= 2 /\ b \in Nat /\ 1 <= b /\ Cardinality(Inner.edges) \in Nat
      /\ SearchWork = k * b + Cardinality(Inner.edges)
  BY WorkNumbers DEF SearchWork
<1>2. k * b \in Nat /\ k <= k * b
  <2> HIDE DEF k, b
  <2>1. k * 0 + k <= k * b /\ k * b \in Nat
    BY <1>1, Times
  <2> QED BY <1>1, <2>1
<1> HIDE DEF k, b
<1> QED BY <1>1, <1>2 DEF Work

LEMMA SearchNumbers ==
  SearchInv /\ phase = "search" =>
    /\ SearchWork \in Nat /\ Work = SearchWork + Len(paths) + 3
    /\ Cardinality(Unseen) \in Nat /\ Len(frames) \in Nat
    /\ Cardinality(Inner.edges) \in Nat /\ Cardinality(Inner.edges) <= Cardinality(db)
    /\ Len(paths) \in Nat
BY SearchWorkIs, WorkNumbers

LessToDo == Work' \in 0..(Work - 1)

(* One call more or less outweighs the edges that come in with it. *)
LEMMA CallOutweighsEdges ==
  ASSUME NEW m \in Nat, NEW a \in Nat, NEW b \in Nat, NEW c \in Nat, NEW d \in Nat,
         NEW p \in Nat, NEW q \in Nat, a <= b - 1, c <= m, q <= p + 1
  PROVE  (m + 2) * a + c + q + 3 \in 0..(((m + 2) * b + d + p + 3) - 1)
<1> DEFINE k == m + 2
<1>1. k \in Nat /\ c <= k - 2
  OBVIOUS
<1> HIDE DEF k
<1>2. k * a \in Nat /\ k * b \in Nat /\ k * a + k <= k * b
  BY <1>1, Times
<1>3. k * a + c + q + 3 \in 0..((k * b + d + p + 3) - 1)
  BY <1>1, <1>2
<1> QED BY <1>3 DEF k

(* Two states of one search, a call entered or left between them. *)
LEMMA CallsGetOn ==
  ASSUME SearchInv, SearchInv', phase = "search", phase' = "search", db' = db,
         2 * Cardinality(Unseen') + Len(frames') <= 2 * Cardinality(Unseen) + Len(frames) - 1,
         Len(paths') <= Len(paths) + 1
  PROVE  LessToDo
<1> DEFINE m == Cardinality(db)
           a == 2 * Cardinality(Unseen') + Len(frames')
           b == 2 * Cardinality(Unseen) + Len(frames)
           c == Cardinality(Inner.edges)'
           d == Cardinality(Inner.edges)
<1>1. /\ m \in Nat /\ Cardinality(Unseen) \in Nat /\ Len(frames) \in Nat
      /\ d \in Nat /\ Len(paths) \in Nat /\ Work = (m + 2) * b + d + Len(paths) + 3
  BY SearchWorkIs, WorkNumbers DEF SearchWork
<1>2. (SearchInv /\ phase = "search" =>
         /\ SearchWork \in Nat /\ Work = SearchWork + Len(paths) + 3
         /\ Cardinality(Unseen) \in Nat /\ Len(frames) \in Nat
         /\ Cardinality(Inner.edges) \in Nat /\ Cardinality(Inner.edges) <= Cardinality(db)
         /\ Len(paths) \in Nat)'
  BY SearchNumbers, PTL
<1>3. /\ Cardinality(Unseen') \in Nat /\ Len(frames') \in Nat
      /\ c \in Nat /\ c <= m /\ Len(paths') \in Nat
  BY <1>2
<1>4. Work' = (m + 2) * a + c + Len(paths') + 3
  BY DEF Work, SearchWork
<1>5. a \in Nat /\ b \in Nat
  <2>1. \A u, l \in Nat : 2 * u + l \in Nat
    OBVIOUS
  <2> HIDE DEF m, c, d
  <2>2. a \in Nat
    BY <1>3, <2>1
  <2>3. b \in Nat
    BY <1>1, <2>1
  <2> QED BY <2>2, <2>3
<1>6. a <= b - 1 /\ Len(paths') <= Len(paths) + 1
  BY <1>1, <1>3
<1> HIDE DEF m, a, b, c, d
<1>7. (m + 2) * a + c + Len(paths') + 3 \in 0..(((m + 2) * b + d + Len(paths) + 3) - 1)
  BY <1>1, <1>3, <1>5, <1>6, CallOutweighsEdges
<1>8. Work' \in 0..(Work - 1)
  BY <1>1, <1>4, <1>7, Zenon
<1> QED BY <1>8 DEF LessToDo

(* A call enters an undiscovered node, of which there is one less then. *)
LEMMA WorkDescend ==
  ASSUME SearchInv, DiscoveredWithin, SearchInv', Descend
  PROVE  DiscoveredWithin' /\ LessToDo
<1>1. PICK f \in FirstOf(Inner.edges) :
        /\ Fresh(Arrival(f))
        /\ status' = StatusOnDiscover(query.op, Arrival(f))
        /\ frames' = Append(Advanced(f), Call(Arrival(f), LimitBelow))
  BY DEF Descend
<1>2. /\ phase = "search" /\ phase' = "search" /\ UNCHANGED <<db, query, paths>>
      /\ Typed /\ query \in Queries /\ Len(paths) \in Nat
  BY WorkNumbers DEF Descend, SearchInv
<1>3. Arrival(f) \in NodesFrom(query.from) /\ status[Arrival(f)] = "UNDISCOVERED"
  BY <1>1, <1>2, EdgeType DEF NodesFrom, Fresh
<1>4. db \in Databases /\ status \in [Node -> Status]
  BY <1>2 DEF Typed, TypeOK
<1>5. /\ DiscoveredWithin'
      /\ Cardinality(Unseen) \in Nat /\ Cardinality(Unseen') \in Nat
      /\ Cardinality(Unseen') <= Cardinality(Unseen) - 1
  BY <1>1, <1>2, <1>3, <1>4, DiscoverLeavesFewer
<1>6. Len(frames) \in Nat \ {0} /\ Len(frames') = Len(frames) + 1
  BY <1>1, <1>2, NodesDescend
<1>7. 2 * Cardinality(Unseen') + Len(frames') <= 2 * Cardinality(Unseen) + Len(frames) - 1
  BY <1>5, <1>6
<1> QED BY <1>2, <1>5, <1>7, CallsGetOn

(* An edge is taken and leads to a node discovered before. *)
LEMMA WorkSkipEdge ==
  ASSUME SearchInv, DiscoveredWithin, SearchInv', SkipEdge
  PROVE  DiscoveredWithin' /\ LessToDo
<1>1. PICK f \in FirstOf(Inner.edges) : frames' = Advanced(f)
  BY DEF SkipEdge
<1>2. /\ phase = "search" /\ phase' = "search" /\ UNCHANGED <<db, query, status, paths>>
      /\ TypeOK /\ frames # <<>>
  BY WorkNumbers DEF SkipEdge, SearchInv, Typed
<1>3. /\ Len(frames) \in Nat \ {0} /\ Inner \in Frame
      /\ Len(frames') = Len(frames) /\ frames'[Len(frames)] = [Inner EXCEPT !.edges = @ \ {f}]
  BY <1>1, <1>2, AdvancedEffect, OuterEffect
<1>4. Inner.edges' = Inner.edges \ {f} /\ f \in Inner.edges
  BY <1>1, <1>3 DEF Inner, Frame, FirstOf
<1>5. IsFiniteSet(Inner.edges)
  BY <1>2, WorkNumbers
<1>6. /\ Cardinality(Inner.edges') \in Nat /\ Cardinality(Inner.edges) \in Nat
      /\ Cardinality(Inner.edges') <= Cardinality(Inner.edges) - 1
  BY <1>4, <1>5, Fewer
<1>7. Unseen' = Unseen /\ DiscoveredWithin'
  BY <1>2, SameUnseen
<1>8. SearchWork \in Nat /\ Work = SearchWork + Len(paths) + 3 /\ Len(paths) \in Nat
  BY <1>2, SearchWorkIs, WorkNumbers
<1>9. Work' = SearchWork' + Len(paths) + 3
  BY <1>2 DEF Work
<1> DEFINE n == (Cardinality(db) + 2) * (2 * Cardinality(Unseen) + Len(frames))
<1>10. n \in Nat
  BY <1>2, WorkNumbers
<1>11. SearchWork = n + Cardinality(Inner.edges) /\ SearchWork' = n + Cardinality(Inner.edges')
  BY <1>2, <1>3, <1>7 DEF SearchWork
<1> HIDE DEF n
<1>12. SearchWork' \in Nat /\ SearchWork' <= SearchWork - 1
  BY <1>6, <1>10, <1>11
<1> QED BY <1>7, <1>8, <1>9, <1>12 DEF LessToDo

(* A call returns to the call around it, or to the query. *)
LEMMA WorkLeave ==
  ASSUME SearchInv, DiscoveredWithin, SearchInv', Leave
  PROVE  DiscoveredWithin' /\ LessToDo
<1>1. /\ phase = "search" /\ UNCHANGED <<db, query, answers>>
      /\ status' = StatusOnVisit(query.op, Inner.node)
      /\ frames' = Outer /\ phase' \in {"search", "answered", "convert"}
      /\ paths' = paths \/ paths' = Append(paths, trail)
  BY DEF Leave
<1>2. /\ Len(frames) \in Nat \ {0} /\ Len(frames') = Len(frames) - 1
      /\ query \in Queries /\ Inner.node \in Node /\ Inner.node = frames[Len(frames)].node
      /\ db \in Databases /\ status \in [Node -> Status]
  BY FramesLeave DEF SearchInv, Typed, TypeOK
<1>3. Inner.node \in NodesFrom(query.from) /\ status[Inner.node] # "UNDISCOVERED"
  <2>1. status[Inner.node] = "DISCOVERED"
    BY <1>2 DEF SearchInv, AssertsHold, Callers
  <2> QED BY <1>2, <2>1 DEF DiscoveredWithin
<1>4. /\ DiscoveredWithin'
      /\ Cardinality(Unseen) \in Nat /\ Cardinality(Unseen') \in Nat
      /\ Cardinality(Unseen') <= Cardinality(Unseen)
  BY <1>1, <1>2, <1>3, VisitLeavesNoMore
<1>5. /\ Len(paths) \in Nat /\ Len(paths') \in Nat /\ Len(paths') <= Len(paths) + 1
      /\ Len(answers') \in Nat /\ Len(answers') <= Len(paths')
  <2>1. /\ Len(paths) \in Nat /\ Len(paths') \in Nat /\ Len(answers') \in Nat
        /\ Len(answers') <= Len(paths')
    BY DEF SearchInv, Typed, TypeOK, Shape
  <2>2. paths \in Seq(Seq(Node)) /\ trail \in Seq(Node)
    BY DEF SearchInv, Typed, TypeOK
  <2>3. Len(paths') <= Len(paths) + 1
    BY <1>1, <2>1, <2>2
  <2> QED BY <2>1, <2>3
<1>6. CASE phase' = "search"
  <2>1. 2 * Cardinality(Unseen') + Len(frames') <= 2 * Cardinality(Unseen) + Len(frames) - 1
    BY <1>2, <1>4
  <2> QED BY <1>1, <1>4, <1>5, <1>6, <2>1, CallsGetOn
<1>7. CASE phase' # "search"
  <2>1. SearchWork \in Nat /\ SearchWork >= 2 /\ Work = SearchWork + Len(paths) + 3
    BY <1>1, SearchWorkIs
  <2>2. Work' = 1 \/ Work' = Len(paths') - Len(answers') + 2
    BY <1>1, <1>7 DEF Work
  <2> QED BY <1>4, <1>5, <2>1, <2>2 DEF LessToDo
<1> QED BY <1>6, <1>7

(* The conversion takes a path each time; an answer or an error is the end.*)
LEMMA WorkOther ==
  ASSUME SearchInv, DiscoveredWithin, SearchInv', Convert \/ Return
  PROVE  DiscoveredWithin' /\ LessToDo
<1>1. CASE Convert
  <2>1. /\ phase = "convert" /\ UNCHANGED <<db, query, status, paths>>
        /\ \/ phase' \in {"answered", "error"}
           \/ \E s : answers' = Append(answers, s) /\ phase' = "convert"
    BY <1>1 DEF Convert
  <2>2. /\ Len(paths) \in Nat /\ Len(answers) \in Nat /\ Len(answers) <= Len(paths)
        /\ Len(answers') \in Nat /\ Len(answers') <= Len(paths')
        /\ answers \in Seq(Seq(Flight))
    BY DEF SearchInv, Typed, TypeOK, Shape
  <2>3. Work = Len(paths) - Len(answers) + 2
    BY <2>1 DEF Work
  <2>4. DiscoveredWithin'
    BY <2>1, SameUnseen
  <2>5. CASE phase' \in {"answered", "error"}
    <3>1. Work' = 1
      BY <2>5 DEF Work
    <3> QED BY <2>2, <2>3, <2>4, <3>1 DEF LessToDo
  <2>6. CASE phase' = "convert"
    <3>1. Work' = Len(paths) - Len(answers') + 2
      BY <2>1, <2>6 DEF Work
    <3>2. PICK s : answers' = Append(answers, s)
      BY <2>1, <2>6
    <3>3. Len(answers') = Len(answers) + 1
      BY <2>2, <3>2
    <3> QED BY <2>1, <2>2, <2>3, <2>4, <3>1, <3>3 DEF LessToDo
  <2> QED BY <2>1, <2>5, <2>6
<1>2. CASE Return
  <2>1. phase \in {"answered", "error"} /\ phase' = "idle"
    BY <1>2 DEF Return
  <2>2. Work = 1 /\ Work' = 0
    BY <2>1 DEF Work
  <2>3. DiscoveredWithin'
    BY <1>2, QueriesAssumption, NullAssumption DEF Return, DiscoveredWithin
  <2> QED BY <2>2, <2>3 DEF LessToDo
<1> QED BY <1>1, <1>2

(* A query begins: its start is discovered, with its airport if it tours.  *)
LEMMA WorkAsk ==
  ASSUME SearchInv, NEW q \in Queries, Ask(q) \/ AskOutOfRange(q)
  PROVE  DiscoveredWithin'
<1>1. phase = "idle" /\ Unused /\ query' = q /\ db' = db /\ q.from \in Node
  BY QueryType DEF Ask, AskOutOfRange, SearchInv, Typed, Shape
<1>2. \A n \in Node : status[n] = "UNDISCOVERED"
  BY <1>1 DEF Unused, Undiscovered
<1>3. CASE Ask(q)
  <2>1. status' = StatusOnDiscover(q.op, q.from) /\ status \in [Node -> Status]
    BY <1>3 DEF Ask, SearchInv, Typed, TypeOK
  <2>2. \A k \in Node : status'[k] =
          IF \/ k = q.from
             \/ q.op \in TourOps /\ k \in ArrivalsAt(q.from.airport) /\ status[k] = "UNDISCOVERED"
          THEN "DISCOVERED" ELSE status[k]
    BY <1>1, <2>1, DiscoverEffect
  <2>3. q.from \in NodesFrom(q.from) /\ ArrivalsAt(q.from.airport) \subseteq NodesFrom(q.from)
    BY DEF ArrivalsAt, NodesFrom
  <2>4. NodesFrom(query.from)' = NodesFrom(q.from)
    BY <1>1 DEF NodesFrom, Arrival
  <2> QED BY <1>2, <2>2, <2>3, <2>4 DEF DiscoveredWithin
<1>4. CASE AskOutOfRange(q)
  BY <1>2, <1>4 DEF AskOutOfRange, DiscoveredWithin
<1> QED BY <1>3, <1>4

LEMMA WorkStep ==
  ASSUME SearchInv, SearchInv', DiscoveredWithin, [Next]_vars
  PROVE  DiscoveredWithin' /\ (phase # "idle" /\ ~UNCHANGED vars => LessToDo)
<1>1. CASE UNCHANGED vars
  BY <1>1, SameUnseen DEF vars
<1>2. ASSUME NEW q \in Queries, Ask(q) \/ AskOutOfRange(q)
      PROVE  DiscoveredWithin' /\ phase = "idle"
  BY <1>2, WorkAsk DEF Ask, AskOutOfRange
<1> QED BY <1>1, <1>2, WorkDescend, WorkSkipEdge, WorkLeave, WorkOther DEF Next, Step

LEMMA OnlyReachedAreDiscovered == Spec => [](SearchInv /\ DiscoveredWithin)
<1>1. Init => DiscoveredWithin
  BY QueriesAssumption, NullAssumption DEF Init, Unused, DiscoveredWithin
<1>2. SearchInv /\ DiscoveredWithin /\ [Next]_vars => (SearchInv /\ DiscoveredWithin)'
  BY SearchStep, WorkStep
<1> QED BY <1>1, <1>2, SearchInit, PTL DEF Spec

(* No query runs for ever: each step of the recursion and of the loop that *)
(* converts the paths leaves fewer to take, whatever the depth limit and   *)
(* however the records are connected.                                      *)
THEOREM QueriesEnd == Spec => QueryGetsOn
<1>1. (SearchInv /\ DiscoveredWithin) /\ (SearchInv /\ DiscoveredWithin)' /\ [Next]_vars =>
        [phase # "idle" => Work' \in 0..(Work - 1)]_vars
  BY WorkStep DEF LessToDo
<1> QED BY <1>1, OnlyReachedAreDiscovered, PTL DEF Spec, QueryGetsOn

(* While a query searches there is a call in progress, and one with edges  *)
(* left has a next one.                                                    *)
THEOREM QueriesNeverStick ==
  Spec => [](phase = "search" => /\ frames # <<>>
                                 /\ Inner.edges # {} => FirstOf(Inner.edges) # {})
<1>1. ASSUME SearchInv, phase = "search" PROVE Inner.edges # {} => FirstOf(Inner.edges) # {}
  <2>1. Inner.edges \subseteq Flight /\ IsFiniteSet(Inner.edges)
    BY <1>1, WorkNumbers, EdgesType DEF SearchInv, Typed
  <2> QED BY <2>1, EdgeToTake
<1>2. SearchInv => (phase = "search" => /\ frames # <<>>
                                        /\ Inner.edges # {} => FirstOf(Inner.edges) # {})
  BY <1>1, WorkNumbers
<1> QED BY <1>2, OnlyReachedAreDiscovered, PTL
===============================================================================
