----------------------------- MODULE ListProofs -----------------------------
(***************************************************************************)
(* Theorems about List, for any lists, values and finite memory.  The      *)
(* pointers are related to one explicit sequence of nodes for each list,   *)
(* on which an insertion or an erasure changes one place (Linked); that    *)
(* Iterators computes these sequences is shown once (WalkMeets).  What a   *)
(* list holds for its clients, and the turns its loops have left, are then *)
(* parts of the sequence of its values (Elements).                         *)
(***************************************************************************)
EXTENDS List, FiniteSetTheorems, SequenceTheorems, WellFoundedInduction, TLAPS

(* The node before place i. *)
Pred(r, l, i) == IF i = 1 THEN l ELSE r[l][i - 1]

(* r[l] is what one meets along nx from the dummy of l on, pv leads back   *)
(* along it, and sz counts it; no node is met twice, and none is lost.     *)
Linked(nx, pv, sz, r) ==
  /\ nx \in [Node -> Node \cup {Null}]
  /\ pv \in [Node -> Node \cup {Null}]
  /\ sz \in [Lists -> Nat]
  /\ r \in [Lists -> Seq(Node)]
  /\ \A l \in Lists :
       /\ DOMAIN r[l] = 1..(sz[l] + 1)
       /\ r[l][sz[l] + 1] = l
       /\ \A i \in 1..sz[l] : r[l][i] \in Heap
       /\ \A i \in 1..(sz[l] + 1) :
            nx[Pred(r, l, i)] = r[l][i] /\ pv[r[l][i]] = Pred(r, l, i)
  /\ \A l, m \in Lists : \A i \in 1..(sz[l] + 1), j \in 1..(sz[m] + 1) :
       r[l][i] = r[m][j] => l = m /\ i = j
  /\ \A h \in Heap : nx[h] # Null => \E l \in Lists : \E i \in 1..sz[l] : r[l][i] = h

With(s, k, n) == [i \in 1..(Len(s) + 1) |-> IF i < k THEN s[i] ELSE IF i = k THEN n ELSE s[i - 1]]
Without(s, k) == [i \in 1..(Len(s) - 1) |-> IF i < k THEN s[i] ELSE s[i + 1]]

(* What one can read off the definition at one place. *)
LEMMA AtPlace ==
  ASSUME NEW nx, NEW pv, NEW sz, NEW r, Linked(nx, pv, sz, r),
         NEW l \in Lists, NEW i \in 1..(sz[l] + 1)
  PROVE  /\ sz[l] \in Nat /\ Len(r[l]) = sz[l] + 1 /\ r[l] \in Seq(Node)
         /\ r[l][i] \in Node /\ r[l][i] # Null /\ nx[r[l][i]] # Null
         /\ Pred(r, l, i) \in Node /\ Pred(r, l, i) # Null
         /\ nx[Pred(r, l, i)] = r[l][i] /\ pv[r[l][i]] = Pred(r, l, i)
         /\ i <= sz[l] => r[l][i] \in Heap /\ r[l][i] # l
         /\ i > sz[l] => r[l][i] = l /\ l \notin Heap
<1>1. /\ sz[l] \in Nat /\ Len(r[l]) = sz[l] + 1 /\ r[l] \in Seq(Node) /\ l \in Node
      /\ r[l][i] \in Node /\ r[l][i] # Null
  BY NodeAssumption DEF Linked, Node
<1>2. /\ nx[Pred(r, l, i)] = r[l][i] /\ pv[r[l][i]] = Pred(r, l, i)
  BY DEF Linked
<1>3. Pred(r, l, i) \in Node /\ Pred(r, l, i) # Null
  <2>1. CASE i = 1
    BY <2>1, <1>1, NodeAssumption DEF Pred
  <2>2. CASE i # 1
    <3>1. i - 1 \in 1..(sz[l] + 1)
      BY <1>1, <2>2
    <3>2. r[l][i - 1] \in Node
      BY <1>1, <3>1
    <3> QED BY <2>2, <3>2, NodeAssumption DEF Pred
  <2> QED BY <2>1, <2>2
<1>4. nx[r[l][i]] # Null
  <2>1. CASE i = sz[l] + 1
    <3>1. 1 \in 1..(sz[l] + 1) /\ r[l][1] \in Node
      BY <1>1
    <3>2. nx[l] = r[l][1]
      BY <3>1 DEF Linked, Pred
    <3> QED BY <2>1, <3>1, <3>2, NodeAssumption DEF Linked
  <2>2. CASE i # sz[l] + 1
    <3>1. i + 1 \in 1..(sz[l] + 1) /\ i + 1 # 1 /\ (i + 1) - 1 = i
      BY <1>1, <2>2
    <3>2. r[l][i + 1] \in Node
      BY <1>1, <3>1
    <3>3. nx[Pred(r, l, i + 1)] = r[l][i + 1]
      BY <3>1 DEF Linked
    <3> QED BY <3>1, <3>2, <3>3, NodeAssumption DEF Pred
  <2> QED BY <2>1, <2>2
<1>5. i <= sz[l] => r[l][i] \in Heap /\ r[l][i] # l
  BY <1>1, NodeAssumption DEF Linked
<1>6. i > sz[l] => r[l][i] = l /\ l \notin Heap
  BY <1>1, NodeAssumption DEF Linked
<1> QED BY <1>1, <1>2, <1>3, <1>4, <1>5, <1>6

(* Distinct places have distinct nodes, and distinct nodes before them. *)
LEMMA Apart ==
  ASSUME NEW nx, NEW pv, NEW sz, NEW r, Linked(nx, pv, sz, r),
         NEW l \in Lists, NEW i \in 1..(sz[l] + 1), NEW m \in Lists, NEW j \in 1..(sz[m] + 1)
  PROVE  /\ r[l][i] = r[m][j] => l = m /\ i = j
         /\ Pred(r, l, i) = Pred(r, m, j) => l = m /\ i = j
BY DEF Linked

(* A node that is inserted before place k takes that place. *)
LEMMA InsertLinks ==
  ASSUME NEW nx, NEW pv, NEW sz, NEW r, Linked(nx, pv, sz, r),
         NEW l \in Lists, NEW k \in 1..(sz[l] + 1), NEW n \in Heap, nx[n] = Null
  PROVE  Linked([nx EXCEPT ![n] = r[l][k], ![pv[r[l][k]]] = n],
                [pv EXCEPT ![n] = pv[r[l][k]], ![r[l][k]] = n],
                [sz EXCEPT ![l] = @ + 1],
                [r EXCEPT ![l] = With(r[l], k, n)])
<1> DEFINE pos == r[l][k]
           p == pv[r[l][k]]
           nx2 == [nx EXCEPT ![n] = pos, ![p] = n]
           pv2 == [pv EXCEPT ![n] = p, ![pos] = n]
           sz2 == [sz EXCEPT ![l] = @ + 1]
           s == With(r[l], k, n)
           r2 == [r EXCEPT ![l] = s]
<1>1. /\ nx \in [Node -> Node \cup {Null}] /\ pv \in [Node -> Node \cup {Null}]
      /\ sz \in [Lists -> Nat] /\ r \in [Lists -> Seq(Node)]
      /\ n \in Node /\ n # Null /\ sz[l] \in Nat /\ Len(r[l]) = sz[l] + 1
  BY AtPlace, NodeAssumption DEF Linked, Node
<1>2. /\ p = Pred(r, l, k) /\ pos \in Node /\ p \in Node /\ pos # Null /\ p # Null
      /\ nx[pos] # Null /\ nx[p] # Null
  BY AtPlace
<1>3. n # pos /\ n # p
  BY <1>2
<1>4. /\ nx2 \in [Node -> Node \cup {Null}] /\ pv2 \in [Node -> Node \cup {Null}]
      /\ nx2[n] = pos /\ nx2[p] = n /\ \A h \in Node \ {n, p} : nx2[h] = nx[h]
      /\ pv2[n] = p /\ pv2[pos] = n /\ \A h \in Node \ {n, pos} : pv2[h] = pv[h]
  BY <1>1, <1>2, <1>3
<1>5. /\ sz2 \in [Lists -> Nat] /\ sz2[l] = sz[l] + 1
      /\ \A m \in Lists \ {l} : sz2[m] = sz[m]
  BY <1>1
<1>6. /\ s \in Seq(Node) /\ DOMAIN s = 1..(sz2[l] + 1) /\ s[k] = n
      /\ \A i \in 1..(k - 1) : s[i] = r[l][i]
      /\ \A i \in (k + 1)..(sz2[l] + 1) : s[i] = r[l][i - 1] /\ i - 1 \in k..(sz[l] + 1)
  <2>1. \A i \in 1..(sz[l] + 1) : r[l][i] \in Node
    BY AtPlace
  <2>2. s = [i \in 1..(sz[l] + 2) |-> IF i < k THEN r[l][i] ELSE IF i = k THEN n ELSE r[l][i - 1]]
    BY <1>1 DEF With
  <2>3. s \in [1..(sz[l] + 2) -> Node]
    <3> HIDE DEF s
    <3> SUFFICES ASSUME NEW i \in 1..(sz[l] + 2)
                 PROVE  (IF i < k THEN r[l][i] ELSE IF i = k THEN n ELSE r[l][i - 1]) \in Node
      BY <2>2
    <3>1. CASE i < k
      BY <3>1, <2>1, <1>1
    <3>2. CASE i > k
      <4>1. i - 1 \in 1..(sz[l] + 1)
        BY <3>2, <1>1
      <4> QED BY <3>2, <4>1, <2>1
    <3> QED BY <3>1, <3>2, <1>1
  <2> HIDE DEF s
  <2>4. s \in Seq(Node)
    <3>1. sz[l] + 2 \in Nat
      BY <1>1
    <3> HIDE DEF pos, p
    <3> QED BY <2>3, <3>1
  <2> QED BY <2>2, <2>3, <2>4, <1>1, <1>5
<1> HIDE DEF s
<1>7. r2 \in [Lists -> Seq(Node)] /\ r2[l] = s /\ \A m \in Lists \ {l} : r2[m] = r[m]
  BY <1>1, <1>6
<1> HIDE DEF nx2, pv2, sz2, r2, pos, p
<1>8. ASSUME NEW m \in Lists
      PROVE  /\ DOMAIN r2[m] = 1..(sz2[m] + 1)
             /\ r2[m][sz2[m] + 1] = m
             /\ \A i \in 1..sz2[m] : r2[m][i] \in Heap
             /\ \A i \in 1..(sz2[m] + 1) :
                  nx2[Pred(r2, m, i)] = r2[m][i] /\ pv2[r2[m][i]] = Pred(r2, m, i)
  <2>1. CASE m # l
    <3>1. sz2[m] = sz[m] /\ r2[m] = r[m]
      BY <2>1, <1>5, <1>7
    <3>2. \A i \in 1..(sz[m] + 1) : Pred(r2, m, i) = Pred(r, m, i)
      BY <3>1 DEF Pred
    <3>3. ASSUME NEW i \in 1..(sz[m] + 1)
          PROVE  nx2[Pred(r, m, i)] = r[m][i] /\ pv2[r[m][i]] = Pred(r, m, i)
      <4>1. Pred(r, m, i) # p /\ r[m][i] # pos
        BY <2>1, <1>2, Apart DEF pos
      <4>2. /\ Pred(r, m, i) \in Node /\ r[m][i] \in Node
            /\ nx[Pred(r, m, i)] = r[m][i] /\ pv[r[m][i]] = Pred(r, m, i)
            /\ r[m][i] # Null /\ nx[r[m][i]] # Null
        BY AtPlace
      <4>3. Pred(r, m, i) # n /\ r[m][i] # n
        BY <4>2
      <4> QED BY <4>1, <4>2, <4>3, <1>4
    <3> QED BY <3>1, <3>2, <3>3 DEF Linked
  <2>2. CASE m = l
    <3>1. r2[m] = s /\ sz2[m] = sz[l] + 1
      BY <2>2, <1>5, <1>7
    <3>2. s[sz2[l] + 1] = l
      <4>1. sz2[l] + 1 \in (k + 1)..(sz2[l] + 1)
        BY <1>1, <1>5
      <4> QED BY <4>1, <1>1, <1>5, <1>6 DEF Linked
    <3>3. \A i \in 1..sz2[l] : s[i] \in Heap
      <4> TAKE i \in 1..sz2[l]
      <4>0. \A j \in 1..sz[l] : r[l][j] \in Heap
        BY DEF Linked
      <4>1. CASE i < k
        <5>1. i \in 1..(k - 1) /\ i \in 1..sz[l]
          BY <4>1, <1>1, <1>5
        <5> QED BY <5>1, <4>0, <1>6
      <4>2. CASE i > k
        <5>1. i - 1 \in 1..sz[l] /\ i \in (k + 1)..(sz2[l] + 1)
          BY <4>2, <1>1, <1>5
        <5> QED BY <5>1, <4>0, <1>6
      <4>3. CASE i = k
        BY <4>3, <1>6
      <4>4. i \in Int /\ k \in Int
        BY <1>5, <1>1
      <4> QED BY <4>1, <4>2, <4>3, <4>4
    <3>4. ASSUME NEW i \in 1..(sz[l] + 2)
          PROVE  nx2[Pred(r2, l, i)] = s[i] /\ pv2[s[i]] = Pred(r2, l, i)
      <4>1. CASE i < k
        <5>1. i \in 1..(sz[l] + 1) /\ s[i] = r[l][i]
          BY <4>1, <1>1, <1>6
        <5>2. Pred(r2, l, i) = Pred(r, l, i)
          BY <4>1, <1>7, <1>6, <1>1 DEF Pred
        <5>3. Pred(r, l, i) # p /\ r[l][i] # pos
          BY <5>1, <4>1, <1>2, Apart DEF pos
        <5>4. /\ Pred(r, l, i) \in Node /\ r[l][i] \in Node
              /\ nx[Pred(r, l, i)] = r[l][i] /\ pv[r[l][i]] = Pred(r, l, i)
              /\ r[l][i] # Null /\ nx[r[l][i]] # Null
          BY <5>1, AtPlace
        <5>5. Pred(r, l, i) # n /\ r[l][i] # n
          BY <5>4
        <5> QED BY <5>1, <5>2, <5>3, <5>4, <5>5, <1>4
      <4>2. CASE i = k
        <5>1. Pred(r2, l, i) = p
          BY <4>2, <1>2, <1>7, <1>6, <1>1 DEF Pred
        <5> QED BY <4>2, <5>1, <1>4, <1>6
      <4>3. CASE i = k + 1
        <5>1. i # 1 /\ i - 1 = k /\ i \in (k + 1)..(sz2[l] + 1)
          BY <4>3, <1>1, <1>5
        <5>2. Pred(r2, l, i) = n /\ s[i] = pos
          BY <5>1, <1>7, <1>6 DEF Pred, pos
        <5> QED BY <5>2, <1>4
      <4>4. CASE i > k + 1
        <5>1. /\ i - 1 \in 1..(sz[l] + 1) /\ i - 1 > k /\ i - 1 # 1 /\ i # 1
              /\ i \in (k + 1)..(sz2[l] + 1) /\ i - 1 \in (k + 1)..(sz2[l] + 1)
          BY <4>4, <1>1, <1>5
        <5>2. s[i] = r[l][i - 1] /\ s[i - 1] = r[l][(i - 1) - 1]
          BY <5>1, <1>6
        <5>3. Pred(r2, l, i) = Pred(r, l, i - 1)
          BY <5>1, <5>2, <1>7 DEF Pred
        <5>4. Pred(r, l, i - 1) # p /\ r[l][i - 1] # pos
          BY <5>1, <1>2, Apart DEF pos
        <5>5. /\ Pred(r, l, i - 1) \in Node /\ r[l][i - 1] \in Node
              /\ nx[Pred(r, l, i - 1)] = r[l][i - 1] /\ pv[r[l][i - 1]] = Pred(r, l, i - 1)
              /\ r[l][i - 1] # Null /\ nx[r[l][i - 1]] # Null
          BY <5>1, AtPlace
        <5>6. Pred(r, l, i - 1) # n /\ r[l][i - 1] # n
          BY <5>5
        <5> QED BY <5>2, <5>3, <5>4, <5>5, <5>6, <1>4
      <4> QED BY <4>1, <4>2, <4>3, <4>4, <1>1
    <3>5. sz2[l] + 1 = sz[l] + 2
      BY <1>5, <1>1
    <3> QED BY <2>2, <3>1, <3>2, <3>3, <3>4, <3>5, <1>5, <1>6
  <2> QED BY <2>1, <2>2
<1>9. ASSUME NEW m \in Lists, NEW i \in 1..(sz2[m] + 1)
      PROVE  \/ r2[m][i] = n /\ m = l /\ i = k
             \/ /\ r2[m][i] # n
                /\ \E j \in 1..(sz[m] + 1) :
                     /\ r2[m][i] = r[m][j]
                     /\ IF m = l /\ i > k THEN j = i - 1 ELSE j = i /\ (m = l => i < k)
  <2>1. \A j \in 1..(sz[m] + 1) : r[m][j] # n
    BY AtPlace
  <2>2. CASE m # l
    BY <2>1, <2>2, <1>5, <1>7
  <2>3. CASE m = l /\ i < k
    <3>1. i \in 1..(sz[m] + 1) /\ r2[m][i] = r[m][i]
      BY <2>3, <1>1, <1>6, <1>7
    <3> QED BY <2>1, <2>3, <3>1
  <2>4. CASE m = l /\ i = k
    BY <2>4, <1>6, <1>7
  <2>5. CASE m = l /\ i > k
    <3>1. i \in (k + 1)..(sz2[l] + 1)
      BY <2>5, <1>1, <1>5
    <3>2. i - 1 \in 1..(sz[m] + 1) /\ r2[m][i] = r[m][i - 1]
      BY <3>1, <2>5, <1>1, <1>6, <1>7
    <3> QED BY <2>1, <2>5, <3>2
  <2> QED BY <2>2, <2>3, <2>4, <2>5, <1>5, <1>1
<1>10. ASSUME NEW m \in Lists, NEW o \in Lists,
              NEW i \in 1..(sz2[m] + 1), NEW j \in 1..(sz2[o] + 1), r2[m][i] = r2[o][j]
       PROVE  m = o /\ i = j
  <2>1. CASE r2[m][i] = n
    BY <2>1, <1>9, <1>10
  <2>2. CASE r2[m][i] # n
    <3>1. PICK a \in 1..(sz[m] + 1) :
            /\ r2[m][i] = r[m][a]
            /\ IF m = l /\ i > k THEN a = i - 1 ELSE a = i /\ (m = l => i < k)
      BY <2>2, <1>9
    <3>2. PICK b \in 1..(sz[o] + 1) :
            /\ r2[o][j] = r[o][b]
            /\ IF o = l /\ j > k THEN b = j - 1 ELSE b = j /\ (o = l => j < k)
      BY <2>2, <1>9, <1>10
    <3>3. m = o /\ a = b
      <4>1. r[m][a] = r[o][b]
        BY <3>1, <3>2, <1>10
      <4> QED BY <4>1, Apart
    <3>4. sz2[m] \in Nat /\ sz2[o] \in Nat
      BY <1>5
    <3> QED BY <3>1, <3>2, <3>3, <3>4
  <2> QED BY <2>1, <2>2
<1>11. ASSUME NEW h \in Heap, nx2[h] # Null
       PROVE  \E m \in Lists : \E i \in 1..sz2[m] : r2[m][i] = h
  <2>1. CASE h = n
    <3>1. k \in 1..sz2[l]
      BY <1>5
    <3> QED BY <2>1, <3>1, <1>6, <1>7
  <2>2. CASE h # n
    <3>1. nx[h] # Null
      BY <2>2, <1>4, <1>2, <1>11 DEF Node
    <3>2. PICK m \in Lists : \E i \in 1..sz[m] : r[m][i] = h
      BY <3>1 DEF Linked
    <3>3. PICK i \in 1..sz[m] : r[m][i] = h
      BY <3>2
    <3>4. CASE m # l
      BY <3>3, <3>4, <1>5, <1>7
    <3>5. CASE m = l /\ i < k
      <4>1. i \in 1..sz2[m] /\ r2[m][i] = h
        BY <3>3, <3>5, <1>5, <1>6, <1>7, <1>1
      <4> QED BY <4>1
    <3>6. CASE m = l /\ i >= k
      <4>1. /\ i + 1 \in 1..sz2[m] /\ i + 1 \in (k + 1)..(sz2[l] + 1) /\ (i + 1) - 1 = i
        BY <3>6, <1>5, <1>1
      <4>2. r2[m][i + 1] = h
        BY <4>1, <3>3, <3>6, <1>6, <1>7
      <4> QED BY <4>1, <4>2
    <3> QED BY <3>4, <3>5, <3>6, <1>1
  <2> QED BY <2>1, <2>2
<1>12. Linked(nx2, pv2, sz2, r2)
  BY <1>4, <1>5, <1>7, <1>8, <1>10, <1>11 DEF Linked
<1> QED BY <1>12 DEF nx2, pv2, sz2, r2, s, pos, p

(* A node that is erased leaves the nodes on both sides joined. *)
LEMMA EraseLinks ==
  ASSUME NEW nx, NEW pv, NEW sz, NEW r, Linked(nx, pv, sz, r),
         NEW l \in Lists, NEW k \in 1..sz[l]
  PROVE  Linked([nx EXCEPT ![pv[r[l][k]]] = nx[r[l][k]], ![r[l][k]] = Null],
                [pv EXCEPT ![nx[r[l][k]]] = pv[r[l][k]], ![r[l][k]] = Null],
                [sz EXCEPT ![l] = @ - 1],
                [r EXCEPT ![l] = Without(r[l], k)])
<1> DEFINE pos == r[l][k]
           p == pv[r[l][k]]
           q == nx[r[l][k]]
           nx2 == [nx EXCEPT ![p] = q, ![pos] = Null]
           pv2 == [pv EXCEPT ![q] = p, ![pos] = Null]
           sz2 == [sz EXCEPT ![l] = @ - 1]
           s == Without(r[l], k)
           r2 == [r EXCEPT ![l] = s]
<1>1. /\ nx \in [Node -> Node \cup {Null}] /\ pv \in [Node -> Node \cup {Null}]
      /\ sz \in [Lists -> Nat] /\ r \in [Lists -> Seq(Node)]
      /\ sz[l] \in Nat /\ Len(r[l]) = sz[l] + 1
      /\ k \in 1..(sz[l] + 1) /\ k + 1 \in 1..(sz[l] + 1)
  <2>1. sz[l] \in Nat
    BY DEF Linked
  <2>2. k \in 1..(sz[l] + 1) /\ k + 1 \in 1..(sz[l] + 1)
    BY <2>1
  <2> QED BY <2>1, <2>2, AtPlace DEF Linked
<1>a. sz[l] \in Nat /\ k \in Int /\ 1 <= k /\ k <= sz[l]
  BY <1>1
<1>2. /\ p = Pred(r, l, k) /\ q = r[l][k + 1]
      /\ pos \in Node /\ pos \in Heap /\ p \in Node /\ q \in Node
  <2>1. p = Pred(r, l, k) /\ p \in Node /\ pos \in Heap
    BY <1>1, AtPlace
  <2>2. k + 1 # 1 /\ (k + 1) - 1 = k
    BY <1>1
  <2>3. nx[Pred(r, l, k + 1)] = r[l][k + 1] /\ r[l][k + 1] \in Node
    BY <1>1, AtPlace
  <2> QED BY <2>1, <2>2, <2>3 DEF Pred, Node
<1>3. pos # p /\ pos # q
  <2>1. pos # q
    BY <1>1, <1>2, Apart
  <2>2. CASE k = 1
    BY <2>2, <1>1, <1>2, AtPlace DEF Pred
  <2>3. CASE k # 1
    <3>1. k - 1 \in 1..(sz[l] + 1) /\ k - 1 # k
      BY <2>3, <1>1
    <3> QED BY <2>3, <3>1, <1>1, <1>2, Apart DEF Pred
  <2> QED BY <2>1, <2>2, <2>3
<1>4. /\ nx2 \in [Node -> Node \cup {Null}] /\ pv2 \in [Node -> Node \cup {Null}]
      /\ nx2[p] = q /\ nx2[pos] = Null /\ \A h \in Node \ {pos, p} : nx2[h] = nx[h]
      /\ pv2[q] = p /\ pv2[pos] = Null /\ \A h \in Node \ {pos, q} : pv2[h] = pv[h]
  BY <1>1, <1>2, <1>3
<1>5. /\ sz2 \in [Lists -> Nat] /\ sz2[l] = sz[l] - 1
      /\ \A m \in Lists \ {l} : sz2[m] = sz[m]
  BY <1>1
<1>6. /\ s \in Seq(Node) /\ DOMAIN s = 1..sz[l]
      /\ \A i \in 1..(k - 1) : s[i] = r[l][i]
      /\ \A i \in k..sz[l] : s[i] = r[l][i + 1]
  <2>1. \A i \in 1..(sz[l] + 1) : r[l][i] \in Node
    BY AtPlace
  <2>2. s = [i \in 1..sz[l] |-> IF i < k THEN r[l][i] ELSE r[l][i + 1]]
    BY <1>1 DEF Without
  <2> HIDE DEF s
  <2>3. s \in [1..sz[l] -> Node]
    <3> SUFFICES ASSUME NEW i \in 1..sz[l]
                 PROVE  (IF i < k THEN r[l][i] ELSE r[l][i + 1]) \in Node
      BY <2>2
    <3>1. i \in 1..(sz[l] + 1) /\ i + 1 \in 1..(sz[l] + 1)
      BY <1>1
    <3> QED BY <3>1, <2>1
  <2>4. s \in Seq(Node)
    <3> HIDE DEF pos, p, q
    <3> QED BY <2>3, <1>a
  <2> QED BY <2>2, <2>3, <2>4, <1>1
<1> HIDE DEF s
<1>7. r2 \in [Lists -> Seq(Node)] /\ r2[l] = s /\ \A m \in Lists \ {l} : r2[m] = r[m]
  BY <1>1, <1>6
<1> HIDE DEF nx2, pv2, sz2, r2, pos, p, q
<1>8. ASSUME NEW m \in Lists
      PROVE  /\ DOMAIN r2[m] = 1..(sz2[m] + 1)
             /\ r2[m][sz2[m] + 1] = m
             /\ \A i \in 1..sz2[m] : r2[m][i] \in Heap
             /\ \A i \in 1..(sz2[m] + 1) :
                  nx2[Pred(r2, m, i)] = r2[m][i] /\ pv2[r2[m][i]] = Pred(r2, m, i)
  <2>1. CASE m # l
    <3>1. sz2[m] = sz[m] /\ r2[m] = r[m]
      BY <2>1, <1>5, <1>7
    <3>2. \A i \in 1..(sz[m] + 1) : Pred(r2, m, i) = Pred(r, m, i)
      BY <3>1 DEF Pred
    <3>3. ASSUME NEW i \in 1..(sz[m] + 1)
          PROVE  nx2[Pred(r, m, i)] = r[m][i] /\ pv2[r[m][i]] = Pred(r, m, i)
      <4>1. Pred(r, m, i) # p /\ r[m][i] # pos /\ r[m][i] # q
        BY <2>1, <1>1, <1>2, Apart DEF pos
      <4>2. /\ Pred(r, m, i) \in Node /\ r[m][i] \in Node
            /\ nx[Pred(r, m, i)] = r[m][i] /\ pv[r[m][i]] = Pred(r, m, i)
        BY AtPlace
      <4>3. Pred(r, m, i) # pos
        BY <4>1, <4>2 DEF q, pos
      <4> QED BY <4>1, <4>2, <4>3, <1>4
    <3> QED BY <3>1, <3>2, <3>3 DEF Linked
  <2>2. CASE m = l
    <3>1. r2[m] = s /\ sz2[m] = sz[l] - 1 /\ sz2[m] + 1 = sz[l]
      BY <2>2, <1>5, <1>7, <1>1
    <3>2. s[sz[l]] = l
      BY <1>1, <1>6 DEF Linked
    <3>3. \A i \in 1..(sz[l] - 1) : s[i] \in Heap
      <4> TAKE i \in 1..(sz[l] - 1)
      <4>1. /\ i \in 1..sz[l] /\ i + 1 \in 1..sz[l]
            /\ (i \in 1..(k - 1) \/ i \in k..sz[l])
        BY <1>a
      <4>2. \A j \in 1..sz[l] : r[l][j] \in Heap
        BY DEF Linked
      <4> QED BY <4>1, <4>2, <1>6
    <3>4. ASSUME NEW i \in 1..sz[l]
          PROVE  nx2[Pred(r2, l, i)] = s[i] /\ pv2[s[i]] = Pred(r2, l, i)
      <4>1. CASE i < k
        <5>1. /\ i \in 1..(sz[l] + 1) /\ i \in 1..(k - 1) /\ i # k /\ i # k + 1
              /\ i # 1 => i - 1 \in 1..(k - 1)
          BY <4>1, <1>a
        <5>2. Pred(r2, l, i) = Pred(r, l, i) /\ s[i] = r[l][i]
          BY <5>1, <1>7, <1>6 DEF Pred
        <5>3. Pred(r, l, i) # p /\ r[l][i] # pos /\ r[l][i] # q
          <6>1. Pred(r, l, i) # p /\ r[l][i] # pos
            BY <5>1, <1>1, <1>2, Apart DEF pos
          <6> QED BY <6>1, <5>1, <1>1, <1>2, Apart
        <5>4. /\ Pred(r, l, i) \in Node /\ r[l][i] \in Node
              /\ nx[Pred(r, l, i)] = r[l][i] /\ pv[r[l][i]] = Pred(r, l, i)
          BY <5>1, AtPlace
        <5>5. Pred(r, l, i) # pos
          BY <5>3, <5>4 DEF q, pos
        <5> QED BY <5>1, <5>2, <5>3, <5>4, <5>5, <1>4
      <4>2. CASE i = k
        <5>0. k \in k..sz[l] /\ (k # 1 => k - 1 \in 1..(k - 1))
          BY <1>a
        <5>1. Pred(r2, l, i) = p
          BY <4>2, <5>0, <1>2, <1>7, <1>6 DEF Pred
        <5>2. s[i] = q
          BY <4>2, <5>0, <1>2, <1>6
        <5> QED BY <5>1, <5>2, <1>4
      <4>3. CASE i > k
        <5>1. /\ i + 1 \in 1..(sz[l] + 1) /\ i # 1 /\ i + 1 # 1 /\ (i + 1) - 1 = i
              /\ i \in k..sz[l] /\ i - 1 \in k..sz[l] /\ (i - 1) + 1 = i
              /\ i + 1 # k /\ i + 1 # k + 1
          BY <4>3, <1>1
        <5>2. s[i] = r[l][i + 1] /\ s[i - 1] = r[l][i]
          BY <5>1, <1>6
        <5>3. Pred(r2, l, i) = Pred(r, l, i + 1)
          BY <5>1, <5>2, <1>7 DEF Pred
        <5>4. Pred(r, l, i + 1) # p /\ r[l][i + 1] # pos /\ r[l][i + 1] # q
          BY <5>1, <1>1, <1>2, Apart DEF pos
        <5>5. /\ Pred(r, l, i + 1) \in Node /\ r[l][i + 1] \in Node
              /\ nx[Pred(r, l, i + 1)] = r[l][i + 1] /\ pv[r[l][i + 1]] = Pred(r, l, i + 1)
          BY <5>1, AtPlace
        <5>6. Pred(r, l, i + 1) # pos
          BY <5>4, <5>5 DEF q, pos
        <5> QED BY <5>2, <5>3, <5>4, <5>5, <5>6, <1>4
      <4> QED BY <4>1, <4>2, <4>3, <1>1
    <3> QED BY <2>2, <3>1, <3>2, <3>3, <3>4, <1>6
  <2> QED BY <2>1, <2>2
<1>9. ASSUME NEW m \in Lists, NEW i \in 1..(sz2[m] + 1)
      PROVE  \E j \in 1..(sz[m] + 1) :
               /\ r2[m][i] = r[m][j]
               /\ IF m = l /\ i >= k THEN j = i + 1 ELSE j = i
  <2>1. CASE m # l
    BY <2>1, <1>5, <1>7
  <2>2. CASE m = l /\ i < k
    <3>1. i \in 1..(sz[m] + 1) /\ r2[m][i] = r[m][i]
      BY <2>2, <1>1, <1>5, <1>6, <1>7
    <3> QED BY <2>2, <3>1
  <2>3. CASE m = l /\ i >= k
    <3>1. i \in k..sz[l] /\ i + 1 \in 1..(sz[m] + 1)
      BY <2>3, <1>1, <1>5
    <3>2. r2[m][i] = r[m][i + 1]
      BY <3>1, <2>3, <1>6, <1>7
    <3> QED BY <2>3, <3>1, <3>2
  <2> QED BY <2>1, <2>2, <2>3, <1>1, <1>5
<1>10. ASSUME NEW m \in Lists, NEW o \in Lists,
              NEW i \in 1..(sz2[m] + 1), NEW j \in 1..(sz2[o] + 1), r2[m][i] = r2[o][j]
       PROVE  m = o /\ i = j
  <2>1. PICK a \in 1..(sz[m] + 1) :
          r2[m][i] = r[m][a] /\ IF m = l /\ i >= k THEN a = i + 1 ELSE a = i
    BY <1>9
  <2>2. PICK b \in 1..(sz[o] + 1) :
          r2[o][j] = r[o][b] /\ IF o = l /\ j >= k THEN b = j + 1 ELSE b = j
    BY <1>9
  <2>3. m = o /\ a = b
    <3>1. r[m][a] = r[o][b]
      BY <2>1, <2>2, <1>10
    <3> QED BY <3>1, Apart
  <2>4. i \in Int /\ j \in Int /\ k \in Int
    BY <1>5, <1>1
  <2> QED BY <2>1, <2>2, <2>3, <2>4
<1>11. ASSUME NEW h \in Heap, nx2[h] # Null
       PROVE  \E m \in Lists : \E i \in 1..sz2[m] : r2[m][i] = h
  <2>1. h # pos
    BY <1>11, <1>4
  <2>2. nx[h] # Null
    <3>1. CASE h = p
      <4>1. nx[Pred(r, l, k)] = pos /\ pos # Null
        BY <1>1, AtPlace DEF pos
      <4> QED BY <3>1, <4>1, <1>2
    <3>2. CASE h # p
      BY <3>2, <2>1, <1>4, <1>11 DEF Node
    <3> QED BY <3>1, <3>2
  <2>3. PICK m \in Lists : \E i \in 1..sz[m] : r[m][i] = h
    BY <2>2 DEF Linked
  <2>4. PICK i \in 1..sz[m] : r[m][i] = h
    BY <2>3
  <2>5. CASE m # l
    BY <2>4, <2>5, <1>5, <1>7
  <2>6. CASE m = l
    <3>1. i # k
      BY <2>1, <2>4, <2>6 DEF pos
    <3>2. CASE i < k
      <4>1. i \in 1..sz2[m] /\ r2[m][i] = h
        BY <2>4, <2>6, <3>2, <1>5, <1>6, <1>7, <1>1
      <4> QED BY <4>1
    <3>3. CASE i > k
      <4>1. i - 1 \in 1..sz2[m] /\ i - 1 \in k..sz[l] /\ (i - 1) + 1 = i
        BY <2>6, <3>3, <1>5, <1>1
      <4>2. r2[m][i - 1] = h
        BY <4>1, <2>4, <2>6, <1>6, <1>7
      <4> QED BY <4>1, <4>2
    <3> QED BY <3>1, <3>2, <3>3, <1>1, <2>6
  <2> QED BY <2>5, <2>6
<1>12. Linked(nx2, pv2, sz2, r2)
  BY <1>4, <1>5, <1>7, <1>8, <1>10, <1>11 DEF Linked
<1> QED BY <1>12 DEF nx2, pv2, sz2, r2, s, pos, p, q

-----------------------------------------------------------------------------
(* Iterators are what one meets along m_next *)

(* What Iterators computes, of the pointers nx. *)
IsWalk(g, nx, l) ==
  g = [k \in 0..Cardinality(Heap) |->
         IF k = 0 THEN <<nx[l]>>
         ELSE LET s == g[k - 1] IN IF Last(s) \in Heap THEN Append(s, nx[Last(s)]) ELSE s]

Walk(nx, l) == (CHOOSE g : IsWalk(g, nx, l))[Cardinality(Heap)]

LEMMA IteratorsWalk == \A l \in Lists : Iterators(l) = Walk(next, l)
BY DEF Iterators, Walk, IsWalk

LEMMA IteratorsWalkPrimed == \A l \in Lists : Iterators(l)' = Walk(next', l)
BY DEF Iterators, Walk, IsWalk

(* A list has no more nodes than there are. *)
LEMMA SizeBound ==
  ASSUME NEW nx, NEW pv, NEW sz, NEW r, Linked(nx, pv, sz, r), NEW l \in Lists
  PROVE  sz[l] \in Nat /\ Cardinality(Heap) \in Nat /\ sz[l] <= Cardinality(Heap)
<1> DEFINE f == [i \in 1..sz[l] |-> r[l][i]]
<1>1. sz[l] \in Nat /\ \A i \in 1..sz[l] : i \in 1..(sz[l] + 1) /\ r[l][i] \in Heap
  BY DEF Linked
<1>2. \A i, j \in 1..sz[l] : f[i] = f[j] => i = j
  BY <1>1, Apart
<1>3. f \in Injection(1..sz[l], Heap)
  BY <1>1, <1>2 DEF Injection, IsInjective
<1>4. Cardinality(1..sz[l]) = sz[l]
  BY <1>1, FS_Interval
<1>5. Cardinality(1..sz[l]) <= Cardinality(Heap)
  BY <1>3, MemoryAssumption, FS_Injection
<1> QED BY <1>1, <1>4, <1>5, MemoryAssumption, FS_CardinalityType

(* The numbers up to n, one after another. *)
Less == OpToRel(<, Nat)

LEMMA Least ==
  ASSUME NEW S, S \subseteq Nat, S # {}
  PROVE  \E n \in S : \A m \in S : n <= m
<1>1. IsWellFoundedOn(Less, Nat)
  BY NatLessThanWellFounded DEF Less
<1>2. PICK n \in S : \A m \in S : ~(<<m, n>> \in Less)
  BY <1>1, WFMin
<1>3. ASSUME NEW m \in S PROVE n <= m
  <2>1. m \in Nat /\ n \in Nat /\ (m < n => <<m, n>> \in Less)
    BY DEF Less, OpToRel
  <2> QED BY <2>1, <1>2
<1> QED BY <1>3

LEMMA UpTo ==
  ASSUME NEW n \in Nat, NEW S, 0 \in S, \A k \in 0..(n-1) : k \in S => k + 1 \in S
  PROVE  0..n \subseteq S
<1> DEFINE T == {k \in 0..n : k \notin S}
<1> SUFFICES ASSUME T # {} PROVE FALSE
  OBVIOUS
<1>1. T \subseteq Nat
  OBVIOUS
<1>2. PICK k \in T : \A m \in T : k <= m
  BY <1>1, Least
<1>3. k # 0 /\ k \in 1..n
  BY <1>2
<1>4. k - 1 \in 0..(n-1) /\ k - 1 \notin T /\ (k - 1) + 1 = k
  BY <1>2, <1>3
<1>5. k - 1 \in S
  BY <1>4
<1> QED BY <1>2, <1>4, <1>5

(* The walk meets the nodes of the list in their order, then its dummy,    *)
(* and goes no further.                                                    *)
LEMMA WalkMeets ==
  ASSUME NEW nx, NEW pv, NEW sz, NEW r, Linked(nx, pv, sz, r), NEW l \in Lists
  PROVE  Walk(nx, l) = r[l]
<1> DEFINE N == Cardinality(Heap)
           Met(k) == IF k <= sz[l] THEN k + 1 ELSE sz[l] + 1
           g == [k \in 0..N |-> [i \in 1..Met(k) |-> r[l][i]]]
           h == CHOOSE x : IsWalk(x, nx, l)
<1>1. sz[l] \in Nat /\ N \in Nat /\ sz[l] <= N
  BY SizeBound
<1> HIDE DEF N
<1>2. ASSUME NEW k \in 0..N
      PROVE  /\ g[k] \in Seq(Node) /\ Len(g[k]) = Met(k)
             /\ \A i \in 1..Met(k) : g[k][i] = r[l][i]
             /\ Last(g[k]) = r[l][Met(k)] /\ Met(k) \in 1..(sz[l] + 1)
  <2>1. Met(k) \in 1..(sz[l] + 1)
    BY <1>1
  <2> HIDE DEF Met
  <2>2. \A i \in 1..Met(k) : r[l][i] \in Node
    BY <1>1, <2>1, AtPlace
  <2>3. g[k] = [i \in 1..Met(k) |-> r[l][i]]
    OBVIOUS
  <2> HIDE DEF g
  <2>4. g[k] \in [1..Met(k) -> Node]
    BY <2>2, <2>3
  <2>5. Met(k) \in Nat /\ Met(k) \in 1..Met(k)
    BY <1>1, <2>1
  <2>6. g[k] \in Seq(Node) /\ Len(g[k]) = Met(k)
    BY <2>4, <2>5
  <2>7. g[k][Met(k)] = r[l][Met(k)]
    BY <2>3, <2>5
  <2> QED BY <2>1, <2>3, <2>6, <2>7 DEF Last
<1>3. ASSUME NEW k \in 0..N
      PROVE  g[k] = IF k = 0 THEN <<nx[l]>>
                    ELSE LET s == g[k - 1]
                         IN  IF Last(s) \in Heap THEN Append(s, nx[Last(s)]) ELSE s
  <2>1. CASE k = 0
    <3>1. Met(0) = 1 /\ 1 \in 1..(sz[l] + 1)
      BY <1>1
    <3>2. nx[l] = r[l][1]
      BY <3>1, AtPlace DEF Pred
    <3>3. Len(g[0]) = 1 /\ g[0][1] = nx[l] /\ g[0] \in Seq(Node)
      BY <1>1, <1>2, <2>1, <3>1, <3>2
    <3> HIDE DEF g
    <3> QED BY <2>1, <3>3
  <2>2. CASE k # 0
    <3> DEFINE s == g[k - 1]
    <3>1. k - 1 \in 0..N
      BY <2>2, <1>1
    <3>2. /\ s \in Seq(Node) /\ Len(s) = Met(k - 1) /\ Last(s) = r[l][Met(k - 1)]
          /\ \A i \in 1..Met(k - 1) : s[i] = r[l][i]
      BY <3>1, <1>2
    <3>3. /\ g[k] \in Seq(Node) /\ Len(g[k]) = Met(k)
          /\ \A i \in 1..Met(k) : g[k][i] = r[l][i]
      BY <1>2
    <3>4. CASE k <= sz[l]
      <4>1. /\ Met(k - 1) = k /\ Met(k) = k + 1 /\ k \in 1..sz[l]
            /\ k \in 1..(sz[l] + 1) /\ k + 1 \in 1..(sz[l] + 1) /\ k + 1 # 1 /\ (k + 1) - 1 = k
        BY <3>4, <2>2, <1>1
      <4>2. Last(s) \in Heap /\ nx[Last(s)] = r[l][k + 1] /\ r[l][k + 1] \in Node
        <5>1. r[l][k] \in Heap
          BY <4>1, AtPlace
        <5>2. nx[Pred(r, l, k + 1)] = r[l][k + 1] /\ r[l][k + 1] \in Node
          BY <4>1, AtPlace
        <5> QED BY <5>1, <5>2, <4>1, <3>2 DEF Pred
      <4> HIDE DEF g, s, Met
      <4>3. g[k] = Append(s, nx[Last(s)])
        <5> DEFINE t == Append(s, r[l][k + 1])
        <5>1. /\ t \in Seq(Node) /\ Len(t) = k + 1 /\ t[k + 1] = r[l][k + 1]
              /\ \A i \in 1..k : t[i] = s[i]
          BY <3>2, <4>1, <4>2
        <5> HIDE DEF t
        <5>2. \A i \in 1..(k + 1) : t[i] = g[k][i]
          <6> TAKE i \in 1..(k + 1)
          <6>1. i = k + 1 \/ i \in 1..k
            BY <4>1
          <6> QED BY <6>1, <5>1, <4>1, <3>2, <3>3
        <5>3. t = g[k]
          BY <5>1, <5>2, <3>3, <4>1
        <5> QED BY <5>3, <4>2 DEF t
      <4> QED BY <4>2, <4>3, <2>2 DEF s
    <3>5. CASE k > sz[l]
      <4>1. Met(k - 1) = sz[l] + 1 /\ Met(k) = sz[l] + 1 /\ sz[l] + 1 \in 1..(sz[l] + 1)
        BY <3>5, <1>1
      <4>2. Last(s) = l /\ l \notin Heap
        <5>1. r[l][sz[l] + 1] = l /\ l \notin Heap
          BY <4>1, <1>1, AtPlace
        <5> QED BY <5>1, <4>1, <3>2
      <4> HIDE DEF g, s, Met
      <4>3. s = g[k]
        BY <3>2, <3>3, <4>1
      <4> QED BY <4>2, <4>3, <2>2 DEF s
    <3> QED BY <3>4, <3>5, <1>1
  <2> QED BY <2>1, <2>2
<1>4. IsWalk(g, nx, l)
  <2>1. g = [k \in 0..N |-> IF k = 0 THEN <<nx[l]>>
                             ELSE LET s == g[k - 1]
                                  IN  IF Last(s) \in Heap THEN Append(s, nx[Last(s)]) ELSE s]
    <3>1. g = [k \in 0..N |-> g[k]]
      OBVIOUS
    <3> HIDE DEF g
    <3> QED BY <3>1, <1>3
  <2> HIDE DEF g
  <2> QED BY <2>1 DEF IsWalk, N
<1> HIDE DEF g
<1>5. IsWalk(h, nx, l)
  BY <1>4
<1> HIDE DEF h
<1>6. \A k \in 0..N :
        h[k] = IF k = 0 THEN <<nx[l]>>
               ELSE LET s == h[k - 1] IN IF Last(s) \in Heap THEN Append(s, nx[Last(s)]) ELSE s
  BY <1>5 DEF IsWalk, N
<1> DEFINE S == {k \in 0..N : h[k] = g[k]}
<1>7. 0 \in S
  <2>1. 0 \in 0..N
    BY <1>1
  <2>2. h[0] = <<nx[l]>> /\ g[0] = <<nx[l]>>
    BY <2>1, <1>3, <1>6
  <2> QED BY <2>1, <2>2
<1>8. ASSUME NEW k \in 0..(N - 1), k \in S PROVE k + 1 \in S
  <2>1. k + 1 \in 0..N /\ k + 1 # 0 /\ (k + 1) - 1 = k
    BY <1>1
  <2>2. h[k] = g[k]
    BY <1>8
  <2>3. h[k + 1] = LET s == h[k] IN IF Last(s) \in Heap THEN Append(s, nx[Last(s)]) ELSE s
    BY <1>6, <2>1
  <2>4. g[k + 1] = LET s == g[k] IN IF Last(s) \in Heap THEN Append(s, nx[Last(s)]) ELSE s
    BY <1>3, <2>1
  <2>5. h[k + 1] = g[k + 1]
    BY <2>2, <2>3, <2>4
  <2> QED BY <2>1, <2>5
<1>9. h[N] = g[N]
  <2> HIDE DEF S
  <2>1. 0..N \subseteq S
    BY <1>1, <1>7, <1>8, UpTo
  <2>2. N \in S
    BY <1>1, <2>1
  <2> QED BY <2>2 DEF S
<1>10. g[N] = r[l]
  <2>1. N \in 0..N /\ Met(N) = sz[l] + 1 /\ 1 \in 1..(sz[l] + 1)
    BY <1>1
  <2>2. /\ g[N] \in Seq(Node) /\ Len(g[N]) = sz[l] + 1
        /\ \A i \in 1..(sz[l] + 1) : g[N][i] = r[l][i]
    BY <1>2, <2>1
  <2>3. r[l] \in Seq(Node) /\ Len(r[l]) = sz[l] + 1
    BY <2>1, AtPlace
  <2> QED BY <2>2, <2>3
<1> QED BY <1>9, <1>10 DEF Walk, N, h

-----------------------------------------------------------------------------
(* The invariant *)

Rings == [l \in Lists |-> Iterators(l)]

(* The loops of a call that is under way, the second of which starts when  *)
(* the first has cleared the list.  A loop that copies a list into itself  *)
(* has not begun, and finds the list empty.                                *)
CopyReady(sz, r, c) ==
  \E l, m \in Lists : \E j \in 1..(sz[m] + 1) : m # l /\ c = <<Copying(l, m, r[m][j])>>

CopyWhole(sz, r, c) ==
  \E l, m \in Lists : c = <<Copying(l, m, Null)>> /\ (m = l => sz[l] = 0)

PushReady(sz, r, c) ==
  \E l \in Lists : \E s \in Seq(Value) : c = <<Pushing(l, s)>>

EraseReady(sz, r, c) ==
  \E l \in Lists : \E i, j \in 1..(sz[l] + 1) :
    c = <<Erasing(l, r[l][i], r[l][j])>> /\ i <= j

ClearReady(sz, r, c) ==
  \E l \in Lists :
    \/ c = <<Clearing(l)>>
    \/ \E m \in Lists : c = <<Clearing(l), Copying(l, m, Null)>>
    \/ \E s \in Seq(Value) : c = <<Clearing(l), Pushing(l, s)>>

Ready(sz, r, c) ==
  \/ c = <<>> \/ CopyReady(sz, r, c) \/ CopyWhole(sz, r, c) \/ PushReady(sz, r, c)
  \/ EraseReady(sz, r, c) \/ ClearReady(sz, r, c)

ListInv ==
  /\ Linked(next, prev, size, Rings)
  /\ value \in [Heap -> Value \cup {Null}]
  /\ Ready(size, Rings, call)

(* A state whose pointers are linked along r has r for its rings. *)
LEMMA LinkedRings ==
  ASSUME NEW r, Linked(next, prev, size, r)
  PROVE  Rings = r
<1>1. r \in [Lists -> Seq(Node)]
  BY DEF Linked
<1>2. \A l \in Lists : Iterators(l) = r[l]
  BY IteratorsWalk, WalkMeets
<1> QED BY <1>1, <1>2 DEF Rings

LEMMA LinkedRingsPrimed ==
  ASSUME NEW r, Linked(next', prev', size', r)
  PROVE  Rings' = r
<1>1. r \in [Lists -> Seq(Node)]
  BY DEF Linked
<1>2. \A l \in Lists : Walk(next', l) = r[l]
  BY WalkMeets
<1>3. \A l \in Lists : Iterators(l)' = r[l]
  BY <1>2, IteratorsWalkPrimed
<1> QED BY <1>1, <1>3 DEF Rings

LEMMA ListInit == Init => ListInv
<1> SUFFICES ASSUME Init PROVE ListInv
  OBVIOUS
<1> DEFINE r == [l \in Lists |-> <<l>>]
<1>1. /\ next = [n \in Node |-> IF n \in Lists THEN n ELSE Null] /\ prev = next
      /\ size = [l \in Lists |-> 0]
      /\ Lists \subseteq Node
  BY DEF Init, Node
<1>2. Linked(next, prev, size, r)
  <2>1. /\ next \in [Node -> Node \cup {Null}] /\ prev \in [Node -> Node \cup {Null}]
        /\ size \in [Lists -> Nat]
    BY <1>1
  <2>2. ASSUME NEW l \in Lists PROVE <<l>> \in Seq(Node)
    BY <1>1
  <2>3. r \in [Lists -> Seq(Node)]
    BY <2>2
  <2>4. \A l \in Lists : DOMAIN r[l] = 1..1 /\ r[l][1] = l
    OBVIOUS
  <2> HIDE DEF r
  <2>5. ASSUME NEW l \in Lists
        PROVE  /\ DOMAIN r[l] = 1..(size[l] + 1)
               /\ r[l][size[l] + 1] = l
               /\ \A i \in 1..size[l] : r[l][i] \in Heap
               /\ \A i \in 1..(size[l] + 1) :
                    next[Pred(r, l, i)] = r[l][i] /\ prev[r[l][i]] = Pred(r, l, i)
    <3>1. size[l] = 0 /\ next[l] = l /\ prev[l] = l
      BY <1>1
    <3>2. \A i \in 1..(size[l] + 1) : i = 1
      BY <3>1
    <3> QED BY <2>4, <3>1, <3>2 DEF Pred
  <2>6. \A l, m \in Lists : \A i \in 1..(size[l] + 1), j \in 1..(size[m] + 1) :
          r[l][i] = r[m][j] => l = m /\ i = j
    <3>1. \A l \in Lists : size[l] = 0
      BY <1>1
    <3>2. \A l \in Lists : \A i \in 1..(size[l] + 1) : i = 1
      BY <3>1
    <3> QED BY <2>4, <3>2
  <2>7. \A h \in Heap : next[h] = Null
    BY <1>1, NodeAssumption DEF Node
  <2> QED BY <2>1, <2>3, <2>5, <2>6, <2>7 DEF Linked
<1>3. Rings = r
  <2> HIDE DEF r
  <2> QED BY <1>2, LinkedRings
<1> QED BY <1>2, <1>3 DEF Init, ListInv, Ready

(* What WellLinked says is said of the rings. *)
LEMMA LinkedIsWell == ListInv => WellLinked
<1> SUFFICES ASSUME ListInv PROVE WellLinked
  OBVIOUS
<1> DEFINE r == Rings
<1>1. Linked(next, prev, size, r)
  BY DEF ListInv
<1>2. \A l \in Lists : Iterators(l) = r[l]
  BY DEF Rings
<1> HIDE DEF r
<1>3. ASSUME NEW l \in Lists
      PROVE  /\ r[l] \in Seq(Node) /\ Len(r[l]) = size[l] + 1 /\ size[l] \in Nat
             /\ Last(r[l]) = l
             /\ ToSet(r[l]) = {r[l][i] : i \in 1..(size[l] + 1)}
             /\ ToSet(Front(r[l])) = {r[l][i] : i \in 1..size[l]}
  <2>1. size[l] \in Nat
    BY <1>1 DEF Linked
  <2>2. size[l] + 1 \in 1..(size[l] + 1)
    BY <2>1
  <2>3. r[l] \in Seq(Node) /\ Len(r[l]) = size[l] + 1 /\ r[l][size[l] + 1] = l
    BY <1>1, <2>1, <2>2, AtPlace
  <2>4. DOMAIN r[l] = 1..(size[l] + 1)
    BY <2>3
  <2>5. DOMAIN Front(r[l]) = 1..size[l] /\ \A i \in 1..size[l] : Front(r[l])[i] = r[l][i]
    BY <2>1, <2>3 DEF Front
  <2> QED BY <2>1, <2>3, <2>4, <2>5 DEF Last, ToSet
<1>4. ASSUME NEW l \in Lists, NEW i \in 1..Len(r[l])
      PROVE  prev[r[l][i]] = IF i = 1 THEN l ELSE r[l][i - 1]
  BY <1>1, <1>3, AtPlace DEF Pred
<1>5. ASSUME NEW l \in Lists
      PROVE  size[l] = Cardinality(ToSet(Front(r[l]))) /\ size[l] = Len(r[l]) - 1
  <2> DEFINE T == {r[l][i] : i \in 1..size[l]}
             f == [i \in 1..size[l] |-> r[l][i]]
  <2>1. \A i \in 1..size[l] : i \in 1..(size[l] + 1)
    BY <1>3
  <2>2. \A i, j \in 1..size[l] : f[i] = f[j] => i = j
    BY <1>1, <2>1, Apart
  <2>3. f \in Bijection(1..size[l], T)
    BY <2>2 DEF Bijection, Injection, Surjection, IsInjective
  <2>4. Cardinality(T) = size[l]
    BY <1>3, <2>3, FS_CountingElements DEF ExistsBijection
  <2>5. ToSet(Front(r[l])) = T
    BY <1>3
  <2> HIDE DEF T, f
  <2>6. size[l] = Cardinality(ToSet(Front(r[l])))
    BY <2>4, <2>5
  <2> QED BY <1>3, <2>6
<1>6. ASSUME NEW l \in Lists, NEW m \in Lists, l # m
      PROVE  ToSet(r[l]) \cap ToSet(r[m]) = {}
  <2> SUFFICES ASSUME NEW x \in ToSet(r[l]), x \in ToSet(r[m]) PROVE FALSE
    OBVIOUS
  <2>1. PICK i \in 1..(size[l] + 1) : x = r[l][i]
    BY <1>3
  <2>2. PICK j \in 1..(size[m] + 1) : x = r[m][j]
    BY <1>3
  <2>3. r[l][i] = r[m][j]
    BY <2>1, <2>2
  <2> QED BY <1>1, <1>6, <2>3, Apart
<1>7. UNION {ToSet(Front(r[l])) : l \in Lists} = Heap \ Free
  <2>1. ASSUME NEW l \in Lists, NEW i \in 1..size[l]
        PROVE  r[l][i] \in Heap /\ next[r[l][i]] # Null
    <3>1. i \in 1..(size[l] + 1) /\ i <= size[l]
      BY <1>3
    <3> QED BY <1>1, <3>1, AtPlace
  <2>2. ASSUME NEW h \in Heap, next[h] # Null
        PROVE  \E l \in Lists : \E i \in 1..size[l] : r[l][i] = h
    BY <1>1, <2>2 DEF Linked
  <2>3. \A h : h \in Heap \ Free <=> h \in Heap /\ next[h] # Null
    BY DEF Free
  <2>4. \A l \in Lists : \A h : h \in ToSet(Front(r[l])) <=> \E i \in 1..size[l] : r[l][i] = h
    BY <1>3
  <2>5. \A h : h \in UNION {ToSet(Front(r[l])) : l \in Lists}
               <=> \E l \in Lists : \E i \in 1..size[l] : r[l][i] = h
    BY <2>4
  <2> QED BY <2>1, <2>2, <2>3, <2>5
<1>8. {ToSet(Front(Iterators(l))) : l \in Lists} = {ToSet(Front(r[l])) : l \in Lists}
  BY <1>2
<1>9. UNION {ToSet(Front(Iterators(l))) : l \in Lists} = Heap \ Free
  BY <1>7, <1>8
<1>10. ASSUME NEW l \in Lists
       PROVE  LET it == Iterators(l) IN
              /\ Last(it) = l
              /\ \A i \in 1..Len(it) : prev[it[i]] = IF i = 1 THEN l ELSE it[i - 1]
              /\ size[l] = Cardinality(ToSet(Front(it))) /\ size[l] = Len(it) - 1
  BY <1>2, <1>3, <1>4, <1>5
<1>11. \A l, m \in Lists : l # m => ToSet(Iterators(l)) \cap ToSet(Iterators(m)) = {}
  BY <1>2, <1>6
<1> QED BY <1>9, <1>10, <1>11 DEF WellLinked

-----------------------------------------------------------------------------
(* What an insertion and an erasure do to places and values *)

LEMMA RingPlaces ==
  ASSUME ListInv, NEW l \in Lists, NEW i \in 1..(size[l] + 1)
  PROVE  /\ size[l] \in Nat /\ Len(Rings[l]) = size[l] + 1 /\ Rings[l] \in Seq(Node)
         /\ Rings[l][i] = Iterators(l)[i] /\ Rings[l][i] \in Node /\ Rings[l][i] # Null
         /\ next[Rings[l][i]] # Null
         /\ i <= size[l] => /\ Rings[l][i] \in Heap /\ Rings[l][i] # l
                            /\ i + 1 \in 1..(size[l] + 1)
                            /\ next[Rings[l][i]] = Rings[l][i + 1]
         /\ i > size[l] => i = size[l] + 1 /\ Rings[l][i] = l /\ l \notin Heap
<1>1. Linked(next, prev, size, Rings)
  BY DEF ListInv
<1>2. size[l] \in Nat /\ Rings[l] = Iterators(l)
  BY <1>1 DEF Linked, Rings
<1>3. ASSUME i <= size[l]
      PROVE  i + 1 \in 1..(size[l] + 1) /\ next[Rings[l][i]] = Rings[l][i + 1]
  <2>1. i + 1 \in 1..(size[l] + 1) /\ i + 1 # 1 /\ (i + 1) - 1 = i
    BY <1>2, <1>3
  <2>2. next[Pred(Rings, l, i + 1)] = Rings[l][i + 1]
    BY <1>1, <2>1, AtPlace
  <2> QED BY <2>1, <2>2 DEF Pred
<1>4. i > size[l] => i = size[l] + 1
  BY <1>2
<1> QED BY <1>1, <1>2, <1>3, <1>4, AtPlace

(* n becomes the node at place k of l, with value x. *)
Inserts(l, k, n, x) ==
  /\ Linked(next', prev', size', Rings')
  /\ size'[l] = size[l] + 1 /\ size[l] \in Nat
  /\ \A m \in Lists \ {l} : size'[m] = size[m] /\ Rings'[m] = Rings[m]
  /\ \A i \in 1..(k - 1) : Rings'[l][i] = Rings[l][i]
  /\ Rings'[l][k] = n
  /\ \A i \in k..(size[l] + 1) : Rings'[l][i + 1] = Rings[l][i]
  /\ value' = [value EXCEPT ![n] = x] /\ n \in Heap
  /\ \A m \in Lists : \A i \in 1..(size[m] + 1) : Rings[m][i] # n

LEMMA Inserted ==
  ASSUME ListInv, NEW l \in Lists, NEW k \in 1..(size[l] + 1), NEW n \in Free, NEW x,
         InsertNode(l, Rings[l][k], x, n)
  PROVE  Inserts(l, k, n, x)
<1> DEFINE r == Rings
           r2 == [r EXCEPT ![l] = With(r[l], k, n)]
<1>1. Linked(next, prev, size, r)
  BY DEF ListInv
<1>2. n \in Heap /\ next[n] = Null
  BY DEF Free
<1> HIDE DEF r
<1>3. Linked(next', prev', size', r2)
  BY <1>1, <1>2, InsertLinks DEF InsertNode, r
<1>4. Rings' = r2
  <2> HIDE DEF r2
  <2> QED BY <1>3, LinkedRingsPrimed
<1>5. /\ size \in [Lists -> Nat] /\ r \in [Lists -> Seq(Node)] /\ size[l] \in Nat
      /\ Len(r[l]) = size[l] + 1
  BY <1>1, AtPlace DEF Linked
<1>6. size'[l] = size[l] + 1 /\ \A m \in Lists \ {l} : size'[m] = size[m]
  BY <1>5 DEF InsertNode
<1>7. r2[l] = With(r[l], k, n) /\ \A m \in Lists \ {l} : r2[m] = r[m]
  BY <1>5
<1>8. With(r[l], k, n) = [i \in 1..(size[l] + 2) |->
                            IF i < k THEN r[l][i] ELSE IF i = k THEN n ELSE r[l][i - 1]]
  BY <1>5 DEF With
<1> HIDE DEF r2
<1>9. \A i \in 1..(k - 1) : r2[l][i] = r[l][i]
  BY <1>5, <1>7, <1>8
<1>10. r2[l][k] = n
  BY <1>5, <1>7, <1>8
<1>11. ASSUME NEW i \in k..(size[l] + 1) PROVE r2[l][i + 1] = r[l][i]
  <2>1. i + 1 \in 1..(size[l] + 2) /\ ~(i + 1 < k) /\ i + 1 # k /\ (i + 1) - 1 = i
    BY <1>5
  <2> QED BY <2>1, <1>7, <1>8
<1>12. \A m \in Lists : \A i \in 1..(size[m] + 1) : r[m][i] # n
  BY <1>1, <1>2, AtPlace
<1> QED BY <1>2, <1>3, <1>4, <1>5, <1>6, <1>7, <1>9, <1>10, <1>11, <1>12 DEF InsertNode, Inserts, r

(* The node at place k of l is no longer there. *)
Erases(l, k) ==
  /\ Linked(next', prev', size', Rings')
  /\ size'[l] = size[l] - 1 /\ size[l] \in Nat
  /\ \A m \in Lists \ {l} : size'[m] = size[m] /\ Rings'[m] = Rings[m]
  /\ \A i \in 1..(k - 1) : Rings'[l][i] = Rings[l][i]
  /\ \A i \in k..size[l] : Rings'[l][i] = Rings[l][i + 1]
  /\ value' = [value EXCEPT ![Rings[l][k]] = Null] /\ Rings[l][k] \in Heap

LEMMA Erased ==
  ASSUME ListInv, NEW l \in Lists, NEW k \in 1..size[l], EraseNode(l, Rings[l][k])
  PROVE  Erases(l, k)
<1> DEFINE r == Rings
           r2 == [r EXCEPT ![l] = Without(r[l], k)]
<1>1. Linked(next, prev, size, r)
  BY DEF ListInv
<1> HIDE DEF r
<1>2. /\ size \in [Lists -> Nat] /\ r \in [Lists -> Seq(Node)] /\ size[l] \in Nat
      /\ k \in 1..(size[l] + 1)
  <2>1. size \in [Lists -> Nat] /\ r \in [Lists -> Seq(Node)]
    BY <1>1 DEF Linked
  <2> QED BY <2>1
<1>3. Len(r[l]) = size[l] + 1 /\ r[l][k] \in Heap
  BY <1>1, <1>2, AtPlace
<1>4. Linked(next', prev', size', r2)
  BY <1>1, EraseLinks DEF EraseNode, r
<1>5. Rings' = r2
  <2> HIDE DEF r2
  <2> QED BY <1>4, LinkedRingsPrimed
<1>6. size'[l] = size[l] - 1 /\ \A m \in Lists \ {l} : size'[m] = size[m]
  BY <1>2 DEF EraseNode
<1>7. r2[l] = Without(r[l], k) /\ \A m \in Lists \ {l} : r2[m] = r[m]
  BY <1>2
<1>8. Without(r[l], k) = [i \in 1..size[l] |-> IF i < k THEN r[l][i] ELSE r[l][i + 1]]
  BY <1>2, <1>3 DEF Without
<1> HIDE DEF r2
<1>9. \A i \in 1..(k - 1) : r2[l][i] = r[l][i]
  BY <1>2, <1>7, <1>8
<1>10. \A i \in k..size[l] : r2[l][i] = r[l][i + 1]
  BY <1>2, <1>7, <1>8
<1> QED BY <1>2, <1>3, <1>4, <1>5, <1>6, <1>7, <1>9, <1>10 DEF EraseNode, Erases, r

-----------------------------------------------------------------------------
(* Each loop stays within its lists *)

LEMMA OneLoop ==
  ASSUME NEW a
  PROVE  /\ Head(<<a>>) = a /\ Tail(<<a>>) = <<>> /\ Len(<<a>>) = 1 /\ <<a>> # <<>>
         /\ \A b : <<b>> \o Tail(<<a>>) = <<b>>
OBVIOUS

LEMMA TwoLoops ==
  ASSUME NEW a, NEW b
  PROVE  /\ Head(<<a, b>>) = a /\ Tail(<<a, b>>) = <<b>> /\ Len(<<a, b>>) = 2 /\ <<a, b>> # <<>>
         /\ <<a, b>>[2] = b
OBVIOUS

(* While another list is copied into l its own nodes stay where they are.  *)
LEMMA CopyTurn ==
  ASSUME ListInv, NEW l \in Lists, NEW m \in Lists, m # l, NEW j \in 1..(size[m] + 1),
         j <= size[m], NEW n \in Free, NEW x, x = value[Rings[m][j]], InsertNode(l, l, x, n)
  PROVE  /\ x \in Value \cup {Null} /\ Inserts(l, size[l] + 1, n, x)
         /\ j + 1 \in 1..(size'[m] + 1) /\ next'[Rings[m][j]] = Rings'[m][j + 1]
<1>1. Inserts(l, size[l] + 1, n, x)
  <2>1. size[l] + 1 \in 1..(size[l] + 1) /\ Rings[l][size[l] + 1] = l
    <3>1. size[l] \in Nat
      BY DEF ListInv, Linked
    <3> QED BY <3>1 DEF ListInv, Linked
  <2> QED BY <2>1, Inserted
<1>2. Linked(next', prev', size', Rings') /\ size'[m] = size[m] /\ Rings'[m] = Rings[m]
  BY <1>1 DEF Inserts
<1>3. x \in Value \cup {Null} /\ size[m] \in Nat
  BY RingPlaces DEF ListInv
<1>4. j + 1 \in 1..(size'[m] + 1) /\ j + 1 # 1 /\ (j + 1) - 1 = j
  BY <1>2, <1>3
<1>5. next'[Pred(Rings', m, j + 1)] = Rings'[m][j + 1]
  BY <1>2, <1>4, AtPlace
<1> QED BY <1>1, <1>2, <1>3, <1>4, <1>5 DEF Pred

(* The loop in progress copies to l the places of m from j on. *)
CopiesOn(l, m, j) ==
  /\ call = <<Loop>> /\ Loop = Copying(l, m, Loop.it)
  /\ \/ Loop.it = Rings[m][j] /\ m # l
     \/ Loop.it = Null /\ j = 1 /\ (m = l => size[l] = 0)

LEMMA NowCopying ==
  ASSUME ListInv, Running("copy")
  PROVE  \E l, m \in Lists : \E j \in 1..(size[m] + 1) : CopiesOn(l, m, j) /\ It = Rings[m][j]
<1>1. call # <<>> /\ Loop.loop = "copy"
  BY DEF Running, Idle
<1>2. ASSUME NEW a, NEW b, call = <<a>> \/ call = <<a, b>> PROVE Loop = a
  BY <1>2, OneLoop, TwoLoops DEF Loop
<1>3. ~ClearReady(size, Rings, call)
  <2> SUFFICES ASSUME NEW l \in Lists, Loop = Clearing(l) PROVE FALSE
    BY <1>2 DEF ClearReady
  <2> QED BY <1>1 DEF Clearing
<1>4. ~PushReady(size, Rings, call)
  <2> SUFFICES ASSUME NEW l, NEW s, Loop = Pushing(l, s) PROVE FALSE
    BY <1>2 DEF PushReady
  <2> QED BY <1>1 DEF Pushing
<1>5. ~EraseReady(size, Rings, call)
  <2> SUFFICES ASSUME NEW l, NEW p, NEW q, Loop = Erasing(l, p, q) PROVE FALSE
    BY <1>2 DEF EraseReady
  <2> QED BY <1>1 DEF Erasing
<1>6. CASE CopyReady(size, Rings, call)
  <2>1. PICK l \in Lists, m \in Lists : \E j \in 1..(size[m] + 1) :
          m # l /\ call = <<Copying(l, m, Rings[m][j])>>
    BY <1>6 DEF CopyReady
  <2>2. PICK j \in 1..(size[m] + 1) : m # l /\ call = <<Copying(l, m, Rings[m][j])>>
    BY <2>1
  <2>3. Loop = Copying(l, m, Rings[m][j])
    BY <1>2, <2>2
  <2>4. Loop.it = Rings[m][j]
    BY <2>3 DEF Copying
  <2>5. It = Rings[m][j]
    BY <2>4, RingPlaces DEF It
  <2>6. CopiesOn(l, m, j)
    BY <2>2, <2>3, <2>4 DEF CopiesOn
  <2> QED BY <2>5, <2>6
<1>7. CASE CopyWhole(size, Rings, call)
  <2>1. PICK l \in Lists, m \in Lists : call = <<Copying(l, m, Null)>> /\ (m = l => size[l] = 0)
    BY <1>7 DEF CopyWhole
  <2>2. Loop = Copying(l, m, Null)
    BY <1>2, <2>1
  <2>3. Loop.it = Null /\ Loop.from = m
    BY <2>2 DEF Copying
  <2>4. 1 \in 1..(size[m] + 1) /\ next[m] = Rings[m][1]
    <3>1. size[m] \in Nat
      BY DEF ListInv, Linked
    <3>2. 1 \in 1..(size[m] + 1)
      BY <3>1
    <3> QED BY <3>2, AtPlace DEF ListInv, Pred
  <2>5. It = Rings[m][1]
    BY <2>3, <2>4 DEF It
  <2>6. CopiesOn(l, m, 1)
    BY <2>1, <2>2, <2>3 DEF CopiesOn
  <2> QED BY <2>4, <2>5, <2>6
<1> QED BY <1>1, <1>3, <1>4, <1>5, <1>6, <1>7 DEF ListInv, Ready

LEMMA NowPushing ==
  ASSUME ListInv, Running("push")
  PROVE  \E l \in Lists : \E s \in Seq(Value) : call = <<Loop>> /\ Loop = Pushing(l, s)
<1>1. call # <<>> /\ Loop.loop = "push"
  BY DEF Running, Idle
<1>2. ASSUME NEW a, NEW b, call = <<a>> \/ call = <<a, b>> PROVE Loop = a
  BY <1>2, OneLoop, TwoLoops DEF Loop
<1>3. ~ClearReady(size, Rings, call)
  <2> SUFFICES ASSUME NEW l \in Lists, Loop = Clearing(l) PROVE FALSE
    BY <1>2 DEF ClearReady
  <2> QED BY <1>1 DEF Clearing
<1>4. ~CopyReady(size, Rings, call) /\ ~CopyWhole(size, Rings, call)
  <2> SUFFICES ASSUME NEW l, NEW m, NEW q, Loop = Copying(l, m, q) PROVE FALSE
    BY <1>2 DEF CopyReady, CopyWhole
  <2> QED BY <1>1 DEF Copying
<1>5. ~EraseReady(size, Rings, call)
  <2> SUFFICES ASSUME NEW l, NEW p, NEW q, Loop = Erasing(l, p, q) PROVE FALSE
    BY <1>2 DEF EraseReady
  <2> QED BY <1>1 DEF Erasing
<1>6. PushReady(size, Rings, call)
  BY <1>1, <1>3, <1>4, <1>5 DEF ListInv, Ready
<1> QED BY <1>2, <1>6 DEF PushReady

LEMMA NowErasing ==
  ASSUME ListInv, Running("erase")
  PROVE  \E l \in Lists : \E i, j \in 1..(size[l] + 1) :
           /\ call = <<Loop>> /\ Loop = Erasing(l, Rings[l][i], Rings[l][j])
           /\ i <= j
<1>1. call # <<>> /\ Loop.loop = "erase"
  BY DEF Running, Idle
<1>2. ASSUME NEW a, NEW b, call = <<a>> \/ call = <<a, b>> PROVE Loop = a
  BY <1>2, OneLoop, TwoLoops DEF Loop
<1>3. ~ClearReady(size, Rings, call)
  <2> SUFFICES ASSUME NEW l \in Lists, Loop = Clearing(l) PROVE FALSE
    BY <1>2 DEF ClearReady
  <2> QED BY <1>1 DEF Clearing
<1>4. ~CopyReady(size, Rings, call) /\ ~CopyWhole(size, Rings, call)
  <2> SUFFICES ASSUME NEW l, NEW m, NEW q, Loop = Copying(l, m, q) PROVE FALSE
    BY <1>2 DEF CopyReady, CopyWhole
  <2> QED BY <1>1 DEF Copying
<1>5. ~PushReady(size, Rings, call)
  <2> SUFFICES ASSUME NEW l, NEW s, Loop = Pushing(l, s) PROVE FALSE
    BY <1>2 DEF PushReady
  <2> QED BY <1>1 DEF Pushing
<1>6. EraseReady(size, Rings, call)
  BY <1>1, <1>3, <1>4, <1>5 DEF ListInv, Ready
<1> QED BY <1>2, <1>6 DEF EraseReady

ClearsFor(l) ==
  \/ call = <<Clearing(l)>>
  \/ \E m \in Lists : call = <<Clearing(l), Copying(l, m, Null)>>
  \/ \E s \in Seq(Value) : call = <<Clearing(l), Pushing(l, s)>>

LEMMA NowClearing ==
  ASSUME ListInv, Running("clear")
  PROVE  \E l \in Lists : Loop = Clearing(l) /\ ClearsFor(l)
<1>1. call # <<>> /\ Loop.loop = "clear"
  BY DEF Running, Idle
<1>2. ASSUME NEW a, NEW b, call = <<a>> \/ call = <<a, b>> PROVE Loop = a
  BY <1>2, OneLoop, TwoLoops DEF Loop
<1>3. ~EraseReady(size, Rings, call)
  <2> SUFFICES ASSUME NEW l, NEW p, NEW q, Loop = Erasing(l, p, q) PROVE FALSE
    BY <1>2 DEF EraseReady
  <2> QED BY <1>1 DEF Erasing
<1>4. ~CopyReady(size, Rings, call) /\ ~CopyWhole(size, Rings, call)
  <2> SUFFICES ASSUME NEW l, NEW m, NEW q, Loop = Copying(l, m, q) PROVE FALSE
    BY <1>2 DEF CopyReady, CopyWhole
  <2> QED BY <1>1 DEF Copying
<1>5. ~PushReady(size, Rings, call)
  <2> SUFFICES ASSUME NEW l, NEW s, Loop = Pushing(l, s) PROVE FALSE
    BY <1>2 DEF PushReady
  <2> QED BY <1>1 DEF Pushing
<1>6. ClearReady(size, Rings, call)
  BY <1>1, <1>3, <1>4, <1>5 DEF ListInv, Ready
<1>7. PICK l \in Lists : ClearsFor(l)
  BY <1>6 DEF ClearReady, ClearsFor
<1> QED BY <1>2, <1>7 DEF ClearsFor

-----------------------------------------------------------------------------
(* The invariant holds *)

LEMMA NodesKept ==
  ASSUME ListInv, UNCHANGED nodes
  PROVE  /\ Linked(next', prev', size', Rings') /\ Rings' = Rings
         /\ size' = size /\ value' \in [Heap -> Value \cup {Null}]
<1>1. next' = next /\ prev' = prev /\ size' = size /\ value' = value
  BY DEF nodes
<1>2. Rings' = Rings
  BY <1>1 DEF Rings, Iterators
<1> QED BY <1>1, <1>2 DEF ListInv

(* A copy ends at once or copies what is at place j of m. *)
CopyEnds(l, m, j) ==
  CopiesOn(l, m, j) /\ j = size[m] + 1 /\ call' = <<>> /\ UNCHANGED nodes

CopyTurns(l, m, j, n) ==
  /\ CopiesOn(l, m, j) /\ m # l /\ j <= size[m]
  /\ value[Rings[m][j]] \in Value \cup {Null}
  /\ Inserts(l, size[l] + 1, n, value[Rings[m][j]])
  /\ j + 1 \in 1..(size'[m] + 1)
  /\ call' = <<Copying(l, m, Rings'[m][j + 1])>>

LEMMA CopyEffect ==
  ASSUME ListInv, CopyStep
  PROVE  \E l, m \in Lists : \E j \in 1..(size[m] + 1) :
           CopyEnds(l, m, j) \/ \E n : CopyTurns(l, m, j, n)
<1>1. PICK l \in Lists, m \in Lists : \E j \in 1..(size[m] + 1) :
        CopiesOn(l, m, j) /\ It = Rings[m][j]
  BY NowCopying DEF CopyStep
<1>2. PICK j \in 1..(size[m] + 1) : CopiesOn(l, m, j) /\ It = Rings[m][j]
  BY <1>1
<1>3. /\ call = <<Loop>> /\ Loop = Copying(l, m, Loop.it)
      /\ m = l => size[l] = 0
  <2>1. call = <<Loop>> /\ Loop = Copying(l, m, Loop.it)
    BY <1>2 DEF CopiesOn
  <2> QED BY <1>2, <2>1 DEF CopiesOn
<1>4. /\ Loop.list = l /\ Loop.from = m
      /\ \A v : [Loop EXCEPT !.it = v] = Copying(l, m, v)
  BY <1>3 DEF Copying
<1>5. size[m] \in Nat /\ Rings[m][size[m] + 1] = m /\ size[m] + 1 \in 1..(size[m] + 1)
  BY DEF ListInv, Linked
<1>6. CASE It = Loop.from
  <2>1. call' = <<>> /\ UNCHANGED nodes
    BY <1>3, <1>6, OneLoop DEF CopyStep, Leave
  <2>2. j = size[m] + 1
    <3>1. Rings[m][j] = Rings[m][size[m] + 1] /\ Linked(next, prev, size, Rings)
      BY <1>2, <1>4, <1>5, <1>6 DEF ListInv
    <3> QED BY <3>1, <1>5, Apart
  <2>3. CopyEnds(l, m, j)
    BY <1>2, <2>1, <2>2 DEF CopyEnds
  <2> QED BY <2>3
<1>7. CASE It # Loop.from
  <2>1. j <= size[m] /\ m # l
    <3>1. j # size[m] + 1
      BY <1>2, <1>4, <1>5, <1>7
    <3> QED BY <3>1, <1>3, <1>5
  <2>2. PICK n \in Free : /\ InsertNode(l, l, value[Rings[m][j]], n)
                          /\ GoOn([Loop EXCEPT !.it = next'[Rings[m][j]]])
    BY <1>2, <1>4, <1>7 DEF CopyStep
  <2>3. call' = <<Copying(l, m, next'[Rings[m][j]])>>
    BY <1>3, <1>4, <2>2, OneLoop DEF GoOn
  <2> DEFINE x == value[Rings[m][j]]
  <2>4. InsertNode(l, l, x, n)
    BY <2>2
  <2>5. x = value[Rings[m][j]]
    OBVIOUS
  <2> HIDE DEF x
  <2>6. /\ x \in Value \cup {Null} /\ Inserts(l, size[l] + 1, n, x)
        /\ j + 1 \in 1..(size'[m] + 1) /\ next'[Rings[m][j]] = Rings'[m][j + 1]
    BY <2>1, <2>4, <2>5, CopyTurn
  <2>7. CopyTurns(l, m, j, n)
    BY <1>2, <2>1, <2>3, <2>5, <2>6 DEF CopyTurns
  <2> QED BY <2>7
<1> QED BY <1>6, <1>7

LEMMA CopyStepInv == ListInv /\ CopyStep => ListInv'
<1> SUFFICES ASSUME ListInv, CopyStep PROVE ListInv'
  OBVIOUS
<1>1. PICK l \in Lists, m \in Lists : \E j \in 1..(size[m] + 1) :
        CopyEnds(l, m, j) \/ \E n : CopyTurns(l, m, j, n)
  BY CopyEffect
<1>2. PICK j \in 1..(size[m] + 1) : CopyEnds(l, m, j) \/ \E n : CopyTurns(l, m, j, n)
  BY <1>1
<1>3. CASE CopyEnds(l, m, j)
  BY <1>3, NodesKept DEF CopyEnds, ListInv, Ready
<1>4. ASSUME NEW n, CopyTurns(l, m, j, n) PROVE ListInv'
  <2> DEFINE j2 == j + 1
  <2>1. j2 \in 1..(size'[m] + 1) /\ m # l /\ call' = <<Copying(l, m, Rings'[m][j2])>>
    BY <1>4 DEF CopyTurns
  <2>2. Linked(next', prev', size', Rings') /\ value' \in [Heap -> Value \cup {Null}]
    BY <1>4 DEF CopyTurns, Inserts, ListInv
  <2> HIDE DEF j2
  <2>3. CopyReady(size', Rings', call')
    BY <2>1 DEF CopyReady
  <2> QED BY <2>2, <2>3 DEF ListInv, Ready
<1> QED BY <1>2, <1>3, <1>4

PushEnds(l) == call = <<Pushing(l, <<>>)>> /\ call' = <<>> /\ UNCHANGED nodes

PushTurns(l, s, n) ==
  /\ call = <<Pushing(l, s)>> /\ s # <<>> /\ Head(s) \in Value /\ Tail(s) \in Seq(Value)
  /\ Inserts(l, size[l] + 1, n, Head(s))
  /\ call' = <<Pushing(l, Tail(s))>>

LEMMA PushEffect ==
  ASSUME ListInv, PushStep
  PROVE  \E l \in Lists : PushEnds(l) \/ \E s \in Seq(Value) : \E n : PushTurns(l, s, n)
<1>1. PICK l \in Lists : \E s \in Seq(Value) : call = <<Loop>> /\ Loop = Pushing(l, s)
  BY NowPushing DEF PushStep
<1>2. PICK s \in Seq(Value) : call = <<Loop>> /\ Loop = Pushing(l, s)
  BY <1>1
<1>3. Loop.list = l /\ Loop.left = s
  BY <1>2 DEF Pushing
<1>4. CASE s = <<>>
  <2>1. call' = <<>> /\ UNCHANGED nodes
    BY <1>2, <1>3, <1>4, OneLoop DEF PushStep, Leave
  <2>2. PushEnds(l)
    BY <1>2, <1>4, <2>1 DEF PushEnds
  <2> QED BY <2>2
<1>5. CASE s # <<>>
  <2>1. PICK n \in Free : InsertNode(l, l, Head(s), n) /\ GoOn(Pushing(l, Tail(s)))
    BY <1>3, <1>5 DEF PushStep
  <2>2. call' = <<Pushing(l, Tail(s))>>
    BY <1>2, <2>1, OneLoop DEF GoOn
  <2>3. size[l] + 1 \in 1..(size[l] + 1) /\ Rings[l][size[l] + 1] = l
    <3>1. size[l] \in Nat
      BY DEF ListInv, Linked
    <3> QED BY <3>1 DEF ListInv, Linked
  <2>4. Inserts(l, size[l] + 1, n, Head(s))
    BY <2>1, <2>3, Inserted
  <2>5. Head(s) \in Value /\ Tail(s) \in Seq(Value)
    BY <1>5
  <2>6. PushTurns(l, s, n)
    BY <1>2, <1>5, <2>2, <2>4, <2>5 DEF PushTurns
  <2> QED BY <2>6
<1> QED BY <1>4, <1>5

LEMMA PushStepInv == ListInv /\ PushStep => ListInv'
<1> SUFFICES ASSUME ListInv, PushStep PROVE ListInv'
  OBVIOUS
<1>1. PICK l \in Lists : PushEnds(l) \/ \E s \in Seq(Value) : \E n : PushTurns(l, s, n)
  BY PushEffect
<1>2. CASE PushEnds(l)
  BY <1>2, NodesKept DEF PushEnds, ListInv, Ready
<1>3. ASSUME NEW s \in Seq(Value), NEW n, PushTurns(l, s, n) PROVE ListInv'
  <2>1. Linked(next', prev', size', Rings') /\ value' \in [Heap -> Value \cup {Null}]
    BY <1>3 DEF PushTurns, Inserts, ListInv
  <2>2. PushReady(size', Rings', call')
    BY <1>3 DEF PushTurns, PushReady
  <2> QED BY <2>1, <2>2 DEF ListInv, Ready
<1> QED BY <1>1, <1>2, <1>3

EraseEnds(l, i) ==
  /\ call = <<Erasing(l, Rings[l][i], Rings[l][i])>>
  /\ call' = <<>> /\ UNCHANGED nodes

(* What comes after place i moves there. *)
EraseTurns(l, i, j) ==
  /\ call = <<Erasing(l, Rings[l][i], Rings[l][j])>>
  /\ i < j /\ i \in 1..size[l] /\ Erases(l, i)
  /\ i \in 1..(size'[l] + 1) /\ j - 1 \in 1..(size'[l] + 1)
  /\ call' = <<Erasing(l, Rings'[l][i], Rings'[l][j - 1])>>

LEMMA EraseEffect ==
  ASSUME ListInv, EraseStep
  PROVE  \E l \in Lists : \E i, j \in 1..(size[l] + 1) : EraseEnds(l, i) \/ EraseTurns(l, i, j)
<1>1. PICK l \in Lists : \E i, j \in 1..(size[l] + 1) :
        call = <<Loop>> /\ Loop = Erasing(l, Rings[l][i], Rings[l][j]) /\ i <= j
  BY NowErasing DEF EraseStep
<1>2. PICK i \in 1..(size[l] + 1), j \in 1..(size[l] + 1) :
        call = <<Loop>> /\ Loop = Erasing(l, Rings[l][i], Rings[l][j]) /\ i <= j
  BY <1>1
<1>3. /\ Loop.list = l /\ Loop.it = Rings[l][i] /\ Loop.last = Rings[l][j]
      /\ [Loop EXCEPT !.it = next[@]] = Erasing(l, next[Rings[l][i]], Rings[l][j])
  BY <1>2 DEF Erasing
<1>4. size[l] \in Nat
  BY DEF ListInv, Linked
<1>5. CASE Rings[l][i] = Rings[l][j]
  <2>1. call' = <<>> /\ UNCHANGED nodes
    BY <1>2, <1>3, <1>5, OneLoop DEF EraseStep, Leave
  <2>2. EraseEnds(l, i)
    BY <1>2, <1>5, <2>1 DEF EraseEnds
  <2> QED BY <2>2
<1>6. CASE Rings[l][i] # Rings[l][j]
  <2>1. i < j /\ i \in 1..size[l]
    <3>1. i # j
      BY <1>6
    <3> QED BY <3>1, <1>2, <1>4
  <2>2. EraseNode(l, Rings[l][i]) /\ GoOn([Loop EXCEPT !.it = next[@]])
    BY <1>3, <1>6 DEF EraseStep
  <2>3. call' = <<Erasing(l, Rings[l][i + 1], Rings[l][j])>>
    <3>1. next[Rings[l][i]] = Rings[l][i + 1]
      BY <2>1, RingPlaces
    <3> QED BY <1>2, <1>3, <2>2, <3>1, OneLoop DEF GoOn
  <2>4. Erases(l, i)
    BY <2>1, <2>2, Erased
  <2> DEFINE j2 == j - 1
  <2>5. i \in 1..(size'[l] + 1) /\ j2 \in 1..(size'[l] + 1)
    BY <1>4, <2>1, <2>4 DEF Erases
  <2>6. Rings'[l][i] = Rings[l][i + 1] /\ Rings'[l][j2] = Rings[l][j]
    <3>1. i \in i..size[l] /\ j2 \in i..size[l] /\ j2 + 1 = j
      BY <1>4, <2>1
    <3> HIDE DEF j2
    <3> QED BY <3>1, <2>4 DEF Erases
  <2>7. EraseTurns(l, i, j)
    <3> HIDE DEF j2
    <3>1. call' = <<Erasing(l, Rings'[l][i], Rings'[l][j2])>>
      BY <2>3, <2>6
    <3> QED BY <1>2, <2>1, <2>4, <2>5, <3>1 DEF EraseTurns, j2
  <2> QED BY <2>7
<1> QED BY <1>5, <1>6

LEMMA EraseStepInv == ListInv /\ EraseStep => ListInv'
<1> SUFFICES ASSUME ListInv, EraseStep PROVE ListInv'
  OBVIOUS
<1>1. PICK l \in Lists : \E i, j \in 1..(size[l] + 1) : EraseEnds(l, i) \/ EraseTurns(l, i, j)
  BY EraseEffect
<1>2. PICK i \in 1..(size[l] + 1), j \in 1..(size[l] + 1) : EraseEnds(l, i) \/ EraseTurns(l, i, j)
  BY <1>1
<1>3. CASE EraseEnds(l, i)
  BY <1>3, NodesKept DEF EraseEnds, ListInv, Ready
<1>4. CASE EraseTurns(l, i, j)
  <2> DEFINE j2 == j - 1
  <2>1. /\ i \in 1..(size'[l] + 1) /\ j2 \in 1..(size'[l] + 1) /\ i <= j2
        /\ call' = <<Erasing(l, Rings'[l][i], Rings'[l][j2])>>
    <3>1. size[l] \in Nat
      BY DEF ListInv, Linked
    <3> QED BY <1>4, <3>1 DEF EraseTurns
  <2>2. Linked(next', prev', size', Rings') /\ value' \in [Heap -> Value \cup {Null}]
    BY <1>4 DEF EraseTurns, Erases, ListInv
  <2> HIDE DEF j2
  <2>3. EraseReady(size', Rings', call')
    BY <2>1 DEF EraseReady
  <2> QED BY <2>2, <2>3 DEF ListInv, Ready
<1> QED BY <1>2, <1>3, <1>4

LEMMA ClearTurn ==
  ASSUME ListInv, ClearStep, NEW l \in Lists, Loop = Clearing(l), size[l] # 0
  PROVE  call' = call /\ size[l] \in 1..size[l] /\ Erases(l, size[l])
<1>1. Loop.list = l /\ size[l] \in Nat
  BY DEF Clearing, ListInv, Linked
<1>2. EraseNode(l, prev[l]) /\ call' = call
  BY <1>1 DEF ClearStep
<1>3. size[l] \in 1..size[l] /\ prev[l] = Rings[l][size[l]]
  <2>1. /\ size[l] \in 1..size[l] /\ size[l] + 1 \in 1..(size[l] + 1)
        /\ size[l] + 1 # 1 /\ (size[l] + 1) - 1 = size[l]
    BY <1>1
  <2>2. prev[Rings[l][size[l] + 1]] = Pred(Rings, l, size[l] + 1) /\ Rings[l][size[l] + 1] = l
    BY <2>1 DEF ListInv, Linked
  <2> QED BY <2>1, <2>2 DEF Pred
<1> QED BY <1>2, <1>3, Erased

LEMMA ClearStepInv == ListInv /\ ClearStep => ListInv'
<1> SUFFICES ASSUME ListInv, ClearStep PROVE ListInv'
  OBVIOUS
<1>1. PICK l \in Lists : Loop = Clearing(l) /\ ClearsFor(l)
  BY NowClearing DEF ClearStep
<1>2. Loop.list = l /\ size[l] \in Nat
  BY <1>1 DEF Clearing, ListInv, Linked
<1>3. \/ call = <<Clearing(l)>>
      \/ \E m \in Lists : call = <<Clearing(l), Copying(l, m, Null)>>
      \/ \E s \in Seq(Value) : call = <<Clearing(l), Pushing(l, s)>>
  BY <1>1 DEF ClearsFor
<1>4. CASE size[l] = 0
  <2>1. call' = Tail(call) /\ UNCHANGED nodes
    BY <1>2, <1>4 DEF ClearStep, Leave
  <2>2. Ready(size, Rings, call')
    <3>1. CASE call = <<Clearing(l)>>
      BY <2>1, <3>1, OneLoop DEF Ready
    <3>2. ASSUME NEW m \in Lists, call = <<Clearing(l), Copying(l, m, Null)>>
          PROVE  Ready(size, Rings, call')
      <4>1. call' = <<Copying(l, m, Null)>>
        BY <2>1, <3>2, TwoLoops
      <4> QED BY <4>1, <1>4 DEF Ready, CopyWhole
    <3>3. ASSUME NEW s \in Seq(Value), call = <<Clearing(l), Pushing(l, s)>>
          PROVE  Ready(size, Rings, call')
      <4>1. call' = <<Pushing(l, s)>>
        BY <2>1, <3>3, TwoLoops
      <4> QED BY <4>1 DEF Ready, PushReady
    <3> QED BY <1>3, <3>1, <3>2, <3>3
  <2> QED BY <2>1, <2>2, NodesKept DEF ListInv
<1>5. CASE size[l] # 0
  <2>1. call' = call
    BY <1>2, <1>5 DEF ClearStep
  <2>2. Erases(l, size[l])
    BY <1>1, <1>5, ClearTurn
  <2>3. ClearReady(size', Rings', call')
    BY <1>3, <2>1 DEF ClearReady
  <2>4. Linked(next', prev', size', Rings') /\ value' \in [Heap -> Value \cup {Null}]
    BY <2>2 DEF Erases, ListInv
  <2> QED BY <2>3, <2>4 DEF ListInv, Ready
<1> QED BY <1>4, <1>5

(* Places that calls begin from. *)
LEMMA Ends ==
  ASSUME ListInv, NEW l \in Lists
  PROVE  /\ size[l] \in Nat /\ Iterators(l) = Rings[l] /\ Len(Rings[l]) = size[l] + 1
         /\ Places(l) = 1..(size[l] + 1)
         /\ 1 \in 1..(size[l] + 1) /\ next[l] = Rings[l][1]
         /\ size[l] + 1 \in 1..(size[l] + 1) /\ Rings[l][size[l] + 1] = l
         /\ size[l] > 0 => size[l] \in 1..size[l] /\ prev[l] = Rings[l][size[l]]
<1>1. Linked(next, prev, size, Rings)
  BY DEF ListInv
<1>2. size[l] \in Nat /\ Iterators(l) = Rings[l]
  BY <1>1 DEF Linked, Rings
<1>3. 1 \in 1..(size[l] + 1) /\ size[l] + 1 \in 1..(size[l] + 1)
  BY <1>2
<1>4. Len(Rings[l]) = size[l] + 1
  BY <1>1, <1>3, AtPlace
<1>5. next[l] = Rings[l][1] /\ Rings[l][size[l] + 1] = l
  BY <1>1, <1>3 DEF Linked, Pred
<1>6. ASSUME size[l] > 0 PROVE size[l] \in 1..size[l] /\ prev[l] = Rings[l][size[l]]
  <2>1. size[l] \in 1..size[l] /\ size[l] + 1 # 1 /\ (size[l] + 1) - 1 = size[l]
    BY <1>2, <1>6
  <2>2. prev[Rings[l][size[l] + 1]] = Pred(Rings, l, size[l] + 1)
    BY <1>1, <1>3, AtPlace
  <2> QED BY <1>5, <2>1, <2>2 DEF Pred
<1> QED BY <1>2, <1>3, <1>4, <1>5, <1>6 DEF Places

LEMMA InsertBeforeInv ==
  ASSUME ListInv, NEW l \in Lists, NEW i \in 1..(size[l] + 1), NEW x \in Value,
         InsertBefore(l, Rings[l][i], x)
  PROVE  ListInv'
<1>1. PICK n \in Free : InsertNode(l, Rings[l][i], x, n)
  BY DEF InsertBefore
<1>2. Inserts(l, i, n, x)
  BY <1>1, Inserted
<1>3. Linked(next', prev', size', Rings') /\ value' \in [Heap -> Value \cup {Null}]
  BY <1>2 DEF Inserts, ListInv
<1> QED BY <1>3 DEF InsertBefore, Idle, ListInv, Ready

LEMMA EraseAtInv ==
  ASSUME ListInv, NEW l \in Lists, NEW i \in 1..size[l], EraseAt(l, Rings[l][i])
  PROVE  ListInv'
<1>1. Erases(l, i)
  BY Erased DEF EraseAt
<1>2. Linked(next', prev', size', Rings') /\ value' \in [Heap -> Value \cup {Null}]
  BY <1>1 DEF Erases, ListInv
<1> QED BY <1>2 DEF EraseAt, Idle, ListInv, Ready

LEMMA StartInv ==
  ASSUME ListInv, NEW loops, NEW needed, NEW freed, Start(loops, needed, freed),
         Ready(size, Rings, loops)
  PROVE  ListInv'
<1>1. call' = loops /\ UNCHANGED nodes
  BY DEF Start
<1> QED BY <1>1, NodesKept DEF ListInv

LEMMA SingleInv ==
  ASSUME ListInv, NEW l \in Lists,
         \/ PopBack(l) \/ PopFront(l)
         \/ \E x \in Value : PushBack(l, x) \/ PushFront(l, x)
         \/ \E i \in Places(l) : Erase(l, i) \/ \E x \in Value : Insert(l, i, x)
  PROVE  ListInv'
<1>1. CASE PopBack(l)
  <2>1. size[l] > 0
    BY <1>1 DEF PopBack, EraseAt
  <2> QED BY <1>1, <2>1, Ends, EraseAtInv DEF PopBack
<1>2. CASE PopFront(l)
  <2>1. size[l] > 0
    BY <1>2 DEF PopFront, EraseAt
  <2>2. 1 \in 1..size[l]
    BY <2>1, Ends
  <2> QED BY <1>2, <2>2, Ends, EraseAtInv DEF PopFront
<1>3. ASSUME NEW x \in Value, PushBack(l, x) PROVE ListInv'
  BY <1>3, Ends, InsertBeforeInv DEF PushBack
<1>4. ASSUME NEW x \in Value, PushFront(l, x) PROVE ListInv'
  BY <1>4, Ends, InsertBeforeInv DEF PushFront
<1>5. ASSUME NEW i \in Places(l), Erase(l, i) PROVE ListInv'
  <2>1. i \in 1..size[l] /\ EraseAt(l, Rings[l][i])
    BY <1>5, Ends DEF Erase
  <2> QED BY <2>1, EraseAtInv
<1>6. ASSUME NEW i \in Places(l), NEW x \in Value, Insert(l, i, x) PROVE ListInv'
  <2>1. i \in 1..(size[l] + 1) /\ InsertBefore(l, Rings[l][i], x)
    BY <1>6, Ends DEF Insert
  <2> QED BY <2>1, InsertBeforeInv
<1> QED BY <1>1, <1>2, <1>3, <1>4, <1>5, <1>6

(* A range of a list is named by two of its places. *)
LEMMA RangePlaces ==
  ASSUME ListInv, NEW l \in Lists, NEW r \in Ranges(l)
  PROVE  r[1] \in 1..(size[l] + 1) /\ r[2] \in 1..(size[l] + 1) /\ r[1] <= r[2]
BY Ends DEF Ranges

LEMMA LoopsInv ==
  ASSUME ListInv, NEW l \in Lists,
         \/ Clear(l)
         \/ \E s \in Assigned : Assign(l, s)
         \/ \E m \in Lists : AssignList(l, m)
         \/ \E r \in Ranges(l) : EraseRange(l, r)
  PROVE  ListInv'
<1>1. CASE Clear(l)
  <2>1. Ready(size, Rings, <<Clearing(l)>>)
    BY DEF Ready, ClearReady
  <2> QED BY <1>1, <2>1, StartInv DEF Clear
<1>2. ASSUME NEW s \in Assigned, Assign(l, s) PROVE ListInv'
  <2>1. s \in Seq(Value)
    BY AssignedAssumption
  <2>2. Ready(size, Rings, <<Clearing(l), Pushing(l, s)>>)
    BY <2>1 DEF Ready, ClearReady
  <2> QED BY <1>2, <2>2, StartInv DEF Assign
<1>3. ASSUME NEW m \in Lists, AssignList(l, m) PROVE ListInv'
  <2>1. Ready(size, Rings, <<Clearing(l), Copying(l, m, Null)>>)
    BY DEF Ready, ClearReady
  <2> QED BY <1>3, <2>1, StartInv DEF AssignList
<1>4. ASSUME NEW r \in Ranges(l), EraseRange(l, r) PROVE ListInv'
  <2>1. r[1] \in 1..(size[l] + 1) /\ r[2] \in 1..(size[l] + 1) /\ r[1] <= r[2]
    BY RangePlaces
  <2>2. Ready(size, Rings, <<Erasing(l, Rings[l][r[1]], Rings[l][r[2]])>>)
    BY <2>1 DEF Ready, EraseReady
  <2> QED BY <1>4, <2>2, Ends, StartInv DEF EraseRange
<1> QED BY <1>1, <1>2, <1>3, <1>4

LEMMA ListStep == ListInv /\ [Next]_vars => ListInv'
<1> SUFFICES ASSUME ListInv, [Next]_vars PROVE ListInv'
  OBVIOUS
<1>1. CASE Step
  BY <1>1, ClearStepInv, CopyStepInv, PushStepInv, EraseStepInv DEF Step
<1>2. CASE Client
  BY <1>2, SingleInv, LoopsInv DEF Client
<1>3. CASE UNCHANGED vars
  BY <1>3, NodesKept DEF vars, ListInv
<1> QED BY <1>1, <1>2, <1>3 DEF Next

LEMMA ListInvariant == Spec => []ListInv
<1> QED BY ListInit, ListStep, PTL DEF Spec

(* Every list is a ring that leads back and is counted, in the middle of   *)
(* each loop too, and no node is lost or shared, for any lists and memory. *)
THEOREM RingsStayLinked == Spec => []WellLinked
BY ListInvariant, LinkedIsWell, PTL

-----------------------------------------------------------------------------
(* Parts of sequences *)

LEMMA PartIs ==
  ASSUME NEW S, NEW s \in Seq(S), NEW i \in 1..(Len(s) + 1), NEW j \in (i - 1)..Len(s)
  PROVE  /\ SubSeq(s, i, j) \in Seq(S) /\ Len(SubSeq(s, i, j)) = j - i + 1
         /\ \A p \in 1..(j - i + 1) : SubSeq(s, i, j)[p] = s[i + p - 1]
<1>1. /\ Len(s) \in Nat /\ i \in Int /\ j \in Int
      /\ \A p \in i..j : s[p] \in S
  OBVIOUS
<1>2. /\ SubSeq(s, i, j) \in Seq(S)
      /\ Len(SubSeq(s, i, j)) = IF i <= j THEN j - i + 1 ELSE 0
      /\ \A p \in 1..(j - i + 1) : SubSeq(s, i, j)[p] = s[i + p - 1]
  BY <1>1, SubSeqProperties
<1>3. i > j => j - i + 1 = 0
  BY <1>1
<1> QED BY <1>1, <1>2, <1>3

(* The n elements of s from i on are those of t from a on. *)
Same(s, i, t, a, n) == \A p \in 1..n : s[i + p - 1] = t[a + p - 1]

LEMMA PartsAgree ==
  ASSUME NEW S, NEW s \in Seq(S), NEW i \in 1..(Len(s) + 1), NEW j \in (i - 1)..Len(s),
         NEW t \in Seq(S), NEW a \in 1..(Len(t) + 1), NEW b \in (a - 1)..Len(t),
         NEW n, n = j - i + 1, n = b - a + 1, Same(s, i, t, a, n)
  PROVE  SubSeq(s, i, j) = SubSeq(t, a, b)
<1> DEFINE u == SubSeq(s, i, j)
           v == SubSeq(t, a, b)
<1>1. b - a + 1 = n /\ n \in Nat
  OBVIOUS
<1>2. u \in Seq(S) /\ Len(u) = n /\ \A p \in 1..n : u[p] = s[i + p - 1]
  BY PartIs
<1>3. v \in Seq(S) /\ Len(v) = n /\ \A p \in 1..n : v[p] = t[a + p - 1]
  <2>1. /\ v \in Seq(S) /\ Len(v) = b - a + 1
        /\ \A p \in 1..(b - a + 1) : v[p] = t[a + p - 1]
    BY PartIs
  <2> HIDE DEF v
  <2> QED BY <1>1, <2>1
<1>4. \A p \in 1..n : s[i + p - 1] = t[a + p - 1]
  BY DEF Same
<1> HIDE DEF u, v
<1>5. u = v
  BY <1>1, <1>2, <1>3, <1>4, SeqEqual
<1> QED BY <1>5 DEF u, v

LEMMA LastPartsAgree ==
  ASSUME NEW S, NEW s \in Seq(S), NEW i \in 1..(Len(s) + 1),
         NEW t \in Seq(S), NEW a \in 1..(Len(t) + 1), Len(t) - a = Len(s) - i,
         Same(s, i, t, a, Len(s) - i + 1)
  PROVE  SubSeq(t, a, Len(t)) = SubSeq(s, i, Len(s))
<1> DEFINE j == Len(s)
           b == Len(t)
           n == j - i + 1
<1>1. /\ i \in 1..(Len(s) + 1) /\ j \in (i - 1)..Len(s)
      /\ a \in 1..(Len(t) + 1) /\ b \in (a - 1)..Len(t)
      /\ n = j - i + 1 /\ n = b - a + 1 /\ Same(s, i, t, a, n)
  OBVIOUS
<1> HIDE DEF j, b, n
<1>2. SubSeq(s, i, j) = SubSeq(t, a, b)
  BY ONLY <1>1, s \in Seq(S), t \in Seq(S), PartsAgree
<1> QED BY <1>2 DEF j, b

LEMMA FirstPartsAgree ==
  ASSUME NEW S, NEW s \in Seq(S), NEW t \in Seq(S),
         NEW k \in Nat, k <= Len(s) + 1, k <= Len(t) + 1, 0 < k, \A p \in 1..(k - 1) : t[p] = s[p]
  PROVE  SubSeq(t, 1, k - 1) = SubSeq(s, 1, k - 1)
<1>1. /\ 1 \in 1..(Len(s) + 1) /\ 1 \in 1..(Len(t) + 1)
      /\ k - 1 \in (1 - 1)..Len(s) /\ k - 1 \in (1 - 1)..Len(t)
      /\ k - 1 = (k - 1) - 1 + 1
  OBVIOUS
<1>2. Same(t, 1, s, 1, k - 1)
  BY DEF Same
<1> QED BY <1>1, <1>2, PartsAgree

(* The first k elements with an element more, and the rest. *)
LEMMA PartsInserted ==
  ASSUME NEW S, NEW s \in Seq(S), NEW k \in 1..(Len(s) + 1), NEW x \in S,
         NEW t \in Seq(S), Len(t) = Len(s) + 1, t[k] = x,
         \A p \in 1..(k - 1) : t[p] = s[p],
         \A p \in k..Len(s) : t[p + 1] = s[p]
  PROVE  /\ SubSeq(t, 1, k) = SubSeq(s, 1, k - 1) \o <<x>>
         /\ t = SubSeq(s, 1, k - 1) \o <<x>> \o SubSeq(s, k, Len(s))
<1>1. Len(s) \in Nat /\ Len(t) \in Nat /\ k \in Nat /\ k \in 1..Len(t) /\ 1 \in 1..Len(t)
  OBVIOUS
<1>2. SubSeq(t, 1, k - 1) = SubSeq(s, 1, k - 1)
  BY <1>1, FirstPartsAgree
<1>3. SubSeq(t, 1, k) = SubSeq(t, 1, k - 1) \o <<t[k]>>
  BY <1>1, SubSeqRecursiveSecond
<1>4. SubSeq(t, k + 1, Len(t)) = SubSeq(s, k, Len(s))
  <2>1. ASSUME NEW p \in 1..(Len(s) - k + 1) PROVE s[k + p - 1] = t[(k + 1) + p - 1]
    <3>1. k + p - 1 \in k..Len(s) /\ (k + p - 1) + 1 = (k + 1) + p - 1
      BY <1>1
    <3> QED BY <3>1
  <2>2. k + 1 \in 1..(Len(t) + 1) /\ Len(t) - (k + 1) = Len(s) - k
    BY <1>1
  <2>3. Same(s, k, t, k + 1, Len(s) - k + 1)
    BY <2>1 DEF Same
  <2> QED BY <2>2, <2>3, LastPartsAgree
<1>5. t = SubSeq(t, 1, k) \o SubSeq(t, k + 1, Len(t))
  <2> DEFINE b == Len(t)
  <2>1. t \in Seq(S) /\ SubSeq(t, 1, b) = t
    BY <1>1, SubSeqFull
  <2>2. /\ 1 \in 1..(Len(t) + 1) /\ k \in (1 - 1)..Len(t) /\ b \in k..Len(t)
    BY <1>1
  <2> HIDE DEF b
  <2>3. SubSeq(t, 1, k) \o SubSeq(t, k + 1, b) = SubSeq(t, 1, b)
    BY ONLY <2>1, <2>2, ConcatAdjacentSubSeq
  <2> QED BY <2>1, <2>3 DEF b
<1> QED BY <1>2, <1>3, <1>4, <1>5

(* An element less moves what comes after it. *)
LEMMA PartsErased ==
  ASSUME NEW S, NEW s \in Seq(S), NEW k \in 1..Len(s),
         NEW t \in Seq(S), Len(t) = Len(s) - 1,
         \A p \in 1..(k - 1) : t[p] = s[p],
         \A p \in k..(Len(s) - 1) : t[p] = s[p + 1]
  PROVE  /\ SubSeq(t, 1, k - 1) = SubSeq(s, 1, k - 1)
         /\ \A j \in (k + 1)..(Len(s) + 1) :
              SubSeq(t, j - 1, Len(t)) = SubSeq(s, j, Len(s))
<1>1. Len(s) \in Nat /\ Len(t) \in Nat /\ k \in Nat
  OBVIOUS
<1>2. SubSeq(t, 1, k - 1) = SubSeq(s, 1, k - 1)
  BY <1>1, FirstPartsAgree
<1>3. ASSUME NEW j \in (k + 1)..(Len(s) + 1)
      PROVE  SubSeq(t, j - 1, Len(t)) = SubSeq(s, j, Len(s))
  <2>1. ASSUME NEW p \in 1..(Len(s) - j + 1) PROVE s[j + p - 1] = t[(j - 1) + p - 1]
    <3>1. (j - 1) + p - 1 \in k..(Len(s) - 1) /\ ((j - 1) + p - 1) + 1 = j + p - 1
      BY <1>1
    <3> QED BY <3>1
  <2>2. /\ j \in 1..(Len(s) + 1) /\ j - 1 \in 1..(Len(t) + 1)
        /\ Len(t) - (j - 1) = Len(s) - j
    BY <1>1
  <2>3. Same(s, j, t, j - 1, Len(s) - j + 1)
    BY <2>1 DEF Same
  <2> QED BY <2>2, <2>3, LastPartsAgree
<1> QED BY <1>2, <1>3

-----------------------------------------------------------------------------
(* What a list holds for its clients, in terms of its elements *)

Elements(l) == [p \in 1..size[l] |-> value[Rings[l][p]]]

Field == Value \cup {Null}

LEMMA ElementsAre ==
  ASSUME ListInv, NEW l \in Lists
  PROVE  /\ Elements(l) \in Seq(Field) /\ Len(Elements(l)) = size[l] /\ size[l] \in Nat
         /\ \A p \in 1..size[l] : Elements(l)[p] = value[Rings[l][p]]
<1>1. size[l] \in Nat
  BY Ends
<1>2. ASSUME NEW p \in 1..size[l] PROVE value[Rings[l][p]] \in Field
  <2>1. p \in 1..(size[l] + 1) /\ p <= size[l]
    BY <1>1
  <2>2. Rings[l][p] \in Heap
    BY <2>1, RingPlaces
  <2> QED BY <2>2 DEF ListInv, Field
<1> DEFINE c == Elements(l)
<1>3. DOMAIN c = 1..size[l] /\ \A p \in 1..size[l] : c[p] = value[Rings[l][p]]
  BY DEF Elements
<1>4. c \in [1..size[l] -> Field]
  BY <1>2 DEF Elements
<1> HIDE DEF c
<1>5. c \in Seq(Field) /\ Len(c) = size[l]
  BY <1>1, <1>4
<1> QED BY <1>1, <1>3, <1>5 DEF c

LEMMA PlaceIs ==
  ASSUME ListInv, NEW l \in Lists, NEW i \in 1..(size[l] + 1)
  PROVE  Place(l, Rings[l][i]) = i
<1> DEFINE I == {p \in 1..Len(Iterators(l)) : Iterators(l)[p] = Rings[l][i]}
<1>1. /\ Iterators(l) = Rings[l] /\ Len(Iterators(l)) = size[l] + 1 /\ size[l] \in Nat
  BY Ends
<1>2. \A p \in 1..(size[l] + 1) : Rings[l][p] = Rings[l][i] => p = i
  BY Apart DEF ListInv
<1>3. I = {i}
  BY <1>1, <1>2
<1>4. Place(l, Rings[l][i]) = IF I # {} THEN Min(I) ELSE 0
  BY DEF Place, SelectInSeq
<1>5. Min({i}) = i
  BY <1>1 DEF Min
<1> HIDE DEF I
<1> QED BY <1>3, <1>4, <1>5

LEMMA ValuesAre ==
  ASSUME ListInv, NEW l \in Lists, NEW i \in 1..(size[l] + 1), NEW j \in i..(size[l] + 1)
  PROVE  Values(l, i, j) = SubSeq(Elements(l), i, j - 1)
<1> DEFINE c == Elements(l)
           n == j - i
           u == Values(l, i, j)
           v == SubSeq(c, i, j - 1)
<1>1. /\ c \in Seq(Field) /\ Len(c) = size[l] /\ size[l] \in Nat
      /\ \A p \in 1..size[l] : c[p] = value[Rings[l][p]]
  BY ElementsAre
<1>2. Iterators(l) = Rings[l]
  BY Ends
<1>3. u = [p \in 1..n |-> value[Rings[l][i + p - 1]]]
  BY <1>2 DEF Values
<1> HIDE DEF c, u
<1>4. n \in Nat /\ j - 1 \in (i - 1)..Len(c) /\ (j - 1) - i + 1 = n /\ i \in 1..(Len(c) + 1)
  BY <1>1
<1>5. v \in Seq(Field) /\ Len(v) = n /\ \A p \in 1..n : v[p] = c[i + p - 1]
  <2>1. /\ v \in Seq(Field) /\ Len(v) = (j - 1) - i + 1
        /\ \A p \in 1..((j - 1) - i + 1) : v[p] = c[i + p - 1]
    BY <1>1, <1>4, PartIs
  <2> HIDE DEF v
  <2> QED BY <1>4, <2>1
<1>6. ASSUME NEW p \in 1..n PROVE u[p] = v[p]
  <2>1. i + p - 1 \in 1..size[l]
    BY <1>1
  <2> HIDE DEF v
  <2> QED BY <1>1, <1>3, <1>5, <2>1
<1> HIDE DEF n, v
<1>7. DOMAIN u = 1..n /\ u = [p \in 1..n |-> u[p]]
  BY <1>3
<1>8. DOMAIN v = 1..n /\ v = [p \in 1..n |-> v[p]]
  BY <1>4, <1>5
<1>9. u = v
  BY <1>6, <1>7, <1>8
<1> QED BY <1>9 DEF u, v, c

LEMMA PartsAre ==
  ASSUME ListInv, NEW l \in Lists, NEW i \in 1..(size[l] + 1)
  PROVE  /\ Before(l, Rings[l][i]) = SubSeq(Elements(l), 1, i - 1)
         /\ Between(l, Rings[l][i], l) = SubSeq(Elements(l), i, size[l])
         /\ All(l) = Elements(l)
<1>1. /\ size[l] \in Nat /\ 1 \in 1..(size[l] + 1) /\ size[l] + 1 \in 1..(size[l] + 1)
      /\ Rings[l][size[l] + 1] = l
  BY Ends
<1>2. Before(l, Rings[l][i]) = SubSeq(Elements(l), 1, i - 1)
  BY <1>1, PlaceIs, ValuesAre DEF Before
<1>3. ASSUME NEW k \in i..(size[l] + 1)
      PROVE  Between(l, Rings[l][i], Rings[l][k]) = SubSeq(Elements(l), i, k - 1)
  <2>1. k \in 1..(size[l] + 1)
    BY <1>1
  <2> QED BY <2>1, PlaceIs, ValuesAre DEF Between
<1>4. Between(l, Rings[l][i], l) = SubSeq(Elements(l), i, size[l])
  <2>1. size[l] + 1 \in i..(size[l] + 1) /\ (size[l] + 1) - 1 = size[l]
    BY <1>1
  <2> QED BY <1>1, <1>3, <2>1
<1>5. All(l) = Elements(l)
  <2>1. Place(l, l) = size[l] + 1
    BY <1>1, PlaceIs
  <2>2. All(l) = SubSeq(Elements(l), 1, (size[l] + 1) - 1)
    BY <1>1, <2>1, ValuesAre DEF All, Before
  <2>3. (size[l] + 1) - 1 = Len(Elements(l))
    BY <1>1, ElementsAre
  <2> QED BY <2>2, <2>3, ElementsAre, SubSeqFull
<1> QED BY <1>2, <1>4, <1>5

ElementsTyped == \A l \in Lists :
  /\ Elements(l) \in Seq(Field) /\ Len(Elements(l)) = size[l] /\ size[l] \in Nat
  /\ \A p \in 1..size[l] : Elements(l)[p] = value[Rings[l][p]]

LEMMA Typed == ListInv => ElementsTyped
BY ElementsAre DEF ElementsTyped

LEMMA TypedPrimed == ListInv' => ElementsTyped'
BY Typed, PTL

(* t is s with x put before its k-th element, or without that element. *)
Put(s, k, x, t) ==
  /\ t \in Seq(Field) /\ Len(t) = Len(s) + 1 /\ t[k] = x
  /\ \A p \in 1..(k - 1) : t[p] = s[p]
  /\ \A p \in k..Len(s) : t[p + 1] = s[p]

Taken(s, k, t) ==
  /\ t \in Seq(Field) /\ Len(t) = Len(s) - 1
  /\ \A p \in 1..(k - 1) : t[p] = s[p]
  /\ \A p \in k..(Len(s) - 1) : t[p] = s[p + 1]

LEMMA InsertsElement ==
  ASSUME ListInv, ListInv', NEW l \in Lists, NEW k \in 1..(size[l] + 1), NEW n, NEW x \in Field,
         Inserts(l, k, n, x)
  PROVE  /\ Put(Elements(l), k, x, Elements(l)')
         /\ \A m \in Lists \ {l} : Elements(m)' = Elements(m)
<1> DEFINE s == Elements(l)
           t == Elements(l)'
<1>1. /\ s \in Seq(Field) /\ Len(s) = size[l] /\ size[l] \in Nat
      /\ \A p \in 1..size[l] : s[p] = value[Rings[l][p]]
  BY ElementsAre
<1>2. /\ t \in Seq(Field) /\ Len(t) = size'[l]
      /\ \A p \in 1..size'[l] : t[p] = value'[Rings'[l][p]]
  BY TypedPrimed DEF ElementsTyped
<1> HIDE DEF s, t
<1>3. size'[l] = size[l] + 1 /\ n \in Heap /\ value' = [value EXCEPT ![n] = x]
  BY DEF Inserts
<1>4. value'[n] = x /\ \A h \in Heap : h # n => value'[h] = value[h]
  BY <1>3 DEF ListInv
<1>5. ASSUME NEW m \in Lists, NEW p \in 1..size[m]
      PROVE  value'[Rings[m][p]] = value[Rings[m][p]]
  <2>1. size[m] \in Nat
    BY Ends
  <2>2. p \in 1..(size[m] + 1) /\ p <= size[m]
    BY <2>1
  <2>3. Rings[m][p] \in Heap
    BY <2>2, RingPlaces
  <2>4. Rings[m][p] # n
    BY <2>2 DEF Inserts
  <2> QED BY <1>4, <2>3, <2>4
<1>6. t[k] = x
  <2>1. k \in 1..size'[l] /\ Rings'[l][k] = n
    BY <1>1, <1>3 DEF Inserts
  <2> QED BY <1>2, <1>4, <2>1
<1>7. ASSUME NEW p \in 1..(k - 1) PROVE t[p] = s[p]
  <2>1. p \in 1..size[l] /\ p \in 1..size'[l] /\ Rings'[l][p] = Rings[l][p]
    BY <1>1, <1>3 DEF Inserts
  <2> QED BY <1>1, <1>2, <1>5, <2>1
<1>8. ASSUME NEW p \in k..Len(s) PROVE t[p + 1] = s[p]
  <2>1. p \in 1..size[l] /\ p + 1 \in 1..size'[l] /\ p \in k..(size[l] + 1)
    BY <1>1, <1>3
  <2>2. Rings'[l][p + 1] = Rings[l][p]
    BY <2>1 DEF Inserts
  <2> QED BY <1>1, <1>2, <1>5, <2>1, <2>2
<1>9. Put(s, k, x, t)
  BY <1>1, <1>2, <1>3, <1>6, <1>7, <1>8 DEF Put
<1>10. ASSUME NEW m \in Lists \ {l} PROVE Elements(m)' = Elements(m)
  <2>1. size'[m] = size[m] /\ Rings'[m] = Rings[m]
    BY DEF Inserts
  <2>2. Elements(m)' = [p \in 1..size[m] |-> value'[Rings[m][p]]]
    BY <2>1 DEF Elements
  <2> QED BY <1>5, <2>2 DEF Elements
<1> QED BY <1>9, <1>10 DEF s, t

LEMMA ErasesElement ==
  ASSUME ListInv, ListInv', NEW l \in Lists, NEW k \in 1..size[l], Erases(l, k)
  PROVE  /\ Taken(Elements(l), k, Elements(l)')
         /\ \A m \in Lists \ {l} : Elements(m)' = Elements(m)
<1> DEFINE s == Elements(l)
           t == Elements(l)'
           n == Rings[l][k]
<1>1. /\ s \in Seq(Field) /\ Len(s) = size[l] /\ size[l] \in Nat
      /\ \A p \in 1..size[l] : s[p] = value[Rings[l][p]]
  BY ElementsAre
<1>2. /\ t \in Seq(Field) /\ Len(t) = size'[l]
      /\ \A p \in 1..size'[l] : t[p] = value'[Rings'[l][p]]
  BY TypedPrimed DEF ElementsTyped
<1> HIDE DEF s, t
<1>3. size'[l] = size[l] - 1 /\ n \in Heap /\ value' = [value EXCEPT ![n] = Null]
  BY DEF Erases
<1>4. \A h \in Heap : h # n => value'[h] = value[h]
  <2> HIDE DEF n
  <2> QED BY <1>3 DEF ListInv
<1>5. ASSUME NEW m \in Lists, NEW p \in 1..size[m], m # l \/ p # k
      PROVE  value'[Rings[m][p]] = value[Rings[m][p]]
  <2>1. size[m] \in Nat
    BY Ends
  <2>2. p \in 1..(size[m] + 1) /\ p <= size[m] /\ k \in 1..(size[l] + 1)
    BY <1>1, <2>1
  <2>3. Rings[m][p] \in Heap
    BY <2>2, RingPlaces
  <2>4. Rings[m][p] # n
    BY <1>5, <2>2, Apart DEF ListInv
  <2> QED BY <1>4, <2>3, <2>4
<1>6. ASSUME NEW p \in 1..(k - 1) PROVE t[p] = s[p]
  <2>1. p \in 1..size[l] /\ p # k /\ p \in 1..size'[l] /\ Rings'[l][p] = Rings[l][p]
    BY <1>1, <1>3 DEF Erases
  <2> QED BY <1>1, <1>2, <1>5, <2>1
<1>7. ASSUME NEW p \in k..(Len(s) - 1) PROVE t[p] = s[p + 1]
  <2>1. p + 1 \in 1..size[l] /\ p + 1 # k /\ p \in 1..size'[l] /\ p \in k..size[l]
    BY <1>1, <1>3
  <2>2. Rings'[l][p] = Rings[l][p + 1]
    BY <2>1 DEF Erases
  <2> QED BY <1>1, <1>2, <1>5, <2>1, <2>2
<1>8. Taken(s, k, t)
  BY <1>1, <1>2, <1>3, <1>6, <1>7 DEF Taken
<1>9. ASSUME NEW m \in Lists \ {l} PROVE Elements(m)' = Elements(m)
  <2>1. size'[m] = size[m] /\ Rings'[m] = Rings[m]
    BY DEF Erases
  <2>2. Elements(m)' = [p \in 1..size[m] |-> value'[Rings[m][p]]]
    BY <2>1 DEF Elements
  <2> QED BY <1>5, <2>2 DEF Elements
<1> QED BY <1>8, <1>9 DEF s, t

LEMMA PutParts ==
  ASSUME NEW s \in Seq(Field), NEW k \in 1..(Len(s) + 1), NEW x \in Field, NEW t, Put(s, k, x, t)
  PROVE  t = SubSeq(s, 1, k - 1) \o <<x>> \o SubSeq(s, k, Len(s))
BY PartsInserted DEF Put

LEMMA TakenParts ==
  ASSUME NEW s \in Seq(Field), NEW k \in 1..Len(s), NEW t, Taken(s, k, t)
  PROVE  /\ SubSeq(t, 1, k - 1) = SubSeq(s, 1, k - 1)
         /\ \A j \in (k + 1)..(Len(s) + 1) :
              SubSeq(t, j - 1, Len(t)) = SubSeq(s, j, Len(s))
         /\ t = SubSeq(s, 1, k - 1) \o SubSeq(s, k + 1, Len(s))
<1>1. /\ SubSeq(t, 1, k - 1) = SubSeq(s, 1, k - 1)
      /\ \A j \in (k + 1)..(Len(s) + 1) :
              SubSeq(t, j - 1, Len(t)) = SubSeq(s, j, Len(s))
  BY PartsErased DEF Taken
<1>2. SubSeq(t, k, Len(t)) = SubSeq(s, k + 1, Len(s))
  <2>1. k + 1 \in (k + 1)..(Len(s) + 1) /\ (k + 1) - 1 = k
    OBVIOUS
  <2> QED BY <1>1, <2>1
<1>3. t = SubSeq(t, 1, k - 1) \o SubSeq(t, k, Len(t))
  <2>1. /\ t \in Seq(Field) /\ Len(t) = Len(s) - 1
    BY DEF Taken
  <2>2. /\ 1 \in 1..(Len(t) + 1) /\ k - 1 \in (1 - 1)..Len(t) /\ Len(t) \in (k - 1)..Len(t)
        /\ (k - 1) + 1 = k
    BY <2>1
  <2> QED BY <2>1, <2>2, SubSeqFull, ConcatAdjacentSubSeq
<1> QED BY <1>1, <1>2, <1>3

-----------------------------------------------------------------------------
(* What a list will hold, call by call *)

(* The elements of m from the j-th on. *)
Rest(m, j) == SubSeq(Elements(m), j, size[m])

LEMMA RestIs ==
  ASSUME ListInv, NEW m \in Lists, NEW j \in 1..(size[m] + 1)
  PROVE  /\ size[m] \in Nat /\ Rest(m, j) \in Seq(Field) /\ Len(Rest(m, j)) = size[m] + 1 - j
         /\ Rest(m, 1) = Elements(m)
         /\ j = size[m] + 1 => Rest(m, j) = <<>>
         /\ j <= size[m] => Rest(m, j) = <<value[Rings[m][j]]>> \o Rest(m, j + 1)
<1> DEFINE u == Elements(m)
<1>1. /\ u \in Seq(Field) /\ Len(u) = size[m] /\ size[m] \in Nat
      /\ \A p \in 1..size[m] : u[p] = value[Rings[m][p]]
  BY ElementsAre
<1> HIDE DEF u
<1>2. j \in 1..(Len(u) + 1) /\ size[m] \in (j - 1)..Len(u)
  BY <1>1
<1>3. SubSeq(u, j, size[m]) \in Seq(Field) /\ Len(SubSeq(u, j, size[m])) = size[m] + 1 - j
  BY <1>1, <1>2, PartIs
<1>4. SubSeq(u, 1, size[m]) = u
  BY <1>1, SubSeqFull
<1>5. j = size[m] + 1 => SubSeq(u, j, size[m]) = <<>>
  BY <1>1, SubSeqEmpty
<1>6. ASSUME j <= size[m]
      PROVE  SubSeq(u, j, size[m]) = <<value[Rings[m][j]]>> \o SubSeq(u, j + 1, size[m])
  <2>1. j \in 1..Len(u) /\ size[m] \in j..Len(u)
    BY <1>1, <1>6
  <2>2. SubSeq(u, j, size[m]) = <<u[j]>> \o SubSeq(u, j + 1, size[m])
    BY <1>1, <2>1, SubSeqRecursiveFirst
  <2>3. u[j] = value[Rings[m][j]]
    BY <1>1, <2>1
  <2> QED BY <2>2, <2>3
<1> QED BY <1>1, <1>3, <1>4, <1>5, <1>6 DEF Rest, u

OthersHold == \A l \in Lists : Idle \/ Loop.list # l => Holds(l) = Elements(l)

CopyHolds == \A l, m \in Lists : \A j \in 1..(size[m] + 1) :
  CopiesOn(l, m, j) => Holds(l) = Elements(l) \o Rest(m, j)

PushHolds == \A l \in Lists : \A s \in Seq(Value) :
  call = <<Pushing(l, s)>> => Holds(l) = Elements(l) \o s

EraseHolds == \A l \in Lists : \A i, j \in 1..(size[l] + 1) :
  call = <<Erasing(l, Rings[l][i], Rings[l][j])>>
    => Holds(l) = SubSeq(Elements(l), 1, i - 1) \o SubSeq(Elements(l), j, size[l])

ClearHolds ==
  /\ \A l \in Lists : call = <<Clearing(l)>> => Holds(l) = <<>>
  /\ \A l, m \in Lists :
       call = <<Clearing(l), Copying(l, m, Null)>>
         => Holds(l) = IF m = l THEN <<>> ELSE Elements(m)
  /\ \A l \in Lists : \A s \in Seq(Value) :
       call = <<Clearing(l), Pushing(l, s)>> => Holds(l) = s

LEMMA OthersHolding == ListInv => OthersHold
<1> SUFFICES ASSUME ListInv, NEW l \in Lists, Idle \/ Loop.list # l PROVE Holds(l) = Elements(l)
  BY DEF OthersHold
<1> QED BY Ends, PartsAre DEF Holds

LEMMA PushHolding == ListInv => PushHolds
<1> SUFFICES ASSUME ListInv, NEW l \in Lists, NEW s \in Seq(Value), call = <<Pushing(l, s)>>
             PROVE  Holds(l) = Elements(l) \o s
  BY DEF PushHolds
<1>1. ~Idle /\ Loop = Pushing(l, s)
  BY OneLoop DEF Loop, Idle
<1>2. Loop.list = l /\ Loop.loop = "push" /\ Loop.left = s
  BY <1>1 DEF Pushing
<1>3. Coming(Loop) = s
  BY <1>2 DEF Coming
<1>4. Holds(l) = All(l) \o Coming(Loop)
  BY <1>1, <1>2 DEF Holds
<1> QED BY <1>3, <1>4, Ends, PartsAre

LEMMA EraseHolding == ListInv => EraseHolds
<1> SUFFICES ASSUME ListInv, NEW l \in Lists, NEW i \in 1..(size[l] + 1), NEW j \in 1..(size[l] + 1),
                    call = <<Erasing(l, Rings[l][i], Rings[l][j])>>
             PROVE  Holds(l) = SubSeq(Elements(l), 1, i - 1) \o SubSeq(Elements(l), j, size[l])
  BY DEF EraseHolds
<1>1. ~Idle /\ Loop = Erasing(l, Rings[l][i], Rings[l][j])
  BY OneLoop DEF Loop, Idle
<1>2. /\ Loop.list = l /\ Loop.loop = "erase" /\ Loop.it = Rings[l][i] /\ Loop.last = Rings[l][j]
  BY <1>1 DEF Erasing
<1>3. Holds(l) = Before(l, Rings[l][i]) \o Between(l, Rings[l][j], l)
  BY <1>1, <1>2 DEF Holds
<1> QED BY <1>3, PartsAre

(* What a copy that has not begun has yet to do. *)
LEMMA ListComing ==
  ASSUME ListInv, NEW l \in Lists, NEW m \in Lists
  PROVE  Coming(Copying(l, m, Null)) = IF m = l THEN <<>> ELSE Elements(m)
<1> DEFINE c == Copying(l, m, Null)
<1>1. c.loop = "copy" /\ c.from = m /\ c.it = Null /\ c.list = l
  BY DEF Copying
<1> HIDE DEF c
<1>2. Coming(c) = IF m = l THEN <<>> ELSE All(m)
  BY <1>1 DEF Coming
<1>3. All(m) = Elements(m)
  BY Ends, PartsAre
<1> QED BY <1>2, <1>3 DEF c

LEMMA CopyComing ==
  ASSUME ListInv, NEW l \in Lists, NEW m \in Lists, NEW j \in 1..(size[m] + 1), CopiesOn(l, m, j)
  PROVE  Coming(Loop) = Rest(m, j)
<1>1. Loop = Copying(l, m, Loop.it)
  BY DEF CopiesOn
<1>2. Loop.loop = "copy" /\ Loop.from = m
  BY <1>1 DEF Copying
<1>3. CASE Loop.it = Rings[m][j]
  <2>1. Loop.it # Null
    BY <1>3, RingPlaces
  <2>2. Coming(Loop) = Between(m, Rings[m][j], m)
    BY <1>2, <1>3, <2>1 DEF Coming
  <2> QED BY <2>2, PartsAre DEF Rest
<1>4. CASE Loop.it = Null /\ j = 1 /\ (m = l => size[l] = 0)
  <2>1. Coming(Loop) = IF m = l THEN <<>> ELSE Elements(m)
    BY <1>1, <1>4, ListComing
  <2>2. m = l => Elements(m) = <<>>
    <3>1. m = l => Elements(m) \in Seq(Field) /\ Len(Elements(m)) = 0
      BY <1>4, ElementsAre
    <3> QED BY <3>1
  <2> QED BY <1>4, <2>1, <2>2, RestIs
<1> QED BY <1>3, <1>4 DEF CopiesOn

LEMMA CopyHolding == ListInv => CopyHolds
<1> SUFFICES ASSUME ListInv, NEW l \in Lists, NEW m \in Lists, NEW j \in 1..(size[m] + 1),
                    CopiesOn(l, m, j)
             PROVE  Holds(l) = Elements(l) \o Rest(m, j)
  BY DEF CopyHolds
<1>1. call = <<Loop>> /\ Loop = Copying(l, m, Loop.it)
  BY DEF CopiesOn
<1>2. Loop.list = l /\ Loop.loop = "copy"
  BY <1>1 DEF Copying
<1>3. Holds(l) = All(l) \o Coming(Loop)
  BY <1>1, <1>2, OneLoop DEF Holds, Idle
<1>4. All(l) = Elements(l)
  BY Ends, PartsAre
<1> QED BY <1>3, <1>4, CopyComing

LEMMA ClearHolding == ListInv => ClearHolds
<1> SUFFICES ASSUME ListInv PROVE ClearHolds
  OBVIOUS
<1>1. ASSUME NEW l \in Lists, call = <<Clearing(l)>> PROVE Holds(l) = <<>>
  <2>1. ~Idle /\ Loop = Clearing(l) /\ Len(call) = 1
    BY <1>1, OneLoop DEF Loop, Idle
  <2>2. Loop.list = l /\ Loop.loop = "clear"
    BY <2>1 DEF Clearing
  <2> QED BY <2>1, <2>2 DEF Holds
<1>2. ASSUME NEW l \in Lists, NEW c, call = <<Clearing(l), c>> PROVE Holds(l) = Coming(c)
  <2>1. ~Idle /\ Loop = Clearing(l) /\ Len(call) = 2 /\ call[2] = c
    BY <1>2, TwoLoops DEF Loop, Idle
  <2>2. Loop.list = l /\ Loop.loop = "clear"
    BY <2>1 DEF Clearing
  <2> QED BY <2>1, <2>2 DEF Holds
<1>3. ASSUME NEW l \in Lists, NEW m \in Lists, call = <<Clearing(l), Copying(l, m, Null)>>
      PROVE  Holds(l) = IF m = l THEN <<>> ELSE Elements(m)
  <2>1. Holds(l) = Coming(Copying(l, m, Null))
    BY <1>2, <1>3
  <2> QED BY <2>1, ListComing
<1>4. ASSUME NEW l \in Lists, NEW s \in Seq(Value), call = <<Clearing(l), Pushing(l, s)>>
      PROVE  Holds(l) = s
  <2>1. Holds(l) = Coming(Pushing(l, s))
    BY <1>2, <1>4
  <2> QED BY <2>1 DEF Coming, Pushing
<1> QED BY <1>1, <1>3, <1>4 DEF ClearHolds

LEMMA HoldingNext ==
  ListInv' => /\ OthersHold' /\ CopyHolds' /\ PushHolds' /\ EraseHolds' /\ ClearHolds'
<1> QED BY OthersHolding, CopyHolding, PushHolding, EraseHolding, ClearHolding, PTL

-----------------------------------------------------------------------------
(* No turn of a loop changes what a list will hold *)

(* An element pushed to the list, and what is still to come. *)
LEMMA Pushed ==
  ASSUME NEW s \in Seq(Field), NEW x \in Field, NEW t, Put(s, Len(s) + 1, x, t),
         NEW r \in Seq(Field)
  PROVE  t \o r = s \o (<<x>> \o r)
<1> DEFINE k == Len(s) + 1
<1>1. t \in Seq(Field) /\ Len(t) = k /\ k - 1 = Len(s)
  BY DEF Put
<1>2. k \in 1..(Len(s) + 1) /\ Put(s, k, x, t)
  OBVIOUS
<1> HIDE DEF k
<1>3. SubSeq(t, 1, k) = SubSeq(s, 1, k - 1) \o <<x>>
  <2>1. /\ t[k] = x /\ Len(t) = Len(s) + 1
        /\ \A p \in 1..(k - 1) : t[p] = s[p]
        /\ \A p \in k..Len(s) : t[p + 1] = s[p]
    BY <1>2 DEF Put
  <2> QED BY <1>1, <1>2, <2>1, PartsInserted
<1>4. SubSeq(t, 1, k) = t /\ SubSeq(s, 1, k - 1) = s
  BY <1>1, SubSeqFull
<1>5. <<x>> \in Seq(Field)
  OBVIOUS
<1>6. (s \o <<x>>) \o r = s \o (<<x>> \o r)
  BY <1>5, ConcatAssociative
<1> QED BY <1>3, <1>4, <1>6

(* A list has its elements before and after a place. *)
LEMMA BeforeAndAfter ==
  ASSUME ListInv, NEW l \in Lists, NEW i \in 1..(size[l] + 1)
  PROVE  SubSeq(Elements(l), 1, i - 1) \o SubSeq(Elements(l), i, size[l]) = Elements(l)
<1> DEFINE c == Elements(l)
<1>1. c \in Seq(Field) /\ Len(c) = size[l] /\ size[l] \in Nat
  BY ElementsAre
<1> HIDE DEF c
<1>2. /\ 1 \in 1..(Len(c) + 1) /\ i \in 1..(Len(c) + 1) /\ i - 1 \in (1 - 1)..Len(c)
      /\ size[l] \in (i - 1)..Len(c) /\ (i - 1) + 1 = i
  BY <1>1
<1>3. SubSeq(c, 1, i - 1) \o SubSeq(c, i, size[l]) = c
  BY <1>1, <1>2, SubSeqFull, ConcatAdjacentSubSeq
<1> QED BY <1>3 DEF c

LEMMA ElementsKept ==
  ASSUME ListInv, UNCHANGED nodes
  PROVE  \A l \in Lists : Elements(l)' = Elements(l)
BY NodesKept DEF Elements, nodes

LEMMA Others ==
  ASSUME ListInv, ListInv', NEW l \in Lists, ~Idle, Loop.list = l,
         Idle' \/ Loop'.list = l, \A m \in Lists \ {l} : Elements(m)' = Elements(m)
  PROVE  \A m \in Lists \ {l} : Holds(m)' = Holds(m)
<1> SUFFICES ASSUME NEW m \in Lists \ {l} PROVE Holds(m)' = Holds(m)
  OBVIOUS
<1>1. Holds(m) = Elements(m)
  BY OthersHolding DEF OthersHold
<1>2. OthersHold'
  BY HoldingNext
<1>3. Idle' \/ Loop'.list # m
  OBVIOUS
<1>4. Holds(m)' = Elements(m)'
  BY <1>2, <1>3 DEF OthersHold
<1> QED BY <1>1, <1>4

LEMMA EraseStepHolds ==
  ASSUME ListInv, ListInv', EraseStep
  PROVE  \A l \in Lists : Holds(l)' = Holds(l)
<1>1. PICK l \in Lists : \E i, j \in 1..(size[l] + 1) : EraseEnds(l, i) \/ EraseTurns(l, i, j)
  BY EraseEffect
<1>2. PICK i \in 1..(size[l] + 1), j \in 1..(size[l] + 1) : EraseEnds(l, i) \/ EraseTurns(l, i, j)
  BY <1>1
<1>3. CASE EraseEnds(l, i)
  <2>1. call = <<Erasing(l, Rings[l][i], Rings[l][i])>> /\ Idle' /\ UNCHANGED nodes
    BY <1>3 DEF EraseEnds, Idle
  <2>2. ~Idle /\ Loop.list = l
    BY <2>1, OneLoop DEF Idle, Loop, Erasing
  <2>3. Holds(l) = SubSeq(Elements(l), 1, i - 1) \o SubSeq(Elements(l), i, size[l])
    BY <2>1, EraseHolding DEF EraseHolds
  <2>4. Holds(l)' = Elements(l)'
    BY <2>1, HoldingNext DEF OthersHold
  <2>5. Holds(l)' = Holds(l)
    BY <2>1, <2>3, <2>4, BeforeAndAfter, ElementsKept
  <2> QED BY <2>1, <2>2, <2>5, Others, ElementsKept
<1>4. CASE EraseTurns(l, i, j)
  <2> DEFINE s == Elements(l)
             t == Elements(l)'
             j2 == j - 1
  <2>1. /\ call = <<Erasing(l, Rings[l][i], Rings[l][j])>>
        /\ i < j /\ i \in 1..size[l] /\ Erases(l, i)
        /\ i \in 1..(size'[l] + 1) /\ j2 \in 1..(size'[l] + 1)
        /\ call' = <<Erasing(l, Rings'[l][i], Rings'[l][j2])>>
    BY <1>4 DEF EraseTurns
  <2>2. ~Idle /\ Loop.list = l /\ Loop'.list = l
    BY <2>1, OneLoop DEF Idle, Loop, Erasing
  <2>3. Taken(s, i, t) /\ \A m \in Lists \ {l} : Elements(m)' = Elements(m)
    BY <2>1, ErasesElement
  <2>4. s \in Seq(Field) /\ Len(s) = size[l] /\ size[l] \in Nat
    BY ElementsAre
  <2>5. Len(t) = size'[l]
    BY TypedPrimed DEF ElementsTyped
  <2>6. Holds(l) = SubSeq(s, 1, i - 1) \o SubSeq(s, j, Len(s))
    BY <2>1, <2>4, EraseHolding DEF EraseHolds
  <2>7. Holds(l)' = SubSeq(t, 1, i - 1) \o SubSeq(t, j2, Len(t))
    <3> HIDE DEF j2, t
    <3>1. EraseHolds'
      BY HoldingNext
    <3>2. Holds(l)' = SubSeq(t, 1, i - 1) \o SubSeq(t, j2, size'[l])
      BY <2>1, <3>1 DEF EraseHolds, t
    <3> QED BY <2>5, <3>2
  <2>8. i \in 1..Len(s) /\ j \in (i + 1)..(Len(s) + 1)
    BY <2>1, <2>4
  <2> HIDE DEF s, t
  <2>9. SubSeq(t, 1, i - 1) = SubSeq(s, 1, i - 1) /\ SubSeq(t, j2, Len(t)) = SubSeq(s, j, Len(s))
    BY <2>3, <2>4, <2>8, TakenParts
  <2>10. Holds(l)' = Holds(l)
    BY <2>6, <2>7, <2>9
  <2> QED BY <2>2, <2>3, <2>10, Others
<1> QED BY <1>2, <1>3, <1>4

LEMMA PushStepHolds ==
  ASSUME ListInv, ListInv', PushStep
  PROVE  \A l \in Lists : Holds(l)' = Holds(l)
<1>1. PICK l \in Lists : PushEnds(l) \/ \E s \in Seq(Value) : \E n : PushTurns(l, s, n)
  BY PushEffect
<1>2. Elements(l) \in Seq(Field) /\ Len(Elements(l)) = size[l] /\ size[l] \in Nat
  BY ElementsAre
<1>3. PushHolds /\ PushHolds' /\ OthersHold'
  BY PushHolding, HoldingNext
<1>4. CASE PushEnds(l)
  <2>1. call = <<Pushing(l, <<>>)>> /\ Idle' /\ UNCHANGED nodes
    BY <1>4 DEF PushEnds, Idle
  <2>2. ~Idle /\ Loop.list = l
    BY <2>1, OneLoop DEF Idle, Loop, Pushing
  <2>3. Holds(l) = Elements(l) \o <<>> /\ Holds(l)' = Elements(l)'
    <3>1. <<>> \in Seq(Value)
      OBVIOUS
    <3> QED BY <1>3, <2>1, <3>1 DEF PushHolds, OthersHold
  <2>4. Holds(l)' = Holds(l)
    BY <1>2, <2>1, <2>3, ConcatEmptySeq, ElementsKept
  <2> QED BY <2>1, <2>2, <2>4, Others, ElementsKept
<1>5. ASSUME NEW s \in Seq(Value), NEW n, PushTurns(l, s, n)
      PROVE  \A m \in Lists : Holds(m)' = Holds(m)
  <2> DEFINE x == Head(s)
             r == Tail(s)
             c == Elements(l)
             d == Elements(l)'
  <2>1. /\ call = <<Pushing(l, s)>> /\ x \in Field /\ r \in Seq(Value) /\ r \in Seq(Field)
        /\ Inserts(l, size[l] + 1, n, x) /\ call' = <<Pushing(l, r)>> /\ s = <<x>> \o r
    BY <1>5, HeadTailProperties DEF PushTurns, Field
  <2> HIDE DEF x, r
  <2>2. ~Idle /\ Loop.list = l /\ Loop'.list = l
    BY <2>1, OneLoop DEF Idle, Loop, Pushing
  <2>3. size[l] + 1 \in 1..(size[l] + 1)
    BY <1>2
  <2>4. Put(c, Len(c) + 1, x, d) /\ \A m \in Lists \ {l} : Elements(m)' = Elements(m)
    BY <1>2, <2>1, <2>3, InsertsElement
  <2>5. Holds(l) = c \o s /\ Holds(l)' = d \o r
    BY <1>3, <2>1 DEF PushHolds
  <2> HIDE DEF c, d
  <2>6. d \o r = c \o (<<x>> \o r)
    <3>1. c \in Seq(Field)
      BY <1>2 DEF c
    <3> QED BY <2>1, <2>4, <3>1, Pushed
  <2>7. Holds(l)' = Holds(l)
    BY <2>1, <2>5, <2>6
  <2> QED BY <2>2, <2>4, <2>7, Others
<1> QED BY <1>1, <1>4, <1>5

(* A copy that takes a turn goes on where it left off. *)
LEMMA CopyGoesOn ==
  ASSUME NEW l \in Lists, NEW m \in Lists, NEW j, NEW n, CopyTurns(l, m, j, n), NEW k, k = j + 1
  PROVE  Loop'.list = l /\ CopiesOn(l, m, k)' /\ k \in 1..(size'[m] + 1)
<1>1. k \in 1..(size'[m] + 1) /\ m # l /\ call' = <<Copying(l, m, Rings'[m][k])>>
  BY DEF CopyTurns
<1>2. Loop' = Copying(l, m, Rings'[m][k])
  BY <1>1, OneLoop DEF Loop
<1>3. Loop'.list = l /\ Loop'.it = Rings'[m][k]
  BY <1>2 DEF Copying
<1>4. CopiesOn(l, m, k)'
  BY <1>1, <1>2, <1>3 DEF CopiesOn
<1> QED BY <1>1, <1>3, <1>4

LEMMA CopyStepHolds ==
  ASSUME ListInv, ListInv', CopyStep
  PROVE  \A l \in Lists : Holds(l)' = Holds(l)
<1>1. PICK l \in Lists, m \in Lists : \E j \in 1..(size[m] + 1) :
        CopyEnds(l, m, j) \/ \E n : CopyTurns(l, m, j, n)
  BY CopyEffect
<1>2. PICK j \in 1..(size[m] + 1) : CopyEnds(l, m, j) \/ \E n : CopyTurns(l, m, j, n)
  BY <1>1
<1>3. CopiesOn(l, m, j)
  BY <1>2 DEF CopyEnds, CopyTurns
<1>4. ~Idle /\ Loop.list = l
  <2>1. call = <<Loop>> /\ Loop = Copying(l, m, Loop.it)
    BY <1>3 DEF CopiesOn
  <2> QED BY <2>1, OneLoop DEF Idle, Copying
<1>5. Holds(l) = Elements(l) \o Rest(m, j)
  BY <1>3, CopyHolding DEF CopyHolds
<1>6. Elements(l) \in Seq(Field) /\ Len(Elements(l)) = size[l] /\ size[l] \in Nat
  BY ElementsAre
<1>7. CASE CopyEnds(l, m, j)
  <2>1. Rest(m, j) = <<>> /\ Idle' /\ UNCHANGED nodes
    BY <1>7, RestIs DEF CopyEnds, Idle
  <2>2. Holds(l)' = Elements(l)'
    BY <2>1, HoldingNext DEF OthersHold
  <2>3. Holds(l)' = Holds(l)
    BY <1>5, <1>6, <2>1, <2>2, ConcatEmptySeq, ElementsKept
  <2> QED BY <1>4, <2>1, <2>3, Others, ElementsKept
<1>8. ASSUME NEW n, CopyTurns(l, m, j, n)
      PROVE  \A o \in Lists : Holds(o)' = Holds(o)
  <2> DEFINE x == value[Rings[m][j]]
             c == Elements(l)
             d == Elements(l)'
             k == j + 1
             r == Rest(m, k)
  <2>1. /\ m # l /\ j <= size[m] /\ x \in Field /\ Inserts(l, size[l] + 1, n, x)
    BY <1>8 DEF CopyTurns, Field
  <2>2. Loop'.list = l /\ CopiesOn(l, m, k)' /\ k \in 1..(size'[m] + 1)
    BY <1>8, CopyGoesOn
  <2>3. size'[m] = size[m]
    BY <2>1 DEF Inserts
  <2> HIDE DEF x, k
  <2>4. size[l] + 1 \in 1..(size[l] + 1)
    BY <1>6
  <2>5. Put(c, Len(c) + 1, x, d) /\ \A o \in Lists \ {l} : Elements(o)' = Elements(o)
    BY <1>6, <2>1, <2>4, InsertsElement
  <2>6. Rest(m, j) = <<x>> \o r /\ r \in Seq(Field)
    <3>1. k \in 1..(size[m] + 1)
      BY <2>2, <2>3
    <3> QED BY <2>1, <3>1, RestIs DEF x, k
  <2>7. Rest(m, k)' = r
    BY <2>1, <2>3, <2>5 DEF Rest
  <2>8. Holds(l)' = d \o r
    <3>1. CopyHolds'
      BY HoldingNext
    <3>2. Holds(l)' = Elements(l)' \o Rest(m, k)'
      BY <2>2, <3>1 DEF CopyHolds
    <3> QED BY <2>7, <3>2
  <2> HIDE DEF c, d, r
  <2>9. d \o r = c \o (<<x>> \o r)
    <3>1. c \in Seq(Field)
      BY <1>6 DEF c
    <3> QED BY <2>1, <2>5, <2>6, <3>1, Pushed
  <2>10. Holds(l)' = Holds(l)
    BY <1>5, <2>6, <2>8, <2>9 DEF c
  <2> QED BY <1>4, <2>2, <2>5, <2>10, Others
<1> QED BY <1>2, <1>7, <1>8

(* What a list will hold when a loop begins and its nodes are as they were. *)
LEMMA BegunCopy ==
  ASSUME ListInv, ListInv', UNCHANGED nodes, NEW l \in Lists, NEW m \in Lists,
         m = l => size[l] = 0, call' = <<Copying(l, m, Null)>>
  PROVE  Loop'.list = l /\ CopiesOn(l, m, 1)' /\ Holds(l)' = Elements(l) \o Elements(m)
<1>1. size' = size /\ Rings' = Rings /\ \A o \in Lists : Elements(o)' = Elements(o)
  BY NodesKept, ElementsKept
<1>2. Loop' = Copying(l, m, Null)
  BY OneLoop DEF Loop
<1>3. Loop'.list = l /\ Loop'.it = Null
  BY <1>2 DEF Copying
<1>4. CopiesOn(l, m, 1)'
  BY <1>1, <1>2, <1>3 DEF CopiesOn
<1>5. CopyHolds'
  BY HoldingNext
<1>6. 1 \in 1..(size[m] + 1)
  BY Ends
<1>7. Holds(l)' = Elements(l)' \o Rest(m, 1)'
  BY <1>1, <1>4, <1>5, <1>6 DEF CopyHolds
<1>8. Rest(m, 1)' = Rest(m, 1) /\ Rest(m, 1) = Elements(m)
  BY <1>1, <1>6, RestIs DEF Rest
<1> QED BY <1>1, <1>3, <1>4, <1>7, <1>8

LEMMA BegunPush ==
  ASSUME ListInv, ListInv', UNCHANGED nodes, NEW l \in Lists, NEW s \in Seq(Value),
         call' = <<Pushing(l, s)>>
  PROVE  Loop'.list = l /\ Holds(l)' = Elements(l) \o s
<1>1. Elements(l)' = Elements(l)
  BY ElementsKept
<1>2. Loop'.list = l
  BY OneLoop DEF Loop, Pushing
<1>3. PushHolds'
  BY HoldingNext
<1>4. Holds(l)' = Elements(l)' \o s
  BY <1>3 DEF PushHolds
<1> QED BY <1>1, <1>2, <1>4

LEMMA BegunErase ==
  ASSUME ListInv, ListInv', UNCHANGED nodes, NEW l \in Lists, NEW i \in 1..(size[l] + 1),
         NEW j \in 1..(size[l] + 1), call' = <<Erasing(l, Rings[l][i], Rings[l][j])>>
  PROVE  /\ Loop'.list = l
         /\ Holds(l)' = SubSeq(Elements(l), 1, i - 1) \o SubSeq(Elements(l), j, size[l])
<1>1. size' = size /\ Rings' = Rings /\ \A o \in Lists : Elements(o)' = Elements(o)
  BY NodesKept, ElementsKept
<1>2. Loop'.list = l
  BY OneLoop DEF Loop, Erasing
<1>3. EraseHolds'
  BY HoldingNext
<1>4. i \in 1..(size'[l] + 1) /\ j \in 1..(size'[l] + 1)
      /\ call' = <<Erasing(l, Rings'[l][i], Rings'[l][j])>>
  BY <1>1
<1>5. Holds(l)' = SubSeq(Elements(l)', 1, i - 1) \o SubSeq(Elements(l)', j, size'[l])
  BY <1>3, <1>4 DEF EraseHolds
<1> QED BY <1>1, <1>2, <1>5

(* While a list is cleared, its nodes go but not what it will hold. *)
LEMMA ClearTurnHolds ==
  ASSUME ListInv, ListInv', NEW l \in Lists, ClearsFor(l), Erases(l, size[l]), call' = call,
         size[l] \in 1..size[l]
  PROVE  Holds(l)' = Holds(l)
<1>1. \A m \in Lists \ {l} : Elements(m)' = Elements(m)
  BY ErasesElement
<1>2. ClearHolds /\ ClearHolds'
  BY ClearHolding, HoldingNext
<1>3. CASE call = <<Clearing(l)>>
  BY <1>2, <1>3 DEF ClearHolds
<1>4. ASSUME NEW m \in Lists, call = <<Clearing(l), Copying(l, m, Null)>>
      PROVE  Holds(l)' = Holds(l)
  <2>1. Holds(l) = IF m = l THEN <<>> ELSE Elements(m)
    BY <1>2, <1>4 DEF ClearHolds
  <2>2. Holds(l)' = IF m = l THEN <<>> ELSE Elements(m)'
    BY <1>2, <1>4 DEF ClearHolds
  <2> QED BY <1>1, <2>1, <2>2
<1>5. ASSUME NEW s \in Seq(Value), call = <<Clearing(l), Pushing(l, s)>>
      PROVE  Holds(l)' = Holds(l)
  <2>1. Holds(l) = s
    BY <1>2, <1>5 DEF ClearHolds
  <2>2. Holds(l)' = s
    BY <1>2, <1>5 DEF ClearHolds
  <2> QED BY <2>1, <2>2
<1> QED BY <1>3, <1>4, <1>5 DEF ClearsFor

LEMMA ClearEndHolds ==
  ASSUME ListInv, ListInv', NEW l \in Lists, ClearsFor(l), size[l] = 0,
         call' = Tail(call), UNCHANGED nodes
  PROVE  (Idle' \/ Loop'.list = l) /\ Holds(l)' = Holds(l)
<1>1. ClearHolds
  BY ClearHolding
<1>2. \A m \in Lists : Elements(m)' = Elements(m) /\ Elements(m) \in Seq(Field)
  BY ElementsKept, ElementsAre
<1>3. Elements(l) = <<>>
  <2>1. Elements(l) \in Seq(Field) /\ Len(Elements(l)) = 0
    BY ElementsAre
  <2> QED BY <2>1
<1>4. CASE call = <<Clearing(l)>>
  <2>1. Idle' /\ Holds(l) = <<>>
    BY <1>1, <1>4, OneLoop DEF Idle, ClearHolds
  <2>2. Holds(l)' = Elements(l)'
    BY <2>1, HoldingNext DEF OthersHold
  <2> QED BY <1>2, <1>3, <2>1, <2>2
<1>5. ASSUME NEW m \in Lists, call = <<Clearing(l), Copying(l, m, Null)>>
      PROVE  Loop'.list = l /\ Holds(l)' = Holds(l)
  <2>1. Holds(l) = IF m = l THEN <<>> ELSE Elements(m)
    BY <1>1, <1>5 DEF ClearHolds
  <2>2. call' = <<Copying(l, m, Null)>>
    BY <1>5, TwoLoops
  <2>3. Loop'.list = l /\ Holds(l)' = Elements(l) \o Elements(m)
    BY <2>2, BegunCopy
  <2>4. <<>> \o Elements(m) = Elements(m)
    BY <1>2, ConcatEmptySeq
  <2> QED BY <1>3, <2>1, <2>3, <2>4
<1>6. ASSUME NEW s \in Seq(Value), call = <<Clearing(l), Pushing(l, s)>>
      PROVE  Loop'.list = l /\ Holds(l)' = Holds(l)
  <2>1. Holds(l) = s
    BY <1>1, <1>6 DEF ClearHolds
  <2>2. call' = <<Pushing(l, s)>>
    BY <1>6, TwoLoops
  <2>3. Loop'.list = l /\ Holds(l)' = Elements(l) \o s
    BY <2>2, BegunPush
  <2>4. <<>> \o s = s
    BY ConcatEmptySeq
  <2> QED BY <1>3, <2>1, <2>3, <2>4
<1> QED BY <1>4, <1>5, <1>6 DEF ClearsFor

LEMMA ClearStepHolds ==
  ASSUME ListInv, ListInv', ClearStep
  PROVE  \A l \in Lists : Holds(l)' = Holds(l)
<1>1. PICK l \in Lists : Loop = Clearing(l) /\ ClearsFor(l)
  BY NowClearing DEF ClearStep
<1>2. ~Idle /\ Loop.list = l
  BY <1>1 DEF Clearing, ClearStep, Running
<1>3. CASE size[l] = 0
  <2>1. call' = Tail(call) /\ UNCHANGED nodes
    BY <1>2, <1>3 DEF ClearStep, Leave
  <2>2. (Idle' \/ Loop'.list = l) /\ Holds(l)' = Holds(l)
    BY <1>1, <1>3, <2>1, ClearEndHolds
  <2> QED BY <1>2, <2>1, <2>2, Others, ElementsKept
<1>4. CASE size[l] # 0
  <2>1. call' = call /\ size[l] \in 1..size[l] /\ Erases(l, size[l])
    BY <1>1, <1>4, ClearTurn
  <2>2. Holds(l)' = Holds(l)
    BY <1>1, <2>1, ClearTurnHolds
  <2>3. \A m \in Lists \ {l} : Elements(m)' = Elements(m)
    BY <2>1, ErasesElement
  <2>4. Loop'.list = l
    BY <1>2, <2>1 DEF Loop
  <2> QED BY <1>2, <2>2, <2>3, <2>4, Others
<1> QED BY <1>3, <1>4

(* A client waits for its call to return. *)
LEMMA OnlyTurns ==
  ASSUME ~Idle, Next
  PROVE  Step
BY DEF Next, Client, Clear, PopBack, PopFront, PushBack, PushFront, Assign, AssignList, EraseRange,
       Erase, Insert, Start, InsertBefore, EraseAt

LEMMA StepHolds ==
  ASSUME ListInv, [Next]_vars, ~Idle
  PROVE  \A l \in Lists : Holds(l)' = Holds(l)
<1>1. ListInv'
  BY ListStep
<1>2. CASE Step
  BY <1>1, <1>2, ClearStepHolds, CopyStepHolds, PushStepHolds, EraseStepHolds DEF Step
<1>3. Next => Step
  BY OnlyTurns
<1>4. CASE UNCHANGED vars
  <2>1. UNCHANGED <<next, value, size, call>>
    BY <1>4 DEF vars, nodes
  <2>2. \A l : Iterators(l)' = Iterators(l)
    BY <2>1 DEF Iterators
  <2>3. \A l, p : Place(l, p)' = Place(l, p)
    BY <2>2 DEF Place, SelectInSeq
  <2>4. \A l, i, j : Values(l, i, j)' = Values(l, i, j)
    BY <2>1, <2>2 DEF Values
  <2>5. \A l, p, q : Between(l, p, q)' = Between(l, p, q) /\ Before(l, p)' = Before(l, p)
    BY <2>3, <2>4 DEF Between, Before
  <2>6. \A l : All(l)' = All(l)
    BY <2>5 DEF All
  <2>7. \A c : Coming(c)' = Coming(c)
    BY <2>5, <2>6 DEF Coming
  <2> QED BY <2>1, <2>5, <2>6, <2>7 DEF Holds, Loop, Idle
<1> QED BY <1>2, <1>3, <1>4

-----------------------------------------------------------------------------
(* What a call does to its list *)

Holding == [l \in Lists |-> Holds(l)]

After(l, s) == Holding' = [Holding EXCEPT ![l] = s]

(* The elements of l with s before the i-th, and without the i-th up to the j-th. *)
Whole(l, i, s) == SubSeq(Elements(l), 1, i - 1) \o s \o SubSeq(Elements(l), i, size[l])

Cut(l, i, j) == SubSeq(Elements(l), 1, i - 1) \o SubSeq(Elements(l), j, size[l])

LEMMA AfterIs ==
  ASSUME ListInv, ListInv', Idle, NEW l \in Lists, Idle' \/ Loop'.list = l,
         \A m \in Lists \ {l} : Elements(m)' = Elements(m), NEW s, Holds(l)' = s
  PROVE  After(l, s)
<1>1. ASSUME NEW m \in Lists \ {l} PROVE Holds(m)' = Holds(m)
  <2>1. Holds(m) = Elements(m)
    BY OthersHolding DEF OthersHold
  <2>2. OthersHold'
    BY HoldingNext
  <2>3. Idle' \/ Loop'.list # m
    OBVIOUS
  <2>4. Holds(m)' = Elements(m)'
    BY <2>2, <2>3 DEF OthersHold
  <2> QED BY <2>1, <2>4
<1>2. Holding' = [m \in Lists |-> Holds(m)']
  BY DEF Holding
<1>3. Holding = [m \in Lists |-> Holds(m)]
  BY DEF Holding
<1> QED BY <1>1, <1>2, <1>3 DEF After

LEMMA PromiseMeans ==
  ASSUME ListInv, Idle, NEW l \in Lists
  PROVE  /\ \A s : After(l, s) => Promise!Assign(l, s)
         /\ \A i, s : After(l, Whole(l, i, s)) => Promise!Insert(l, i, s)
         /\ \A i, j : After(l, Cut(l, i, j)) => Promise!Remove(l, i, j)
<1>1. Holding = [m \in Lists |-> Holds(m)] /\ Holding[l] = Elements(l)
      /\ Len(Holding[l]) = size[l]
  BY OthersHolding, ElementsAre DEF Holding, OthersHold
<1>2. Holding' = [m \in Lists |-> Holds(m)]'
  BY DEF Holding
<1>3. \A s : After(l, s) => Promise!Assign(l, s)
  BY <1>1, <1>2 DEF After, Promise!Assign
<1>4. ASSUME NEW i, NEW s, After(l, Whole(l, i, s)) PROVE Promise!Insert(l, i, s)
  <2>1. Holding' = [Holding EXCEPT ![l] = SubSeq(Holding[l], 1, i - 1) \o s
                                            \o SubSeq(Holding[l], i, Len(Holding[l]))]
    BY <1>1, <1>4 DEF After, Whole
  <2> QED BY <1>1, <1>2, <2>1 DEF Promise!Insert
<1>5. ASSUME NEW i, NEW j, After(l, Cut(l, i, j)) PROVE Promise!Remove(l, i, j)
  <2>1. Holding' = [Holding EXCEPT ![l] = SubSeq(Holding[l], 1, i - 1)
                                            \o SubSeq(Holding[l], j, Len(Holding[l]))]
    BY <1>1, <1>5 DEF After, Cut
  <2> QED BY <1>1, <1>2, <2>1 DEF Promise!Remove
<1> QED BY <1>3, <1>4, <1>5

LEMMA InsertBeforeDoes ==
  ASSUME ListInv, ListInv', NEW l \in Lists, NEW i \in 1..(size[l] + 1), NEW x \in Value,
         InsertBefore(l, Rings[l][i], x)
  PROVE  Promise!Insert(l, i, <<x>>)
<1>1. PICK n \in Free : InsertNode(l, Rings[l][i], x, n)
  BY DEF InsertBefore
<1>2. Inserts(l, i, n, x) /\ x \in Field
  BY <1>1, Inserted DEF Field
<1> DEFINE s == Elements(l)
           t == Elements(l)'
<1>3. Put(s, i, x, t) /\ \A m \in Lists \ {l} : Elements(m)' = Elements(m)
  BY <1>2, InsertsElement
<1>4. s \in Seq(Field) /\ Len(s) = size[l] /\ i \in 1..(Len(s) + 1)
  BY ElementsAre
<1>5. Idle /\ Idle'
  BY DEF InsertBefore, Idle
<1>6. Holds(l)' = t
  BY <1>5, HoldingNext DEF OthersHold
<1>7. t = Whole(l, i, <<x>>)
  <2> HIDE DEF s, t
  <2>1. t = SubSeq(s, 1, i - 1) \o <<x>> \o SubSeq(s, i, Len(s))
    BY <1>2, <1>3, <1>4, PutParts
  <2> QED BY <1>4, <2>1 DEF Whole, s
<1>8. After(l, Whole(l, i, <<x>>))
  BY <1>3, <1>5, <1>6, <1>7, AfterIs
<1> QED BY <1>5, <1>8, PromiseMeans

LEMMA EraseAtDoes ==
  ASSUME ListInv, ListInv', NEW l \in Lists, NEW i \in 1..size[l], EraseAt(l, Rings[l][i])
  PROVE  Promise!Remove(l, i, i + 1)
<1>1. Erases(l, i)
  BY Erased DEF EraseAt
<1> DEFINE s == Elements(l)
           t == Elements(l)'
<1>2. Taken(s, i, t) /\ \A m \in Lists \ {l} : Elements(m)' = Elements(m)
  BY <1>1, ErasesElement
<1>3. s \in Seq(Field) /\ Len(s) = size[l] /\ i \in 1..Len(s)
  BY ElementsAre
<1>4. Idle /\ Idle'
  BY DEF EraseAt, Idle
<1>5. Holds(l)' = t
  BY <1>4, HoldingNext DEF OthersHold
<1>6. t = Cut(l, i, i + 1)
  <2> HIDE DEF s, t
  <2>1. t = SubSeq(s, 1, i - 1) \o SubSeq(s, i + 1, Len(s))
    BY <1>2, <1>3, TakenParts
  <2> QED BY <1>3, <2>1 DEF Cut, s
<1>7. After(l, Cut(l, i, i + 1))
  BY <1>2, <1>4, <1>5, <1>6, AfterIs
<1> QED BY <1>4, <1>7, PromiseMeans

LEMMA SingleDoes ==
  ASSUME ListInv, ListInv', NEW l \in Lists
  PROVE  DoneAtOnce(l)
<1> DEFINE s == Elements(l)
           c == [m \in Lists |-> Holds(m)]
<1>1. ASSUME Idle PROVE c[l] = s /\ Len(c[l]) = size[l]
  BY <1>1, OthersHolding, ElementsAre DEF OthersHold
<1>2. ASSUME PopBack(l) PROVE Promise!PopBack(l)
  <2>1. size[l] > 0 /\ Idle
    BY <1>2 DEF PopBack, EraseAt
  <2>2. Promise!Remove(l, size[l], size[l] + 1)
    BY <1>2, <2>1, Ends, EraseAtDoes DEF PopBack
  <2> QED BY <1>1, <2>1, <2>2 DEF Promise!PopBack
<1>3. ASSUME PopFront(l) PROVE Promise!PopFront(l)
  <2>1. size[l] > 0
    BY <1>3 DEF PopFront, EraseAt
  <2>2. 1 \in 1..size[l] /\ EraseAt(l, Rings[l][1])
    BY <1>3, <2>1, Ends DEF PopFront
  <2>3. Promise!Remove(l, 1, 1 + 1)
    BY <2>2, EraseAtDoes
  <2> QED BY <2>3 DEF Promise!PopFront
<1>4. ASSUME NEW x \in Value, PushBack(l, x) PROVE Promise!PushBack(l, x)
  <2>1. Idle
    BY <1>4 DEF PushBack, InsertBefore
  <2>2. Promise!Insert(l, size[l] + 1, <<x>>)
    BY <1>4, Ends, InsertBeforeDoes DEF PushBack
  <2> QED BY <1>1, <2>1, <2>2 DEF Promise!PushBack
<1>5. ASSUME NEW x \in Value, PushFront(l, x) PROVE Promise!PushFront(l, x)
  <2>1. Promise!Insert(l, 1, <<x>>)
    BY <1>5, Ends, InsertBeforeDoes DEF PushFront
  <2> QED BY <2>1 DEF Promise!PushFront
<1>6. ASSUME NEW i \in Places(l), Erase(l, i) PROVE Promise!Remove(l, i, i + 1)
  <2>1. i \in 1..size[l] /\ EraseAt(l, Rings[l][i])
    BY <1>6, Ends DEF Erase
  <2> QED BY <2>1, EraseAtDoes
<1>7. ASSUME NEW i \in Places(l), NEW x \in Value, Insert(l, i, x)
      PROVE  Promise!Insert(l, i, <<x>>)
  <2>1. i \in 1..(size[l] + 1) /\ InsertBefore(l, Rings[l][i], x)
    BY <1>7, Ends DEF Insert
  <2> QED BY <2>1, InsertBeforeDoes
<1> QED BY <1>2, <1>3, <1>4, <1>5, <1>6, <1>7 DEF DoneAtOnce

LEMMA LoopsDo ==
  ASSUME ListInv, ListInv', NEW l \in Lists
  PROVE  Begun(l)
<1>1. ASSUME Idle, UNCHANGED nodes, NEW s, Holds(l)' = s, Loop'.list = l
      PROVE  After(l, s)
  BY <1>1, AfterIs, ElementsKept
<1>2. ASSUME NEW a, NEW b, Start(<<Clearing(l)>>, a, b) \/ \E f : Start(<<Clearing(l), f>>, a, b)
      PROVE  Idle /\ (UNCHANGED nodes) /\ Loop'.list = l
  BY <1>2, OneLoop, TwoLoops DEF Start, Loop, Clearing
<1>3. ClearHolds'
  BY HoldingNext
<1>5. ASSUME Clear(l) PROVE Promise!Assign(l, <<>>)
  <2>1. Idle /\ (UNCHANGED nodes) /\ Loop'.list = l
    BY <1>2, <1>5 DEF Clear
  <2>2. call' = <<Clearing(l)>>
    BY <1>5 DEF Clear, Start
  <2>3. Holds(l)' = <<>>
    BY <1>3, <2>2 DEF ClearHolds
  <2>4. After(l, <<>>)
    BY <1>1, <2>1, <2>3
  <2> QED BY <2>1, <2>4, PromiseMeans
<1>6. ASSUME NEW r \in Ranges(l), EraseRange(l, r) PROVE Promise!Remove(l, r[1], r[2])
  <2>1. /\ r[1] \in 1..(size[l] + 1) /\ r[2] \in 1..(size[l] + 1)
        /\ call' = <<Erasing(l, Rings[l][r[1]], Rings[l][r[2]])>>
        /\ Idle /\ UNCHANGED nodes
    BY <1>6, RangePlaces, Ends DEF EraseRange, Start
  <2>2. Loop'.list = l /\ Holds(l)' = Cut(l, r[1], r[2])
    BY <2>1, BegunErase DEF Cut
  <2>3. After(l, Cut(l, r[1], r[2]))
    BY <1>1, <2>1, <2>2
  <2> QED BY <2>1, <2>3, PromiseMeans
<1>7. ASSUME NEW s \in Assigned, Assign(l, s) PROVE Promise!Assign(l, s)
  <2>1. Idle /\ (UNCHANGED nodes) /\ Loop'.list = l
    BY <1>2, <1>7 DEF Assign
  <2>2. s \in Seq(Value) /\ call' = <<Clearing(l), Pushing(l, s)>>
    BY <1>7, AssignedAssumption DEF Assign, Start
  <2>3. Holds(l)' = s
    BY <1>3, <2>2 DEF ClearHolds
  <2>4. After(l, s)
    BY <1>1, <2>1, <2>3
  <2> QED BY <2>1, <2>4, PromiseMeans
<1>8. ASSUME NEW m \in Lists, AssignList(l, m)
      PROVE  Promise!Assign(l, IF m = l THEN <<>> ELSE Holds(m))
  <2>1. Idle /\ (UNCHANGED nodes) /\ Loop'.list = l
    BY <1>2, <1>8 DEF AssignList
  <2>2. call' = <<Clearing(l), Copying(l, m, Null)>>
    BY <1>8 DEF AssignList, Start
  <2>3. Holds(l)' = IF m = l THEN <<>> ELSE Elements(m)'
    BY <1>3, <2>2 DEF ClearHolds
  <2>4. Elements(m)' = Elements(m) /\ Elements(m) = Holds(m)
    BY <2>1, ElementsKept, OthersHolding DEF OthersHold
  <2> DEFINE s == IF m = l THEN <<>> ELSE Holds(m)
  <2>5. Holds(l)' = s
    BY <2>3, <2>4
  <2> HIDE DEF s
  <2>6. After(l, s)
    BY <1>1, <2>1, <2>5
  <2>7. Promise!Assign(l, s)
    BY <2>1, <2>6, PromiseMeans
  <2> QED BY <2>7 DEF s
<1> QED BY <1>5, <1>6, <1>7, <1>8 DEF Begun

(* The operations keep what Containers promises, and what a call will have *)
(* done is settled when it begins: no turn of its loops changes it, nor    *)
(* what another list holds.                                                *)
THEOREM ListKeepsPromise == Spec => ListIsSequence
<1>1. ASSUME ListInv, ListInv', [Next]_vars PROVE [KeepsPromise]_vars
  <2>1. ASSUME ~Idle PROVE UNCHANGED [l \in Lists |-> Holds(l)]
    BY <1>1, <2>1, StepHolds
  <2>2. \A l \in Lists : DoneAtOnce(l) /\ Begun(l)
    BY <1>1, SingleDoes, LoopsDo
  <2> QED BY <2>1, <2>2 DEF KeepsPromise
<1> QED BY <1>1, ListInvariant, PTL DEF Spec, ListIsSequence

-----------------------------------------------------------------------------
(* Every turn of a loop leaves less to do *)

CopyWorks == \A l, m \in Lists : \A j \in 1..(size[m] + 1) :
  CopiesOn(l, m, j) => Work = 1 + (size[m] + 1 - j)

PushWorks == \A l \in Lists : \A s \in Seq(Value) :
  call = <<Pushing(l, s)>> => Work = 1 + Len(s)

EraseWorks == \A l \in Lists : \A i, j \in 1..(size[l] + 1) :
  call = <<Erasing(l, Rings[l][i], Rings[l][j])>> => Work = 1 + (j - i)

ClearWorks ==
  /\ \A l \in Lists : call = <<Clearing(l)>> => Work = 1 + size[l]
  /\ \A l, m \in Lists :
       call = <<Clearing(l), Copying(l, m, Null)>>
         => Work = 1 + size[l] + (1 + IF m = l THEN 0 ELSE size[m])
  /\ \A l \in Lists : \A s \in Seq(Value) :
       call = <<Clearing(l), Pushing(l, s)>> => Work = 1 + size[l] + (1 + Len(s))

(* The work of a call of one loop, and of one of two. *)
LEMMA WorkIs ==
  /\ \A c : call = <<c>> => Loop = c /\ Work = 1 + Turns(c) + 0
  /\ \A c, d : call = <<c, d>> => Work = 1 + Turns(c) + (1 + Turns(d))
BY OneLoop, TwoLoops DEF Work, Loop, Idle

LEMMA PushTakes ==
  ASSUME NEW l \in Lists, NEW s
  PROVE  Turns(Pushing(l, s)) = Len(s)
BY DEF Pushing, Turns, Coming

LEMMA ClearTakes ==
  ASSUME NEW l \in Lists
  PROVE  Turns(Clearing(l)) = size[l]
BY DEF Clearing, Turns

LEMMA CopyWorking == ListInv => CopyWorks
<1> SUFFICES ASSUME ListInv, NEW l \in Lists, NEW m \in Lists, NEW j \in 1..(size[m] + 1),
                    CopiesOn(l, m, j)
             PROVE  Work = 1 + (size[m] + 1 - j)
  BY DEF CopyWorks
<1>1. call = <<Loop>> /\ Loop = Copying(l, m, Loop.it)
  BY DEF CopiesOn
<1>2. Loop.loop = "copy"
  BY <1>1 DEF Copying
<1>3. Coming(Loop) = Rest(m, j)
  BY CopyComing
<1>4. Turns(Loop) = Len(Coming(Loop))
  BY <1>2 DEF Turns
<1>5. Work = 1 + Turns(Loop) + 0
  BY <1>1, WorkIs
<1>6. Len(Rest(m, j)) = size[m] + 1 - j /\ size[m] \in Nat
  BY RestIs
<1> QED BY <1>3, <1>4, <1>5, <1>6

LEMMA PushWorking == ListInv => PushWorks
<1> SUFFICES ASSUME NEW l \in Lists, NEW s \in Seq(Value), call = <<Pushing(l, s)>>
             PROVE  Work = 1 + Len(s)
  BY DEF PushWorks
<1>1. Work = 1 + Turns(Pushing(l, s)) + 0
  BY WorkIs
<1>2. Turns(Pushing(l, s)) = Len(s) /\ Len(s) \in Nat
  BY PushTakes
<1> QED BY <1>1, <1>2

LEMMA EraseWorking == ListInv => EraseWorks
<1> SUFFICES ASSUME ListInv, NEW l \in Lists, NEW i \in 1..(size[l] + 1), NEW j \in 1..(size[l] + 1),
                    call = <<Erasing(l, Rings[l][i], Rings[l][j])>>
             PROVE  Work = 1 + (j - i)
  BY DEF EraseWorks
<1> DEFINE c == Erasing(l, Rings[l][i], Rings[l][j])
<1>1. c.loop = "erase" /\ c.list = l /\ c.it = Rings[l][i] /\ c.last = Rings[l][j]
  BY DEF Erasing
<1>2. Work = 1 + Turns(c) + 0
  BY WorkIs
<1> HIDE DEF c
<1>3. Turns(c) = Place(l, Rings[l][j]) - Place(l, Rings[l][i])
  BY <1>1 DEF Turns
<1>4. Turns(c) = j - i
  BY <1>3, PlaceIs
<1> QED BY <1>2, <1>4, Ends

LEMMA ClearWorking == ListInv => ClearWorks
<1> SUFFICES ASSUME ListInv PROVE ClearWorks
  OBVIOUS
<1>1. ASSUME NEW l \in Lists, call = <<Clearing(l)>> PROVE Work = 1 + size[l]
  <2>1. Work = 1 + size[l] + 0 /\ size[l] \in Nat
    BY <1>1, WorkIs, ClearTakes, Ends
  <2> QED BY <2>1
<1>2. ASSUME NEW l \in Lists, NEW m \in Lists, call = <<Clearing(l), Copying(l, m, Null)>>
      PROVE  Work = 1 + size[l] + (1 + IF m = l THEN 0 ELSE size[m])
  <2> DEFINE c == Copying(l, m, Null)
  <2>1. c.loop = "copy"
    BY DEF Copying
  <2>2. Work = 1 + size[l] + (1 + Turns(c))
    BY <1>2, WorkIs, ClearTakes
  <2>3. Coming(c) = IF m = l THEN <<>> ELSE Elements(m)
    BY ListComing
  <2> HIDE DEF c
  <2>4. Turns(c) = Len(Coming(c))
    BY <2>1 DEF Turns
  <2>5. Len(Coming(c)) = IF m = l THEN 0 ELSE size[m]
    BY <2>3, ElementsAre
  <2> QED BY <2>2, <2>4, <2>5
<1>3. ASSUME NEW l \in Lists, NEW s \in Seq(Value), call = <<Clearing(l), Pushing(l, s)>>
      PROVE  Work = 1 + size[l] + (1 + Len(s))
  BY <1>3, WorkIs, ClearTakes, PushTakes
<1> QED BY <1>1, <1>2, <1>3 DEF ClearWorks

LEMMA WorkingNext ==
  ListInv' => /\ CopyWorks' /\ PushWorks' /\ EraseWorks' /\ ClearWorks'
<1> QED BY CopyWorking, PushWorking, EraseWorking, ClearWorking, PTL

LessToDo == Work' \in 0..(Work - 1)

LEMMA DoneIsLess ==
  ASSUME Idle', NEW w \in Nat, Work = 1 + w
  PROVE  LessToDo
BY DEF Work, LessToDo

LEMMA CopyLess ==
  ASSUME ListInv, ListInv', CopyStep
  PROVE  LessToDo
<1>1. PICK l \in Lists, m \in Lists : \E j \in 1..(size[m] + 1) :
        CopyEnds(l, m, j) \/ \E n : CopyTurns(l, m, j, n)
  BY CopyEffect
<1>2. PICK j \in 1..(size[m] + 1) : CopyEnds(l, m, j) \/ \E n : CopyTurns(l, m, j, n)
  BY <1>1
<1>3. CopiesOn(l, m, j)
  BY <1>2 DEF CopyEnds, CopyTurns
<1>4. Work = 1 + (size[m] + 1 - j) /\ size[m] \in Nat
  BY <1>3, CopyWorking, Ends DEF CopyWorks
<1>5. CASE CopyEnds(l, m, j)
  <2>1. Work = 1 + 0 /\ Idle'
    BY <1>4, <1>5 DEF CopyEnds, Idle
  <2> QED BY <2>1, DoneIsLess
<1>6. ASSUME NEW n, CopyTurns(l, m, j, n) PROVE LessToDo
  <2> DEFINE k == j + 1
  <2>1. CopiesOn(l, m, k)' /\ k \in 1..(size'[m] + 1)
    BY <1>6, CopyGoesOn
  <2>2. size'[m] = size[m] /\ j <= size[m]
    BY <1>6 DEF CopyTurns, Inserts
  <2>3. Work' = 1 + (size'[m] + 1 - k)
    <3> HIDE DEF k
    <3>1. CopyWorks'
      BY WorkingNext
    <3> QED BY <2>1, <3>1 DEF CopyWorks
  <2> QED BY <1>4, <2>2, <2>3 DEF LessToDo
<1> QED BY <1>2, <1>5, <1>6

LEMMA PushLess ==
  ASSUME ListInv, ListInv', PushStep
  PROVE  LessToDo
<1>1. PICK l \in Lists : PushEnds(l) \/ \E s \in Seq(Value) : \E n : PushTurns(l, s, n)
  BY PushEffect
<1>2. PushWorks /\ PushWorks'
  BY PushWorking, WorkingNext
<1>3. CASE PushEnds(l)
  <2>1. Work = 1 + 0 /\ Idle'
    <3>1. <<>> \in Seq(Value) /\ Len(<<>>) = 0
      OBVIOUS
    <3> QED BY <1>2, <1>3, <3>1 DEF PushEnds, PushWorks, Idle
  <2> QED BY <2>1, DoneIsLess
<1>4. ASSUME NEW s \in Seq(Value), NEW n, PushTurns(l, s, n) PROVE LessToDo
  <2>1. /\ call = <<Pushing(l, s)>> /\ s # <<>> /\ Tail(s) \in Seq(Value)
        /\ call' = <<Pushing(l, Tail(s))>>
    BY <1>4 DEF PushTurns
  <2>2. Work = 1 + Len(s) /\ Work' = 1 + Len(Tail(s))
    BY <1>2, <2>1 DEF PushWorks
  <2>3. Len(Tail(s)) = Len(s) - 1 /\ Len(s) \in Nat /\ Len(s) > 0
    BY <2>1
  <2> QED BY <2>2, <2>3 DEF LessToDo
<1> QED BY <1>1, <1>3, <1>4

LEMMA EraseLess ==
  ASSUME ListInv, ListInv', EraseStep
  PROVE  LessToDo
<1>1. PICK l \in Lists : \E i, j \in 1..(size[l] + 1) : EraseEnds(l, i) \/ EraseTurns(l, i, j)
  BY EraseEffect
<1>2. PICK i \in 1..(size[l] + 1), j \in 1..(size[l] + 1) : EraseEnds(l, i) \/ EraseTurns(l, i, j)
  BY <1>1
<1>3. EraseWorks /\ EraseWorks' /\ size[l] \in Nat
  BY EraseWorking, WorkingNext, Ends
<1>4. CASE EraseEnds(l, i)
  <2>1. Work = 1 + (i - i) /\ Idle'
    BY <1>3, <1>4 DEF EraseEnds, EraseWorks, Idle
  <2>2. Work = 1 + 0
    BY <1>3, <2>1
  <2> QED BY <2>1, <2>2, DoneIsLess
<1>5. CASE EraseTurns(l, i, j)
  <2> DEFINE j2 == j - 1
  <2>1. /\ call = <<Erasing(l, Rings[l][i], Rings[l][j])>> /\ i < j
        /\ i \in 1..(size'[l] + 1) /\ j2 \in 1..(size'[l] + 1)
        /\ call' = <<Erasing(l, Rings'[l][i], Rings'[l][j2])>>
    BY <1>5 DEF EraseTurns
  <2>2. Work = 1 + (j - i)
    BY <1>3, <2>1 DEF EraseWorks
  <2>3. Work' = 1 + (j2 - i)
    <3> HIDE DEF j2
    <3> QED BY <1>3, <2>1 DEF EraseWorks
  <2> QED BY <1>3, <2>1, <2>2, <2>3 DEF LessToDo
<1> QED BY <1>2, <1>4, <1>5

LEMMA ClearTurnLess ==
  ASSUME ListInv, ListInv', NEW l \in Lists, ClearsFor(l), Erases(l, size[l]), call' = call,
         size[l] \in 1..size[l]
  PROVE  LessToDo
<1>1. /\ size'[l] = size[l] - 1 /\ size[l] \in Nat
      /\ \A m \in Lists \ {l} : size'[m] = size[m]
  BY DEF Erases
<1>2. ClearWorks /\ ClearWorks'
  BY ClearWorking, WorkingNext
<1>3. ASSUME NEW w \in Nat, Work = 1 + size[l] + w, Work' = 1 + size'[l] + w PROVE LessToDo
  BY <1>1, <1>3 DEF LessToDo
<1>4. CASE call = <<Clearing(l)>>
  <2>1. Work = 1 + size[l] /\ Work' = 1 + size'[l]
    BY <1>2, <1>4 DEF ClearWorks
  <2> QED BY <1>1, <2>1 DEF LessToDo
<1>5. ASSUME NEW m \in Lists, call = <<Clearing(l), Copying(l, m, Null)>>
      PROVE  LessToDo
  <2>1. Work = 1 + size[l] + (1 + IF m = l THEN 0 ELSE size[m])
    BY <1>2, <1>5 DEF ClearWorks
  <2>2. Work' = 1 + size'[l] + (1 + IF m = l THEN 0 ELSE size'[m])
    BY <1>2, <1>5 DEF ClearWorks
  <2>3. size[m] \in Nat /\ (m # l => size'[m] = size[m])
    BY <1>1, Ends
  <2> QED BY <1>3, <2>1, <2>2, <2>3
<1>6. ASSUME NEW s \in Seq(Value), call = <<Clearing(l), Pushing(l, s)>>
      PROVE  LessToDo
  <2>1. Work = 1 + size[l] + (1 + Len(s))
    BY <1>2, <1>6 DEF ClearWorks
  <2>2. Work' = 1 + size'[l] + (1 + Len(s))
    BY <1>2, <1>6 DEF ClearWorks
  <2>3. 1 + Len(s) \in Nat
    OBVIOUS
  <2> QED BY <1>3, <2>1, <2>2, <2>3
<1> QED BY <1>4, <1>5, <1>6 DEF ClearsFor

LEMMA ClearEndLess ==
  ASSUME ListInv, ListInv', NEW l \in Lists, ClearsFor(l), size[l] = 0,
         call' = Tail(call), UNCHANGED nodes
  PROVE  LessToDo
<1>1. ClearWorks /\ CopyWorks' /\ PushWorks'
  BY ClearWorking, WorkingNext
<1>2. CASE call = <<Clearing(l)>>
  <2>1. Work = 1 + 0 /\ Idle'
    BY <1>1, <1>2, OneLoop DEF Idle, ClearWorks
  <2> QED BY <2>1, DoneIsLess
<1>3. ASSUME NEW m \in Lists, call = <<Clearing(l), Copying(l, m, Null)>>
      PROVE  LessToDo
  <2>1. Work = 1 + 0 + (1 + IF m = l THEN 0 ELSE size[m])
    BY <1>1, <1>3 DEF ClearWorks
  <2>2. call' = <<Copying(l, m, Null)>>
    BY <1>3, TwoLoops
  <2>3. CopiesOn(l, m, 1)'
    BY <2>2, BegunCopy
  <2>4. 1 \in 1..(size'[m] + 1) /\ size'[m] = size[m] /\ size[m] \in Nat
    BY NodesKept, Ends
  <2>5. Work' = 1 + (size'[m] + 1 - 1)
    BY <1>1, <2>3, <2>4 DEF CopyWorks
  <2> QED BY <2>1, <2>4, <2>5 DEF LessToDo
<1>4. ASSUME NEW s \in Seq(Value), call = <<Clearing(l), Pushing(l, s)>>
      PROVE  LessToDo
  <2>1. Work = 1 + 0 + (1 + Len(s))
    BY <1>1, <1>4 DEF ClearWorks
  <2>2. call' = <<Pushing(l, s)>>
    BY <1>4, TwoLoops
  <2>3. Work' = 1 + Len(s)
    BY <1>1, <2>2 DEF PushWorks
  <2>4. Len(s) \in Nat
    OBVIOUS
  <2> QED BY <2>1, <2>3, <2>4 DEF LessToDo
<1> QED BY <1>2, <1>3, <1>4 DEF ClearsFor

LEMMA ClearLess ==
  ASSUME ListInv, ListInv', ClearStep
  PROVE  LessToDo
<1>1. PICK l \in Lists : Loop = Clearing(l) /\ ClearsFor(l)
  BY NowClearing DEF ClearStep
<1>2. Loop.list = l
  BY <1>1 DEF Clearing
<1>3. CASE size[l] = 0
  <2>1. call' = Tail(call) /\ UNCHANGED nodes
    BY <1>2, <1>3 DEF ClearStep, Leave
  <2> QED BY <1>1, <1>3, <2>1, ClearEndLess
<1>4. CASE size[l] # 0
  <2>1. call' = call /\ size[l] \in 1..size[l] /\ Erases(l, size[l])
    BY <1>1, <1>4, ClearTurn
  <2> QED BY <1>1, <2>1, ClearTurnLess
<1> QED BY <1>3, <1>4

(* Only the turns of its loops happen during a call, and each leaves fewer *)
(* of them: no call of a list runs for ever, not even one that copies a    *)
(* list to itself.                                                         *)
THEOREM CallsEnd == Spec => CallsReturn
<1>1. ASSUME ListInv, ListInv', [Next]_vars PROVE [~Idle => Work' \in 0..(Work - 1)]_vars
  <2>1. ASSUME ~Idle, Next PROVE LessToDo
    BY <1>1, <2>1, OnlyTurns, ClearLess, CopyLess, PushLess, EraseLess DEF Step
  <2> QED BY <1>1, <2>1 DEF LessToDo
<1> QED BY <1>1, ListInvariant, PTL DEF Spec, CallsReturn
=============================================================================
