----------------------------- MODULE VectorProofs -----------------------------
(***************************************************************************)
(* Theorems about Vector, for any vectors, values and bounds: no element   *)
(* in use is a destroyed object, what the program does is never undefined, *)
(* and as long as nothing is a vector is a sequence.                       *)
(***************************************************************************)
EXTENDS Vector, SequenceTheorems, TLAPS

Slot == Value \cup {Destroyed}

(* Every vector is some storage of which the first slots are in use, and   *)
(* these hold values.  Under the calls of this program all slots do, but   *)
(* for a trivial type.                                                     *)
Stored(s, n) == s \in Seq(Slot) /\ n \in 0..Len(s) /\ \A i \in 1..n : s[i] \in Value

Constructed(s) == \A i \in 1..Len(s) : s[i] \in Value

VectorInv ==
  /\ trivial \in BOOLEAN /\ program \in BOOLEAN /\ lawful \in BOOLEAN
  /\ slots = [v \in Vectors |-> slots[v]] /\ size = [v \in Vectors |-> size[v]]
  /\ \A v \in Vectors : Stored(slots[v], size[v])
  /\ program => lawful
  /\ program /\ ~trivial => \A v \in Vectors : Constructed(slots[v])

LEMMA StoredType ==
  ASSUME NEW s, NEW n, Stored(s, n)
  PROVE  /\ Len(s) \in Nat /\ n \in Nat /\ n <= Len(s)
         /\ \A i \in 1..Len(s) : s[i] \in Slot
         /\ \A i \in 1..n : i \in 1..Len(s) /\ s[i] \in Value
<1>1. s \in Seq(Slot) /\ n \in 0..Len(s) /\ \A i \in 1..n : s[i] \in Value
  BY DEF Stored
<1>2. Len(s) \in Nat /\ \A i \in 1..Len(s) : s[i] \in Slot
  BY <1>1, LenProperties
<1> QED BY <1>1, <1>2

(* A sequence given slot by slot. *)
LEMMA StoredFunction ==
  ASSUME NEW m \in Nat, NEW n \in Nat, n <= m, NEW s, DOMAIN s = 1..m, s = [i \in 1..m |-> s[i]],
         \A i \in 1..m : s[i] \in Slot, \A i \in 1..n : s[i] \in Value
  PROVE  Stored(s, n) /\ Len(s) = m
<1>1. s \in [1..m -> Slot]
  OBVIOUS
<1>2. s \in Seq(Slot) /\ Len(s) = m
  BY <1>1
<1>3. n \in 0..Len(s)
  BY <1>2
<1> QED BY <1>2, <1>3 DEF Stored

(* The elements in use are those of the sequence c.                        *)
Gives(s, n, c) ==
  Stored(s, n) /\ c \in Seq(Value) /\ Len(c) = n /\ \A i \in 1..n : s[i] = c[i]

LEMMA GivesSequence ==
  ASSUME NEW s, NEW n, NEW c, Gives(s, n, c)
  PROVE  SubSeq(s, 1, n) = c
<1>1. n \in Nat /\ \A i \in 1..n : s[i] \in Value /\ s[i] = c[i]
  BY StoredType DEF Gives
<1>2. c \in Seq(Value) /\ Len(c) = n
  BY DEF Gives
<1> DEFINE w == SubSeq(s, 1, n)
<1>3. /\ w \in Seq(Value) /\ Len(w) = IF 1 <= n THEN n - 1 + 1 ELSE 0
      /\ \A i \in 1..n - 1 + 1 : w[i] = s[1 + i - 1]
  BY <1>1, SubSeqProperties
<1> HIDE DEF w
<1>4. Len(w) = n /\ \A i \in 1..n : w[i] = s[i]
  BY <1>1, <1>3
<1>5. w = c
  BY <1>1, <1>2, <1>3, <1>4, SeqEqual
<1> QED BY <1>5 DEF w

LEMMA ContentsType ==
  ASSUME VectorInv, NEW v \in Vectors
  PROVE  /\ Gives(slots[v], size[v], Contents(v))
         /\ Contents(v) \in Seq(Value) /\ Len(Contents(v)) = size[v] /\ size[v] \in Nat
         /\ \A i \in 1..size[v] : Contents(v)[i] = slots[v][i]
<1>1. Stored(slots[v], size[v])
  BY DEF VectorInv
<1>2. size[v] \in Nat /\ \A i \in 1..size[v] : slots[v][i] \in Value
  BY <1>1, StoredType
<1> DEFINE w == Contents(v)  n == size[v]  s == slots[v]
<1>3. w = SubSeq(s, 1, n)
  BY DEF Contents
<1> HIDE DEF w, n, s
<1>4. n \in Nat /\ \A i \in 1..n : s[i] \in Value
  BY <1>2 DEF n, s
<1>5. /\ w \in Seq(Value) /\ Len(w) = IF 1 <= n THEN n - 1 + 1 ELSE 0
      /\ \A i \in 1..n - 1 + 1 : w[i] = s[1 + i - 1]
  BY <1>3, <1>4, SubSeqProperties
<1>6. Len(w) = n /\ \A i \in 1..n : w[i] = s[i]
  BY <1>4, <1>5
<1> QED BY <1>1, <1>2, <1>5, <1>6 DEF Gives, w, n, s

(* The contents of v become c, and no other vector's change.               *)
Holding == [v \in Vectors |-> Contents(v)]

After(v, c) == Holding' = [Holding EXCEPT ![v] = c]

LEMMA BecomesSequence ==
  ASSUME VectorInv, NEW v \in Vectors, NEW defined \in BOOLEAN, NEW s, NEW n, NEW c,
         Becomes(v, defined, s, n), lawful', defined => Gives(s, n, c)
  PROVE  After(v, c)
<1>1. defined /\ slots' = [slots EXCEPT ![v] = s] /\ size' = [size EXCEPT ![v] = n]
  BY DEF Becomes
<1>2. slots = [u \in Vectors |-> slots[u]] /\ size = [u \in Vectors |-> size[u]]
  BY DEF VectorInv
<1>3. /\ slots'[v] = s /\ size'[v] = n
      /\ \A u \in Vectors : u # v => slots'[u] = slots[u] /\ size'[u] = size[u]
  BY <1>1, <1>2
<1>4. SubSeq(s, 1, n) = c
  BY <1>1, GivesSequence
<1>5. Contents(v)' = c
  BY <1>3, <1>4 DEF Contents
<1>6. \A u \in Vectors : u # v => Contents(u)' = Contents(u)
  BY <1>3 DEF Contents
<1>7. Holding' = [u \in Vectors |-> Contents(u)']
  BY DEF Holding
<1> QED BY <1>5, <1>6, <1>7 DEF After, Holding

(* Every operation but swap ends in Becomes.  What is left to show of each *)
(* is what it makes of one vector, and for the calls of this program that  *)
(* it is defined.                                                          *)
LEMMA BecomesKeeps ==
  ASSUME VectorInv, NEW v \in Vectors, NEW defined \in BOOLEAN, NEW s, NEW n,
         Becomes(v, defined, s, n),
         defined => Stored(s, n),
         program => defined,
         program /\ ~trivial => Constructed(s)
  PROVE  VectorInv'
<1>1. /\ lawful' = defined /\ UNCHANGED <<trivial, program>>
      /\ defined => slots' = [slots EXCEPT ![v] = s] /\ size' = [size EXCEPT ![v] = n]
      /\ ~defined => UNCHANGED <<slots, size>>
  BY DEF Becomes
<1>2. lawful' \in BOOLEAN /\ trivial' \in BOOLEAN /\ program' \in BOOLEAN /\ (program' => lawful')
  BY <1>1 DEF VectorInv
<1>3. CASE defined
  <2>1. slots = [u \in Vectors |-> slots[u]] /\ size = [u \in Vectors |-> size[u]]
    BY DEF VectorInv
  <2>2. /\ slots' = [slots EXCEPT ![v] = s] /\ size' = [size EXCEPT ![v] = n]
    BY <1>1, <1>3
  <2>3. /\ slots' = [u \in Vectors |-> slots'[u]] /\ size' = [u \in Vectors |-> size'[u]]
        /\ slots'[v] = s /\ size'[v] = n
        /\ \A u \in Vectors \ {v} : slots'[u] = slots[u] /\ size'[u] = size[u]
    BY <2>1, <2>2
  <2>4. \A u \in Vectors : Stored(slots'[u], size'[u])
    BY <1>3, <2>3 DEF VectorInv
  <2>5. program' /\ ~trivial' => \A u \in Vectors : Constructed(slots'[u])
    BY <1>1, <2>3 DEF VectorInv
  <2> QED BY <1>2, <2>3, <2>4, <2>5 DEF VectorInv
<1>4. CASE ~defined
  <2>1. UNCHANGED <<slots, size>>
    BY <1>1, <1>4
  <2> QED BY <1>1, <1>2, <2>1 DEF VectorInv
<1> QED BY <1>3, <1>4

LEMMA CallEffect ==
  ASSUME VectorInv, NEW v \in Vectors, NEW defined \in BOOLEAN, NEW s, NEW n, NEW c,
         Becomes(v, defined, s, n), defined => Gives(s, n, c)
  PROVE  (~program => VectorInv') /\ (lawful' => After(v, c))
<1>1. ~program => VectorInv'
  BY BecomesKeeps DEF Gives
<1>2. lawful' => After(v, c)
  BY BecomesSequence
<1> QED BY <1>1, <1>2

(* The storage after reallocate: the elements, then default ones.          *)
Moved(r, s, m, len) ==
  /\ Stored(r, len) /\ Len(r) = m /\ Constructed(r)
  /\ \A i \in 1..len : r[i] = s[i]
  /\ \A i \in 1..m : i > len => r[i] = Default

LEMMA ReallocatedEffect ==
  ASSUME NEW s, NEW len \in Nat, NEW m \in Nat, len <= m,
         \A i \in 1..len : s[i] \in Value
  PROVE  Moved(Reallocated(s, m, len), s, m, len)
<1> DEFINE r == Reallocated(s, m, len)
<1>1. r = [i \in 1..m |-> IF i <= len THEN s[i] ELSE Default]
  BY DEF Reallocated
<1>2. /\ DOMAIN r = 1..m /\ r = [i \in 1..m |-> r[i]]
      /\ \A i \in 1..m : r[i] = IF i <= len THEN s[i] ELSE Default
  BY <1>1
<1> HIDE DEF r
<1>3. \A i \in 1..len : i \in 1..m
  OBVIOUS
<1>4. \A i \in 1..len : r[i] = s[i]
  BY <1>2, <1>3
<1>5. \A i \in 1..m : i > len => r[i] = Default
  BY <1>2
<1>6. \A i \in 1..m : r[i] \in Value
  <2> SUFFICES ASSUME NEW i \in 1..m PROVE r[i] \in Value
    OBVIOUS
  <2>1. CASE i <= len
    BY <1>2, <2>1
  <2>2. CASE ~(i <= len)
    BY <1>2, <2>2, SlotAssumption
  <2> QED BY <2>1, <2>2
<1>7. Stored(r, len) /\ Len(r) = m
  BY <1>2, <1>3, <1>6, StoredFunction DEF Slot
<1> QED BY <1>4, <1>5, <1>6, <1>7 DEF Moved, Constructed, r

-----------------------------------------------------------------------------
(* What each operation makes of its vector *)

LEMMA VectorType ==
  ASSUME VectorInv, NEW v \in Vectors
  PROVE  /\ slots[v] \in Seq(Slot) /\ Stored(slots[v], size[v])
         /\ Len(slots[v]) \in Nat /\ size[v] \in Nat /\ size[v] <= Len(slots[v])
         /\ \A i \in 1..Len(slots[v]) : slots[v][i] \in Slot
         /\ \A i \in 1..size[v] : i \in 1..Len(slots[v]) /\ slots[v][i] \in Value
<1>1. Stored(slots[v], size[v])
  BY DEF VectorInv
<1> QED BY <1>1, StoredType DEF Stored

LEMMA RoomyEffect ==
  ASSUME VectorInv, NEW v \in Vectors
  PROVE  /\ Stored(Roomy(v), size[v]) /\ size[v] + 1 \in 1..Len(Roomy(v))
         /\ \A i \in 1..size[v] : Roomy(v)[i] = slots[v][i]
         /\ program /\ ~trivial => Constructed(Roomy(v))
<1>1. /\ Len(slots[v]) \in Nat /\ size[v] \in Nat /\ size[v] <= Len(slots[v])
      /\ Stored(slots[v], size[v])
      /\ \A i \in 1..size[v] : slots[v][i] \in Value
  BY VectorType
<1>2. CASE size[v] < Len(slots[v])
  <2>1. Roomy(v) = slots[v]
    BY <1>2 DEF Roomy
  <2>2. size[v] + 1 \in 1..Len(slots[v])
    BY <1>1, <1>2
  <2> QED BY <1>1, <2>1, <2>2 DEF VectorInv
<1>3. CASE ~(size[v] < Len(slots[v]))
  <2> DEFINE m == IF Len(slots[v]) = 0 THEN 1 ELSE 2 * Len(slots[v])
  <2>1. Roomy(v) = Reallocated(slots[v], m, size[v])
    BY <1>3 DEF Roomy
  <2>2. m \in Nat /\ size[v] <= m /\ size[v] + 1 \in 1..m
    BY <1>1, <1>3
  <2> HIDE DEF m
  <2> DEFINE r == Reallocated(slots[v], m, size[v])
  <2>3. Moved(r, slots[v], m, size[v])
    BY <1>1, <2>2, ReallocatedEffect
  <2> HIDE DEF r
  <2>4. Roomy(v) = r
    BY <2>1 DEF r
  <2> QED BY <2>2, <2>3, <2>4 DEF Moved
<1> QED BY <1>2, <1>3

(* A slot is assigned or destroyed. *)
LEMMA ExceptEffect ==
  ASSUME NEW s \in Seq(Slot), NEW i \in 1..Len(s), NEW x \in Slot
  PROVE  LET t == [s EXCEPT ![i] = x] IN
         /\ t \in Seq(Slot) /\ Len(t) = Len(s) /\ t[i] = x
         /\ \A j \in 1..Len(s) : j # i => t[j] = s[j]
         /\ x \in Value /\ Constructed(s) => Constructed(t)
<1> DEFINE t == [s EXCEPT ![i] = x]
<1>1. /\ t \in Seq(Slot) /\ Len(t) = Len(s)
      /\ \A j \in 1..Len(s) : t[j] = IF j = i THEN x ELSE s[j]
  BY ExceptSeq
<1> HIDE DEF t
<1> QED BY <1>1 DEF Constructed, t

Pushed(t, s, n, x) ==
  /\ Stored(t, n + 1) /\ t[n + 1] = x
  /\ \A j \in 1..n : t[j] = s[j]
  /\ Constructed(s) => Constructed(t)

LEMMA PushBackEffect ==
  ASSUME NEW s, NEW n, Stored(s, n), n + 1 \in 1..Len(s), NEW x \in Value
  PROVE  Pushed([s EXCEPT ![n + 1] = x], s, n, x)
<1> DEFINE i == n + 1  t == [s EXCEPT ![i] = x]
<1>1. /\ s \in Seq(Slot) /\ i \in 1..Len(s) /\ n \in Nat /\ Len(s) \in Nat
      /\ \A j \in 1..n : j \in 1..Len(s) /\ s[j] \in Value
  BY StoredType DEF Stored
<1>2. i = n + 1
  OBVIOUS
<1> HIDE DEF i
<1>3. /\ t \in Seq(Slot) /\ Len(t) = Len(s) /\ t[i] = x
      /\ \A j \in 1..Len(s) : j # i => t[j] = s[j]
      /\ Constructed(s) => Constructed(t)
  BY <1>1, ExceptEffect DEF Slot
<1> HIDE DEF t
<1>4. \A j \in 1..n : j # i
  BY <1>1, <1>2
<1>5. \A j \in 1..n : t[j] = s[j] /\ t[j] \in Value
  BY <1>1, <1>3, <1>4
<1>6. \A j \in 1..i : j \in 1..n \/ j = i
  BY <1>1, <1>2
<1>7. \A j \in 1..i : t[j] \in Value
  BY <1>3, <1>5, <1>6
<1>8. i \in 0..Len(t)
  BY <1>1, <1>3
<1>9. Stored(t, i)
  BY <1>3, <1>7, <1>8 DEF Stored
<1> QED BY <1>3, <1>5, <1>9 DEF Pushed, i, t

LEMMA ClearEffect == Stored(<<>>, 0) /\ Constructed(<<>>)
BY DEF Stored, Constructed

-----------------------------------------------------------------------------
(* What the operations are promised to do, in terms of After *)

Spliced(c, i, j, xs) == SubSeq(c, 1, i - 1) \o xs \o SubSeq(c, j, Len(c))

Pieces(w, c, i, j, xs) ==
  /\ w \in Seq(Value) /\ Len(w) = (i - 1) + Len(xs) + (Len(c) + 1 - j)
  /\ \A k \in 1..Len(w) :
       /\ k < i => w[k] = c[k]
       /\ i <= k /\ k < i + Len(xs) => w[k] = xs[k - i + 1]
       /\ i + Len(xs) <= k => w[k] = c[k - i - Len(xs) + j]

LEMMA SpliceEffect ==
  ASSUME NEW c \in Seq(Value), NEW xs \in Seq(Value),
         NEW i \in 1..Len(c) + 1, NEW j \in i..Len(c) + 1
  PROVE  Pieces(Spliced(c, i, j, xs), c, i, j, xs)
<1> DEFINE n == Len(c)  m == Len(xs)
           a == SubSeq(c, 1, i - 1)  b == SubSeq(c, j, n)
           d == a \o xs  w == d \o b
<1>1. n \in Nat /\ m \in Nat /\ \A k \in 1..n : c[k] \in Value
  BY LenProperties
<1>2. Len(c) = n /\ Len(xs) = m
  OBVIOUS
<1> HIDE DEF n, m
<1>3. i \in Int /\ j \in Int /\ 1 <= i /\ i <= j /\ j <= n + 1
  BY <1>1, <1>2
<1>4. a \in Seq(Value) /\ Len(a) = i - 1 /\ \A k \in 1..i - 1 : a[k] = c[k]
  <2>1. \A k \in 1..i - 1 : c[k] \in Value
    BY <1>1, <1>3
  <2>2. i - 1 \in Int
    BY <1>3
  <2>3. /\ a \in Seq(Value) /\ Len(a) = IF 1 <= i - 1 THEN (i - 1) - 1 + 1 ELSE 0
        /\ \A k \in 1..(i - 1) - 1 + 1 : a[k] = c[1 + k - 1]
    BY <2>1, <2>2, SubSeqProperties
  <2> HIDE DEF a
  <2> QED BY <1>3, <2>3
<1>5. b \in Seq(Value) /\ Len(b) = n + 1 - j /\ \A k \in 1..n + 1 - j : b[k] = c[j + k - 1]
  <2>1. \A k \in j..n : c[k] \in Value
    BY <1>1, <1>3
  <2>2. /\ b \in Seq(Value) /\ Len(b) = IF j <= n THEN n - j + 1 ELSE 0
        /\ \A k \in 1..n - j + 1 : b[k] = c[j + k - 1]
    BY <1>1, <1>3, <2>1, SubSeqProperties
  <2> HIDE DEF b
  <2> QED BY <1>1, <1>3, <2>2
<1> HIDE DEF a, b
<1>6. /\ d \in Seq(Value) /\ Len(d) = Len(a) + Len(xs)
      /\ \A k \in 1..Len(a) + Len(xs) : d[k] = IF k <= Len(a) THEN a[k] ELSE xs[k - Len(a)]
  BY <1>4, ConcatProperties
<1> HIDE DEF d
<1>7. d \in Seq(Value) /\ b \in Seq(Value)
  BY <1>5, <1>6
<1>8. /\ w \in Seq(Value) /\ Len(w) = Len(d) + Len(b)
      /\ \A k \in 1..Len(d) + Len(b) : w[k] = IF k <= Len(d) THEN d[k] ELSE b[k - Len(d)]
  BY <1>7, ConcatProperties
<1> HIDE DEF w
<1>9. Len(d) = i - 1 + m /\ Len(w) = (i - 1) + m + (n + 1 - j)
  BY <1>1, <1>2, <1>3, <1>4, <1>5, <1>6, <1>8
<1>10. ASSUME NEW k \in 1..Len(w), k < i PROVE w[k] = c[k]
  <2>1. k \in 1..Len(d) + Len(b) /\ k <= Len(d) /\ k <= Len(a) /\ k \in 1..i - 1
        /\ k \in 1..Len(a) + Len(xs)
    BY <1>1, <1>2, <1>3, <1>4, <1>5, <1>9, <1>10
  <2> QED BY <1>4, <1>6, <1>8, <2>1
<1>11. ASSUME NEW k \in 1..Len(w), i <= k, k < i + m PROVE w[k] = xs[k - i + 1]
  <2>1. k \in 1..Len(d) + Len(b) /\ k <= Len(d) /\ ~(k <= Len(a)) /\ k \in 1..Len(a) + Len(xs)
        /\ k - Len(a) = k - i + 1
    BY <1>1, <1>2, <1>3, <1>4, <1>5, <1>9, <1>11
  <2>2. w[k] = d[k]
    BY <1>8, <2>1
  <2>3. d[k] = xs[k - Len(a)]
    BY <1>6, <2>1
  <2> QED BY <2>1, <2>2, <2>3
<1>12. ASSUME NEW k \in 1..Len(w), i + m <= k PROVE w[k] = c[k - i - m + j]
  <2>1. k \in 1..Len(d) + Len(b) /\ ~(k <= Len(d)) /\ k - Len(d) \in 1..n + 1 - j
        /\ j + (k - Len(d)) - 1 = k - i - m + j
    BY <1>1, <1>3, <1>5, <1>9, <1>12
  <2>2. w[k] = b[k - Len(d)]
    BY <1>8, <2>1
  <2>3. b[k - Len(d)] = c[j + (k - Len(d)) - 1]
    BY <1>5, <2>1
  <2> QED BY <2>1, <2>2, <2>3
<1>13. Spliced(c, i, j, xs) = w
  BY DEF Spliced, a, b, d, w, n
<1> QED BY <1>2, <1>8, <1>9, <1>10, <1>11, <1>12, <1>13 DEF Pieces

Cut(c, i, j) == SubSeq(c, 1, i - 1) \o SubSeq(c, j, Len(c))

LEMMA CutIsSplice ==
  ASSUME NEW c \in Seq(Value), NEW i \in 1..Len(c) + 1, NEW j \in i..Len(c) + 1
  PROVE  Cut(c, i, j) = Spliced(c, i, j, <<>>)
<1>1. \A k \in 1..i - 1 : k \in 1..Len(c)
  BY LenProperties
<1>2. \A k \in 1..i - 1 : c[k] \in Value
  BY <1>1, LenProperties
<1>3. SubSeq(c, 1, i - 1) \in Seq(Value)
  BY <1>2, SubSeqProperties
<1>4. SubSeq(c, 1, i - 1) \o <<>> = SubSeq(c, 1, i - 1)
  BY <1>3, ConcatEmptySeq
<1> QED BY <1>4 DEF Cut, Spliced

LEMMA PromiseMeans ==
  ASSUME VectorInv, NEW v \in Vectors
  PROVE  /\ \A c : After(v, c) => Promise!Assign(v, c)
         /\ \A i, s : After(v, Spliced(Contents(v), i, i, s)) => Promise!Insert(v, i, s)
         /\ \A i, j : After(v, Cut(Contents(v), i, j)) => Promise!Remove(v, i, j)
         /\ \A i, x : After(v, [Contents(v) EXCEPT ![i] = x]) => Promise!Update(v, i, x)
<1>1. Holding = [u \in Vectors |-> Contents(u)] /\ Holding[v] = Contents(v)
  BY DEF Holding
<1>2. Holding' = [u \in Vectors |-> Contents(u)]'
  BY DEF Holding
<1>3. \A c : After(v, c) => Promise!Assign(v, c)
  BY <1>1, <1>2 DEF After, Promise!Assign
<1>4. ASSUME NEW i, NEW s, After(v, Spliced(Contents(v), i, i, s))
      PROVE  Promise!Insert(v, i, s)
  <2>1. Holding' = [Holding EXCEPT ![v] = SubSeq(Holding[v], 1, i - 1) \o s
                                            \o SubSeq(Holding[v], i, Len(Holding[v]))]
    BY <1>1, <1>4 DEF After, Spliced
  <2> QED BY <1>1, <1>2, <2>1 DEF Promise!Insert
<1>5. ASSUME NEW i, NEW j, After(v, Cut(Contents(v), i, j))
      PROVE  Promise!Remove(v, i, j)
  <2>1. Holding' = [Holding EXCEPT ![v] = SubSeq(Holding[v], 1, i - 1)
                                            \o SubSeq(Holding[v], j, Len(Holding[v]))]
    BY <1>1, <1>5 DEF After, Cut
  <2> QED BY <1>1, <1>2, <2>1 DEF Promise!Remove
<1>6. ASSUME NEW i, NEW x, After(v, [Contents(v) EXCEPT ![i] = x])
      PROVE  Promise!Update(v, i, x)
  <2>1. Holding' = [Holding EXCEPT ![v] = [Holding[v] EXCEPT ![i] = x]]
    BY <1>1, <1>6 DEF After
  <2> QED BY <1>1, <1>2, <2>1 DEF Promise!Update
<1> QED BY <1>3, <1>4, <1>5, <1>6

-----------------------------------------------------------------------------
(* The operations one by one: types are kept and, if nothing undefined     *)
(* happens, the contents become what is promised.                          *)

LEMMA ClearStep ==
  ASSUME VectorInv, NEW v \in Vectors, Clear(v)
  PROVE  VectorInv' /\ (lawful' => Promise!Assign(v, <<>>))
<1>1. Becomes(v, TRUE, <<>>, 0)
  BY DEF Clear
<1>2. Gives(<<>>, 0, <<>>)
  BY ClearEffect DEF Gives
<1>3. lawful' => After(v, <<>>)
  BY <1>1, <1>2, CallEffect
<1>4. VectorInv'
  BY <1>1, ClearEffect, BecomesKeeps
<1> QED BY <1>3, <1>4, PromiseMeans

(* An element pushed, to storage that has a slot for it.                   *)
LEMMA PushGives ==
  ASSUME NEW s, NEW n, NEW c, Gives(s, n, c), n + 1 \in 1..Len(s), NEW x \in Value
  PROVE  Gives([s EXCEPT ![n + 1] = x], n + 1, Spliced(c, Len(c) + 1, Len(c) + 1, <<x>>))
<1> DEFINE t == [s EXCEPT ![n + 1] = x]
           w == Spliced(c, Len(c) + 1, Len(c) + 1, <<x>>)
<1>1. c \in Seq(Value) /\ Len(c) = n /\ n \in Nat /\ \A i \in 1..n : s[i] = c[i]
  BY StoredType DEF Gives
<1>2. Pushed(t, s, n, x)
  BY PushBackEffect DEF Gives
<1>3. <<x>> \in Seq(Value) /\ Len(<<x>>) = 1 /\ <<x>>[1] = x
  OBVIOUS
<1>4. Len(c) + 1 \in 1..Len(c) + 1 /\ Len(c) + 1 \in Len(c) + 1..Len(c) + 1
  BY <1>1
<1>5. Pieces(w, c, Len(c) + 1, Len(c) + 1, <<x>>)
  BY <1>1, <1>3, <1>4, SpliceEffect
<1> HIDE DEF t, w
<1>6. /\ w \in Seq(Value) /\ Len(w) = n + 1
      /\ \A k \in 1..Len(w) : k < n + 1 => w[k] = c[k]
      /\ n + 1 \in 1..Len(w) /\ w[n + 1] = x
  <2>1. w \in Seq(Value) /\ Len(w) = ((n + 1) - 1) + 1 + (n + 1 - (n + 1))
    BY <1>1, <1>3, <1>5 DEF Pieces
  <2>2. Len(w) = n + 1 /\ n + 1 \in 1..Len(w)
    BY <1>1, <2>1
  <2>3. \A k \in 1..Len(w) : k < n + 1 => w[k] = c[k]
    BY <1>1, <1>5 DEF Pieces
  <2>4. n + 1 <= n + 1 /\ n + 1 < n + 1 + 1 /\ (n + 1) - (n + 1) + 1 = 1
    BY <1>1
  <2>5. w[n + 1] = <<x>>[(n + 1) - (n + 1) + 1]
    BY <1>1, <1>3, <1>5, <2>2, <2>4 DEF Pieces
  <2> QED BY <1>3, <2>1, <2>2, <2>3, <2>4, <2>5
<1>7. \A k \in 1..n + 1 : t[k] = w[k]
  <2> SUFFICES ASSUME NEW k \in 1..n + 1 PROVE t[k] = w[k]
    OBVIOUS
  <2>1. CASE k \in 1..n
    <3>1. k \in 1..Len(w) /\ k < n + 1
      BY <1>1, <1>6, <2>1
    <3> QED BY <1>1, <1>2, <1>6, <2>1, <3>1 DEF Pushed
  <2>2. CASE k = n + 1
    BY <1>2, <1>6, <2>2 DEF Pushed
  <2> QED BY <1>1, <2>1, <2>2
<1>8. Gives(t, n + 1, w)
  BY <1>2, <1>6, <1>7 DEF Gives, Pushed
<1> QED BY <1>8 DEF t, w

LEMMA PushBackStep ==
  ASSUME VectorInv, NEW v \in Vectors, NEW x \in Value, PushBack(v, x)
  PROVE  VectorInv' /\ (lawful' => Promise!PushBack(v, x))
<1> DEFINE s == Roomy(v)  n == size[v]  c == Contents(v)
           defined == Assignable(s, n + 1)
           t == [s EXCEPT ![n + 1] = x]
           w == Spliced(c, Len(c) + 1, Len(c) + 1, <<x>>)
<1>1. Becomes(v, defined, t, n + 1)
  BY DEF PushBack
<1>2. /\ Stored(s, n) /\ n + 1 \in 1..Len(s) /\ \A i \in 1..n : s[i] = slots[v][i]
      /\ program /\ ~trivial => Constructed(s)
  BY RoomyEffect
<1>3. c \in Seq(Value) /\ Len(c) = n /\ \A i \in 1..n : c[i] = slots[v][i]
  BY ContentsType
<1>4. defined \in BOOLEAN
  BY DEF VectorInv, Assignable
<1> HIDE DEF s, n, c
<1>5. Gives(s, n, c)
  BY <1>2, <1>3 DEF Gives
<1>6. Gives(t, n + 1, w)
  BY <1>2, <1>5, PushGives
<1>7. Pushed(t, s, n, x)
  BY <1>2, PushBackEffect
<1>8. program => defined
  BY <1>2, SlotAssumption DEF Assignable, Constructed
<1> HIDE DEF t, w, defined
<1>9. lawful' => After(v, w)
  BY <1>1, <1>4, <1>6, CallEffect
<1>10. VectorInv'
  <2>1. Stored(t, n + 1) /\ (program /\ ~trivial => Constructed(t))
    BY <1>2, <1>7 DEF Pushed
  <2> QED BY <1>1, <1>4, <1>8, <2>1, BecomesKeeps
<1>11. ASSUME After(v, w) PROVE Promise!PushBack(v, x)
  <2>1. Promise!Insert(v, Len(c) + 1, <<x>>)
    BY <1>11, PromiseMeans DEF w, c
  <2> QED BY <2>1 DEF Promise!PushBack, c
<1> QED BY <1>9, <1>10, <1>11

LEMMA SetElementStep ==
  ASSUME VectorInv, NEW v \in Vectors, NEW i \in 1..size[v], NEW x \in Value,
         SetElement(v, i, x)
  PROVE  VectorInv' /\ (lawful' => Promise!Update(v, i, x))
<1> DEFINE s == slots[v]  n == size[v]  c == Contents(v)
           defined == Assignable(s, i)
           t == [s EXCEPT ![i] = x]
           w == [c EXCEPT ![i] = x]
<1>1. Becomes(v, defined, t, n)
  BY DEF SetElement
<1>2. /\ s \in Seq(Slot) /\ Stored(s, n) /\ Len(s) \in Nat /\ n \in Nat /\ n <= Len(s)
      /\ \A k \in 1..n : k \in 1..Len(s) /\ s[k] \in Value
  BY VectorType
<1>3. c \in Seq(Value) /\ Len(c) = n /\ \A k \in 1..n : c[k] = s[k]
  BY ContentsType
<1>4. defined
  BY <1>2, SlotAssumption DEF Assignable
<1>5. program /\ ~trivial => Constructed(s)
  BY DEF VectorInv
<1> HIDE DEF s, n, c, defined
<1>6. i \in 1..n /\ i \in 1..Len(s) /\ i \in 1..Len(c)
  BY <1>2, <1>3 DEF n
<1>7. /\ t \in Seq(Slot) /\ Len(t) = Len(s) /\ t[i] = x
      /\ \A j \in 1..Len(s) : j # i => t[j] = s[j]
      /\ Constructed(s) => Constructed(t)
  BY <1>2, <1>6, ExceptEffect DEF Slot
<1>8. /\ w \in Seq(Value) /\ Len(w) = n
      /\ \A j \in 1..n : w[j] = IF j = i THEN x ELSE c[j]
  BY <1>3, <1>6, ExceptSeq
<1> HIDE DEF t, w
<1>9. \A j \in 1..n : t[j] = w[j] /\ t[j] \in Value
  BY <1>2, <1>3, <1>7, <1>8
<1>10. Stored(t, n)
  BY <1>2, <1>7, <1>9 DEF Stored
<1>11. Gives(t, n, w)
  BY <1>8, <1>9, <1>10 DEF Gives
<1>12. lawful' => After(v, w)
  BY <1>1, <1>4, <1>11, CallEffect
<1>13. VectorInv'
  BY <1>1, <1>4, <1>5, <1>7, <1>10, BecomesKeeps
<1>14. After(v, w) => Promise!Update(v, i, x)
  BY PromiseMeans DEF w, c
<1> QED BY <1>12, <1>13, <1>14

LEMMA PopBackStep ==
  ASSUME VectorInv, NEW v \in Vectors, PopBack(v)
  PROVE  (trivial \/ ~program => VectorInv') /\ (lawful' => Promise!PopBack(v))
<1> DEFINE s == slots[v]  n == size[v]  c == Contents(v)
           t == [s EXCEPT ![n] = Destroyed]
           w == Cut(c, Len(c), Len(c) + 1)
<1>1. n > 0 /\ Becomes(v, TRUE, t, n - 1)
  BY DEF PopBack
<1>2. /\ s \in Seq(Slot) /\ Len(s) \in Nat /\ n \in Nat /\ n <= Len(s)
      /\ \A i \in 1..n : s[i] \in Value
  BY VectorType
<1>3. c \in Seq(Value) /\ Len(c) = n /\ \A i \in 1..n : c[i] = s[i]
  BY ContentsType
<1> HIDE DEF s, n, c
<1>4. n \in 1..Len(s) /\ n - 1 \in 0..Len(s)
  BY <1>1, <1>2
<1>5. /\ t \in Seq(Slot) /\ Len(t) = Len(s)
      /\ \A j \in 1..Len(s) : j # n => t[j] = s[j]
  BY <1>2, <1>4, ExceptEffect DEF Slot
<1> HIDE DEF t
<1>6. \A j \in 1..n - 1 : j \in 1..n /\ j \in 1..Len(s) /\ j # n
  BY <1>2
<1>7. \A j \in 1..n - 1 : t[j] = s[j] /\ t[j] \in Value
  BY <1>2, <1>5, <1>6
<1>8. Stored(t, n - 1)
  BY <1>4, <1>5, <1>7 DEF Stored
<1>9. w \in Seq(Value) /\ Len(w) = n - 1 /\ \A k \in 1..n - 1 : w[k] = c[k]
  <2>1. n \in 1..Len(c) + 1 /\ n + 1 \in n..Len(c) + 1
    BY <1>1, <1>2, <1>3
  <2>2. w = Spliced(c, n, n + 1, <<>>)
    BY <1>3, <2>1, CutIsSplice
  <2>3. <<>> \in Seq(Value) /\ Len(<<>>) = 0
    OBVIOUS
  <2> HIDE DEF w
  <2>4. Pieces(w, c, n, n + 1, <<>>)
    BY <1>3, <2>1, <2>2, <2>3, SpliceEffect
  <2>5. w \in Seq(Value) /\ Len(w) = (n - 1) + 0 + (n + 1 - (n + 1))
    BY <1>3, <2>3, <2>4 DEF Pieces
  <2>6. Len(w) = n - 1
    BY <1>2, <2>5
  <2>7. \A k \in 1..n - 1 : k \in 1..Len(w) /\ k < n
    BY <1>2, <2>6
  <2> QED BY <2>4, <2>5, <2>6, <2>7 DEF Pieces
<1> HIDE DEF w
<1>10. Gives(t, n - 1, w)
  BY <1>3, <1>6, <1>7, <1>8, <1>9 DEF Gives
<1>11. lawful' => After(v, w)
  BY <1>1, <1>10, CallEffect
<1>12. trivial \/ ~program => VectorInv'
  BY <1>1, <1>8, BecomesKeeps
<1>13. ASSUME After(v, w) PROVE Promise!PopBack(v)
  <2>1. Promise!Remove(v, Len(c), Len(c) + 1)
    BY <1>13, PromiseMeans DEF w, c
  <2> QED BY <2>1 DEF Promise!PopBack, c
<1> QED BY <1>11, <1>12, <1>13

LEMMA PushBackOwnStep ==
  ASSUME VectorInv, NEW v \in Vectors, NEW i \in 1..size[v], PushBackOwn(v, i)
  PROVE  (~program => VectorInv') /\ (lawful' => Promise!PushBack(v, slots[v][i]))
<1> DEFINE s == slots[v]  n == size[v]  c == Contents(v)  x == s[i]
           t == [s EXCEPT ![n + 1] = x]
           w == Spliced(c, Len(c) + 1, Len(c) + 1, <<x>>)
<1>1. Len(s) \in Nat /\ n \in Nat /\ n <= Len(s) /\ x \in Value
  BY VectorType
<1>2. Gives(s, n, c)
  BY ContentsType
<1>3. CASE n = Len(s)
  <2>1. Becomes(v, FALSE, s, n)
    BY <1>3 DEF PushBackOwn
  <2>2. ~lawful' /\ (~program => VectorInv')
    <3>1. ~lawful'
      BY <2>1 DEF Becomes
    <3> QED BY <2>1, <3>1, BecomesKeeps
  <2> QED BY <2>2
<1>4. CASE n # Len(s)
  <2> DEFINE defined == Assignable(s, n + 1)
  <2>1. Becomes(v, defined, t, n + 1)
    BY <1>4 DEF PushBackOwn
  <2>2. defined \in BOOLEAN
    BY DEF VectorInv, Assignable
  <2> HIDE DEF s, n, c, x
  <2>3. n + 1 \in 1..Len(s)
    BY <1>1, <1>4
  <2>4. Gives(t, n + 1, w)
    BY <1>1, <1>2, <2>3, PushGives
  <2> HIDE DEF t, w, defined
  <2>5. (lawful' => After(v, w)) /\ (~program => VectorInv')
    BY <2>1, <2>2, <2>4, CallEffect
  <2>6. ASSUME After(v, w) PROVE Promise!PushBack(v, x)
    <3>1. Promise!Insert(v, Len(c) + 1, <<x>>)
      BY <2>6, PromiseMeans DEF w, c
    <3> QED BY <3>1 DEF Promise!PushBack, c
  <2> QED BY <2>5, <2>6 DEF x, s
<1> QED BY <1>3, <1>4

(* reallocate keeps the contents. *)
LEMMA ReallocateStep ==
  ASSUME VectorInv, NEW v \in Vectors, NEW m \in Nat, size[v] <= m,
         Becomes(v, TRUE, Reallocated(slots[v], m, size[v]), size[v])
  PROVE  VectorInv' /\ (lawful' => UNCHANGED [w \in Vectors |-> Contents(w)])
<1> DEFINE n == size[v]  r == Reallocated(slots[v], m, n)  c == Contents(v)
<1>1. n \in Nat /\ \A i \in 1..n : slots[v][i] \in Value
  BY VectorType
<1>2. Moved(r, slots[v], m, n)
  BY <1>1, ReallocatedEffect
<1>3. Gives(slots[v], n, c)
  BY ContentsType
<1>4. Becomes(v, TRUE, r, n)
  OBVIOUS
<1> HIDE DEF n, r, c
<1>5. Gives(r, n, c)
  BY <1>2, <1>3 DEF Gives, Moved
<1>6. VectorInv' /\ (lawful' => After(v, c))
  <2>1. lawful' => After(v, c)
    BY <1>4, <1>5, CallEffect
  <2>2. VectorInv'
    BY <1>2, <1>4, BecomesKeeps DEF Moved
  <2> QED BY <2>1, <2>2
<1>7. ASSUME After(v, c) PROVE Holding' = Holding
  BY <1>7 DEF After, Holding, c
<1> QED BY <1>6, <1>7 DEF Holding

LEMMA ShrinkToFitStep ==
  ASSUME VectorInv, NEW v \in Vectors, ShrinkToFit(v)
  PROVE  VectorInv' /\ (lawful' => UNCHANGED [w \in Vectors |-> Contents(w)])
<1>1. size[v] \in Nat /\ size[v] <= size[v]
  BY VectorType
<1> QED BY <1>1, ReallocateStep DEF ShrinkToFit

LEMMA ReserveStep ==
  ASSUME VectorInv, NEW v \in Vectors, NEW n \in 0..MaxCapacity[v], Reserve(v, n)
  PROVE  VectorInv' /\ (lawful' => UNCHANGED [w \in Vectors |-> Contents(w)])
<1>1. n \in Nat /\ n > Len(slots[v])
  BY BoundAssumption DEF Reserve
<1>2. size[v] <= n
  <2>1. Len(slots[v]) \in Nat /\ size[v] \in Nat /\ size[v] <= Len(slots[v])
    BY VectorType
  <2> QED BY <1>1, <2>1
<1> QED BY <1>1, <1>2, ReallocateStep DEF Reserve

(* A vector rewritten from its first slot: all n slots are in use.         *)
LEMMA FilledEffect ==
  ASSUME NEW n \in Nat, NEW s, s = [i \in 1..n |-> s[i]], \A i \in 1..n : s[i] \in Value
  PROVE  Gives(s, n, s) /\ Constructed(s)
<1>1. s \in [1..n -> Value]
  OBVIOUS
<1>2. s \in Seq(Value) /\ Len(s) = n
  BY <1>1
<1>3. DOMAIN s = 1..n
  BY <1>1
<1>4. Stored(s, n)
  BY <1>3, StoredFunction DEF Slot
<1> QED BY <1>2, <1>4 DEF Gives, Constructed

LEMMA ResizeStep ==
  ASSUME VectorInv, NEW v \in Vectors, NEW n \in 0..MaxCapacity[v], NEW x \in Value,
         Resize(v, n, x)
  PROVE  /\ VectorInv'
         /\ lawful' => Promise!Assign(v, SubSeq(Contents(v) \o [k \in 1..n |-> x], 1, n))
<1> DEFINE c == Contents(v)  m == size[v]
           t == [i \in 1..n |-> IF i <= m THEN slots[v][i] ELSE x]
           xs == [k \in 1..n |-> x]
           cx == c \o xs  w == SubSeq(cx, 1, n)
<1>1. n \in Nat /\ Becomes(v, TRUE, t, n)
  <2>1. n \in Nat
    BY BoundAssumption
  <2>2. Becomes(v, TRUE, t, n)
    BY DEF Resize
  <2> QED BY <2>1, <2>2
<1>2. /\ m \in Nat /\ \A i \in 1..m : slots[v][i] \in Value
      /\ c \in Seq(Value) /\ Len(c) = m /\ \A i \in 1..m : c[i] = slots[v][i]
  BY VectorType, ContentsType
<1>3. xs \in Seq(Value) /\ Len(xs) = n /\ \A k \in 1..n : xs[k] = x
  BY <1>1
<1> HIDE DEF c, m, xs
<1>4. \A i \in 1..n : t[i] = IF i <= m THEN slots[v][i] ELSE x
  OBVIOUS
<1>5. ASSUME NEW i \in 1..n
      PROVE  /\ i <= m => t[i] = c[i] /\ t[i] \in Value
             /\ ~(i <= m) => t[i] = x
  <2>1. CASE i <= m
    <3>1. i \in 1..m /\ t[i] = slots[v][i]
      BY <1>2, <1>4, <2>1
    <3> QED BY <1>2, <2>1, <3>1
  <2>2. CASE ~(i <= m)
    BY <1>4, <2>2
  <2> QED BY <2>1, <2>2
<1>6. \A i \in 1..n : t[i] \in Value
  BY <1>5
<1>7. Gives(t, n, t) /\ Constructed(t)
  BY <1>1, <1>6, FilledEffect
<1> HIDE DEF t
<1>8. /\ cx \in Seq(Value) /\ Len(cx) = m + n
      /\ \A k \in 1..m + n : cx[k] = IF k <= m THEN c[k] ELSE xs[k - m]
  <2>1. c \in Seq(Value) /\ xs \in Seq(Value)
    BY <1>2, <1>3
  <2>2. /\ cx \in Seq(Value) /\ Len(cx) = Len(c) + Len(xs)
        /\ \A k \in 1..Len(c) + Len(xs) :
             cx[k] = IF k <= Len(c) THEN c[k] ELSE xs[k - Len(c)]
    BY <2>1, ConcatProperties, Zenon
  <2>3. Len(c) = m /\ Len(xs) = n
    BY <1>2, <1>3
  <2> HIDE DEF cx
  <2> QED BY <2>2, <2>3
<1> HIDE DEF cx
<1>9. ASSUME NEW k \in 1..n PROVE cx[k] = t[k]
  <2>1. k \in 1..m + n
    BY <1>1, <1>2
  <2>2. CASE k <= m
    BY <1>5, <1>8, <2>1, <2>2
  <2>3. CASE ~(k <= m)
    <3>1. k - m \in 1..n
      BY <1>1, <1>2, <2>3
    <3>2. cx[k] = xs[k - m]
      BY <1>8, <2>1, <2>3
    <3> QED BY <1>3, <1>5, <2>3, <3>1, <3>2
  <2> QED BY <2>2, <2>3
<1>10. Stored(cx, n)
  <2>1. \A k \in 1..n : cx[k] \in Value
    BY <1>6, <1>9
  <2>2. cx \in Seq(Slot)
    BY <1>8, SeqMonotonic DEF Slot
  <2>3. n \in 0..Len(cx)
    BY <1>1, <1>2, <1>8
  <2> QED BY <2>1, <2>2, <2>3 DEF Stored
<1>11. Gives(cx, n, t)
  BY <1>7, <1>9, <1>10 DEF Gives
<1>12. w = t
  BY <1>11, GivesSequence
<1>13. VectorInv'
  BY <1>1, <1>7, BecomesKeeps DEF Gives
<1>14. lawful' => After(v, t)
  BY <1>1, <1>7, CallEffect
<1>15. After(v, t) => Promise!Assign(v, t)
  BY PromiseMeans
<1> QED BY <1>12, <1>13, <1>14, <1>15 DEF w, cx, c, xs

LEMMA AssignCopiesStep ==
  ASSUME VectorInv, NEW v \in Vectors, NEW n \in 0..MaxCapacity[v], NEW x \in Value,
         AssignCopies(v, n, x)
  PROVE  (~program => VectorInv') /\ (lawful' => Promise!Assign(v, [k \in 1..n |-> x]))
<1> DEFINE t == [k \in 1..n |-> x]
<1>1. n \in Nat /\ Becomes(v, TRUE, t, n)
  <2>1. n \in Nat
    BY BoundAssumption
  <2>2. Becomes(v, TRUE, t, n)
    BY DEF AssignCopies
  <2> QED BY <2>1, <2>2
<1>2. Gives(t, n, t)
  BY <1>1, FilledEffect
<1> HIDE DEF t
<1>3. (~program => VectorInv') /\ (lawful' => After(v, t))
  BY <1>1, <1>2, CallEffect
<1>4. After(v, t) => Promise!Assign(v, t)
  BY PromiseMeans
<1> QED BY <1>3, <1>4 DEF t

LEMMA AssignRangeStep ==
  ASSUME VectorInv, NEW v \in Vectors, NEW s \in Seq(Value), AssignRange(v, s)
  PROVE  VectorInv' /\ (lawful' => Promise!Assign(v, s))
<1>1. Len(s) \in Nat /\ \A i \in 1..Len(s) : s[i] \in Value
  BY LenProperties
<1>2. PICK m \in Doubled(Len(s)) : Becomes(v, TRUE, Reallocated(s, m, Len(s)), Len(s))
  BY DEF AssignRange
<1>3. m \in Nat /\ Len(s) <= m
  BY <1>1 DEF Doubled
<1> DEFINE r == Reallocated(s, m, Len(s))
<1>4. Moved(r, s, m, Len(s))
  BY <1>1, <1>3, ReallocatedEffect
<1>5. Becomes(v, TRUE, r, Len(s))
  BY <1>2
<1> HIDE DEF r
<1>6. Gives(r, Len(s), s)
  BY <1>4 DEF Gives, Moved
<1>7. lawful' => After(v, s)
  BY <1>5, <1>6, CallEffect
<1>8. VectorInv'
  BY <1>4, <1>5, BecomesKeeps DEF Moved
<1> QED BY <1>7, <1>8, PromiseMeans

LEMMA InsertedType == Inserted \subseteq Seq(Value)
BY DEF Inserted

LEMMA ConstructSteps ==
  ASSUME VectorInv, NEW v \in Vectors, NEW w \in Vectors,
         CopyConstruct(v, w) \/ MoveConstruct(v, w)
  PROVE  /\ CopyConstruct(v, w) \/ ~program => VectorInv'
         /\ (lawful' => Promise!Assign(v, Contents(w)))
<1>1. /\ Contents(w) \in Seq(Value) /\ Len(Contents(w)) = size[w] /\ size[w] \in Nat
      /\ \A i \in 1..size[w] : Contents(w)[i] \in Value
  <2>1. Contents(w) \in Seq(Value) /\ Len(Contents(w)) = size[w] /\ size[w] \in Nat
    BY ContentsType
  <2> QED BY <2>1, LenProperties
<1>2. CASE CopyConstruct(v, w)
  BY <1>1, <1>2, AssignRangeStep DEF CopyConstruct
<1>3. CASE MoveConstruct(v, w)
  <2> DEFINE c == Contents(w)  n == size[w]  defined == trivial \/ n = 0
  <2>1. Becomes(v, defined, c, n) /\ defined \in BOOLEAN
    BY <1>3 DEF MoveConstruct, VectorInv
  <2> HIDE DEF c, n, defined
  <2>2. Gives(c, n, c)
    <3>1. c \in Seq(Value) /\ Len(c) = n /\ n \in Nat /\ \A i \in 1..n : c[i] \in Value
      BY <1>1 DEF c, n
    <3>2. c \in Seq(Slot) /\ n \in 0..Len(c)
      BY <3>1, SeqMonotonic DEF Slot
    <3> QED BY <3>1, <3>2 DEF Gives, Stored
  <2>3. (~program => VectorInv') /\ (lawful' => After(v, c))
    BY <2>1, <2>2, CallEffect
  <2>4. After(v, c) => Promise!Assign(v, c)
    BY PromiseMeans
  <2>5. CASE CopyConstruct(v, w)
    BY <1>2, <2>5
  <2> QED BY <2>3, <2>4, <2>5 DEF c
<1> QED BY <1>2, <1>3

LEMMA SwapStep ==
  ASSUME VectorInv, NEW v \in Vectors, NEW w \in Vectors, v # w, Swap(v, w)
  PROVE  (~program => VectorInv') /\ Promise!Swap(v, w)
<1>1. /\ slots' = [slots EXCEPT ![v] = slots[w], ![w] = slots[v]]
      /\ size' = [size EXCEPT ![v] = size[w], ![w] = size[v]]
      /\ UNCHANGED <<trivial, program, lawful>>
  BY DEF Swap
<1>2. slots = [u \in Vectors |-> slots[u]] /\ size = [u \in Vectors |-> size[u]]
  BY DEF VectorInv
<1>3. /\ slots' = [u \in Vectors |-> slots'[u]] /\ size' = [u \in Vectors |-> size'[u]]
      /\ slots'[v] = slots[w] /\ size'[v] = size[w]
      /\ slots'[w] = slots[v] /\ size'[w] = size[v]
      /\ \A u \in Vectors : u # v /\ u # w => slots'[u] = slots[u] /\ size'[u] = size[u]
  BY <1>1, <1>2
<1>4. \A u \in Vectors : Stored(slots'[u], size'[u])
  BY <1>3 DEF VectorInv
<1>5. ~program => VectorInv'
  BY <1>1, <1>3, <1>4 DEF VectorInv
<1>6. /\ Contents(v)' = Contents(w) /\ Contents(w)' = Contents(v)
      /\ \A u \in Vectors : u # v /\ u # w => Contents(u)' = Contents(u)
  BY <1>3 DEF Contents
<1>7. Holding' = [u \in Vectors |-> Contents(u)']
  BY DEF Holding
<1>8. Holding' = [Holding EXCEPT ![v] = Holding[w], ![w] = Holding[v]]
  BY <1>6, <1>7 DEF Holding
<1>9. Promise!Swap(v, w)
  BY <1>8 DEF Holding, Promise!Swap
<1> QED BY <1>5, <1>9

LEMMA EraseStep ==
  ASSUME VectorInv, NEW v \in Vectors, NEW i \in 1..size[v] + 1, NEW j \in i..size[v] + 1,
         Erase(v, i, j)
  PROVE  (~program => VectorInv') /\ (lawful' => Promise!Remove(v, i, j))
<1> DEFINE s == slots[v]  m == size[v]  c == Contents(v)  n == j - i  rest == m - n
           defined == trivial \/ n = 0 \/ rest < i
           t == [k \in 1..Len(s) |->
                   CASE k \in i..rest -> s[k + n]
                     [] k \in (rest + 1)..m -> IF k < j THEN Destroyed ELSE Default
                     [] OTHER -> s[k]]
           w == Cut(c, i, j)
<1>1. Becomes(v, defined, t, rest)
  BY DEF Erase, Follower
<1>2. /\ s \in Seq(Slot) /\ Len(s) \in Nat /\ m \in Nat /\ m <= Len(s)
      /\ \A k \in 1..Len(s) : s[k] \in Slot
      /\ \A k \in 1..m : s[k] \in Value
  BY VectorType
<1>3. c \in Seq(Value) /\ Len(c) = m /\ \A k \in 1..m : c[k] = s[k]
  BY ContentsType
<1>4. i \in 1..m + 1 /\ j \in i..m + 1 /\ n = j - i /\ rest = m - n
  OBVIOUS
<1>5. rest \in Int /\ m \in Int
  BY <1>2
<1>6. defined \in BOOLEAN
  BY DEF VectorInv
<1>7. DOMAIN t = 1..Len(s) /\ t = [k \in 1..Len(s) |-> t[k]]
  OBVIOUS
<1>8. ASSUME NEW k \in 1..Len(s)
      PROVE  /\ k \in i..rest => t[k] = s[k + n]
             /\ k \notin i..rest /\ k \in (rest + 1)..m => t[k] \in {Destroyed, Default}
             /\ k \notin i..rest /\ k \notin (rest + 1)..m => t[k] = s[k]
  <2>1. t[k] = CASE k \in i..rest -> s[k + n]
                 [] k \in (rest + 1)..m -> IF k < j THEN Destroyed ELSE Default
                 [] OTHER -> s[k]
    OBVIOUS
  <2> HIDE DEF t, s, m, n, rest
  <2>2. k \in i..rest => k \notin (rest + 1)..m
    BY <1>5
  <2> QED BY <2>1, <2>2
<1> HIDE DEF s, m, c, n, rest, defined, t
<1>9. i \in Int /\ j \in Int /\ n \in Nat /\ rest \in Nat /\ rest <= m /\ i <= rest + 1
  BY <1>2, <1>4
<1>10. \A k \in 1..rest : k \in 1..Len(s) /\ k \in 1..m /\ k \notin (rest + 1)..m
  BY <1>2, <1>9
<1>20. ASSUME NEW k \in 1..rest, k < i PROVE t[k] = s[k]
  <2>1. k \notin i..rest
    BY <1>9, <1>20
  <2> QED BY <1>8, <1>10, <2>1
<1>21. ASSUME NEW k \in 1..rest, ~(k < i) PROVE t[k] = s[k + n] /\ k + n \in 1..m
  <2>1. k \in i..rest /\ k + n \in 1..m
    BY <1>2, <1>4, <1>9, <1>21
  <2> QED BY <1>8, <1>10, <2>1
<1>11. \A k \in 1..Len(s) : t[k] \in Slot
  <2> SUFFICES ASSUME NEW k \in 1..Len(s) PROVE t[k] \in Slot
    OBVIOUS
  <2>1. CASE k \in i..rest
    <3>1. k + n \in 1..m
      BY <1>2, <1>4, <1>9, <2>1
    <3> QED BY <1>2, <1>8, <2>1, <3>1 DEF Slot
  <2>2. CASE k \notin i..rest /\ k \in (rest + 1)..m
    BY <1>8, <2>2, SlotAssumption DEF Slot
  <2>3. CASE k \notin i..rest /\ k \notin (rest + 1)..m
    BY <1>2, <1>8, <2>3
  <2> QED BY <2>1, <2>2, <2>3
<1>12. \A k \in 1..rest : t[k] \in Value
  <2> SUFFICES ASSUME NEW k \in 1..rest PROVE t[k] \in Value
    OBVIOUS
  <2>1. CASE k < i
    <3>1. t[k] = s[k] /\ k \in 1..m
      BY <1>10, <1>20, <2>1
    <3> QED BY <1>2, <3>1
  <2>2. CASE ~(k < i)
    <3>1. t[k] = s[k + n] /\ k + n \in 1..m
      BY <1>21, <2>2
    <3> QED BY <1>2, <3>1
  <2> QED BY <2>1, <2>2
<1>13. rest <= Len(s)
  BY <1>2, <1>9
<1>14. Stored(t, rest)
  BY <1>2, <1>7, <1>9, <1>11, <1>12, <1>13, StoredFunction
<1>15. /\ w \in Seq(Value) /\ Len(w) = rest
       /\ \A k \in 1..rest : /\ k < i => w[k] = c[k]
                             /\ ~(k < i) => w[k] = c[k + n]
  <2>1. i \in 1..Len(c) + 1 /\ j \in i..Len(c) + 1
    BY <1>3, <1>4
  <2>2. w = Spliced(c, i, j, <<>>)
    BY <1>3, <2>1, CutIsSplice
  <2>3. <<>> \in Seq(Value) /\ Len(<<>>) = 0
    OBVIOUS
  <2> HIDE DEF w
  <2>4. Pieces(w, c, i, j, <<>>)
    BY <1>3, <2>1, <2>2, <2>3, SpliceEffect
  <2>5. w \in Seq(Value) /\ Len(w) = (i - 1) + 0 + (m + 1 - j)
    BY <1>3, <2>3, <2>4 DEF Pieces
  <2>6. Len(w) = rest
    BY <1>2, <1>4, <1>9, <2>5
  <2>7. ASSUME NEW k \in 1..rest, ~(k < i) PROVE w[k] = c[k + n]
    <3>1. i + 0 <= k /\ k - i - 0 + j = k + n
      BY <1>4, <1>9, <2>7
    <3>2. w[k] = c[k - i - 0 + j]
      BY <2>3, <2>4, <2>6, <3>1 DEF Pieces
    <3> QED BY <3>1, <3>2
  <2>8. \A k \in 1..rest : k < i => w[k] = c[k]
    BY <2>4, <2>6 DEF Pieces
  <2> QED BY <2>5, <2>6, <2>7, <2>8
<1> HIDE DEF w
<1>16. \A k \in 1..rest : t[k] = w[k]
  <2> SUFFICES ASSUME NEW k \in 1..rest PROVE t[k] = w[k]
    OBVIOUS
  <2>1. CASE k < i
    <3>1. t[k] = s[k] /\ k \in 1..m
      BY <1>10, <1>20, <2>1
    <3>2. w[k] = c[k]
      BY <1>15, <2>1
    <3> QED BY <1>3, <3>1, <3>2
  <2>2. CASE ~(k < i)
    <3>1. t[k] = s[k + n] /\ k + n \in 1..m
      BY <1>21, <2>2
    <3>2. w[k] = c[k + n]
      BY <1>15, <2>2
    <3> QED BY <1>3, <3>1, <3>2
  <2> QED BY <2>1, <2>2
<1>17. Gives(t, rest, w)
  BY <1>14, <1>15, <1>16 DEF Gives
<1>18. (~program => VectorInv') /\ (lawful' => After(v, w))
  BY <1>1, <1>6, <1>17, CallEffect
<1>19. After(v, w) => Promise!Remove(v, i, j)
  BY PromiseMeans DEF w, c
<1> QED BY <1>18, <1>19

(* An insertion.  The storage is new, so every slot of it holds a value.   *)
LEMMA InsertStep ==
  ASSUME VectorInv, NEW v \in Vectors, NEW i \in 1..size[v] + 1,
         NEW xs \in Seq(Value), InsertRange(v, i, xs)
  PROVE  (~program => VectorInv') /\ (lawful' => InsertSpoilsTheEnd(v, i, xs))
<1> DEFINE m == size[v]  c == Contents(v)  n == Len(xs)
           s == Reallocated(slots[v], m + n, m)
           moved == (i + 1 - n)..(m - n)
           defined == i <= m /\ \A k \in moved : k >= 1
           t == [k \in 1..Len(s) |->
                   CASE k < i -> IF k \in moved /\ ~trivial THEN Default ELSE s[k]
                     [] k \in i..(i + n - 1) -> xs[k - i + 1]
                     [] k \in (i + n)..m -> s[k - n]
                     [] OTHER -> Default]
           w == Spliced(c, i, i, xs)
<1>1. Becomes(v, defined, t, m + n)
  BY DEF InsertRange
<1>2. m \in Nat /\ n \in Nat /\ i \in Int /\ 1 <= i /\ i <= m + 1
      /\ \A k \in 1..m : slots[v][k] \in Value
  BY VectorType
<1>3. c \in Seq(Value) /\ Len(c) = m /\ \A k \in 1..m : c[k] = slots[v][k]
  BY ContentsType
<1>4. n = Len(xs) /\ \A k \in 1..n : xs[k] \in Value
  BY LenProperties
<1>5. defined \in BOOLEAN
  OBVIOUS
<1>6. Moved(s, slots[v], m + n, m)
  <2>1. m + n \in Nat /\ m <= m + n
    BY <1>2
  <2> QED BY <1>2, <2>1, ReallocatedEffect
<1> HIDE DEF s
<1>7. Len(s) = m + n /\ (\A k \in 1..m + n : s[k] \in Value)
      /\ \A k \in 1..m : s[k] = c[k]
  BY <1>3, <1>6 DEF Moved, Constructed
<1>8. DOMAIN t = 1..m + n /\ t = [k \in 1..m + n |-> t[k]]
  BY <1>7
<1>9. ASSUME NEW k \in 1..m + n
      PROVE  /\ k < i => t[k] = IF k \in moved /\ ~trivial THEN Default ELSE s[k]
             /\ i <= k /\ k < i + n => t[k] = xs[k - i + 1]
             /\ i + n <= k /\ k <= m => t[k] = s[k - n]
             /\ i + n <= k /\ ~(k <= m) => t[k] = Default
  <2>1. t[k] = CASE k < i -> IF k \in moved /\ ~trivial THEN Default ELSE s[k]
                 [] k \in i..(i + n - 1) -> xs[k - i + 1]
                 [] k \in (i + n)..m -> s[k - n]
                 [] OTHER -> Default
    BY <1>7
  <2> HIDE DEF t, m, n, moved
  <2>2. k \in Int
    BY <1>2
  <2>3. CASE k < i
    <3>1. k \notin i..(i + n - 1) /\ k \notin (i + n)..m
      BY <1>2, <2>2, <2>3
    <3>2. ~(i <= k) /\ ~(i + n <= k)
      BY <1>2, <2>2, <2>3
    <3> QED BY <2>1, <2>3, <3>1, <3>2
  <2>4. CASE i <= k /\ k < i + n
    <3>1. ~(k < i) /\ k \in i..(i + n - 1) /\ k \notin (i + n)..m /\ ~(i + n <= k)
      BY <1>2, <2>2, <2>4
    <3> QED BY <2>1, <2>4, <3>1
  <2>5. CASE i + n <= k /\ k <= m
    <3>1. ~(k < i) /\ k \notin i..(i + n - 1) /\ k \in (i + n)..m /\ ~(k < i + n)
      BY <1>2, <2>2, <2>5
    <3> QED BY <2>1, <2>5, <3>1
  <2>6. CASE i + n <= k /\ ~(k <= m)
    <3>1. ~(k < i) /\ k \notin i..(i + n - 1) /\ k \notin (i + n)..m /\ ~(k < i + n)
      BY <1>2, <2>2, <2>6
    <3> QED BY <2>1, <2>6, <3>1
  <2>7. k < i \/ (i <= k /\ k < i + n) \/ (i + n <= k /\ k <= m) \/ (i + n <= k /\ ~(k <= m))
    BY <1>2, <2>2
  <2> QED BY <2>3, <2>4, <2>5, <2>6, <2>7
<1> HIDE DEF m, c, n, t, defined
<1>10. ASSUME NEW k \in 1..m + n PROVE t[k] \in Value
  <2>1. CASE k < i
    BY <1>7, <1>9, <2>1, SlotAssumption
  <2>2. CASE i <= k /\ k < i + n
    <3>1. k - i + 1 \in 1..n
      BY <1>2, <2>2
    <3> QED BY <1>4, <1>9, <2>2, <3>1
  <2>3. CASE i + n <= k /\ k <= m
    <3>1. k - n \in 1..m + n
      BY <1>2, <2>3
    <3> QED BY <1>7, <1>9, <2>3, <3>1
  <2>4. CASE i + n <= k /\ ~(k <= m)
    BY <1>9, <2>4, SlotAssumption
  <2> QED BY <1>2, <2>1, <2>2, <2>3, <2>4
<1>11. m + n \in Nat
  BY <1>2
<1>12. Gives(t, m + n, t)
  BY <1>8, <1>10, <1>11, FilledEffect
<1>13. (~program => VectorInv') /\ (lawful' => After(v, t))
  BY <1>1, <1>5, <1>12, CallEffect
<1>14. Pieces(w, c, i, i, xs)
  <2>1. i \in 1..Len(c) + 1 /\ i \in i..Len(c) + 1
    BY <1>2, <1>3
  <2> QED BY <1>3, <2>1, SpliceEffect
<1> HIDE DEF w
<1>15. Len(w) = m + n
  <2>1. Len(w) = (i - 1) + n + (m + 1 - i)
    BY <1>3, <1>4, <1>14 DEF Pieces
  <2> QED BY <1>2, <2>1
<1>16. ASSUME NEW k \in 1..m + n,
              \/ i <= k /\ k < i + n
              \/ k <= m /\ (trivial \/ k >= i \/ k <= i - n)
       PROVE  t[k] = w[k]
  <2>1. CASE k < i
    <3>1. k \in 1..m /\ (trivial \/ k <= i - n)
      BY <1>2, <1>16, <2>1
    <3>2. trivial \/ k \notin moved
      BY <1>2, <3>1
    <3>3. t[k] = s[k]
      BY <1>9, <2>1, <3>2
    <3>4. w[k] = c[k]
      BY <1>14, <1>15, <2>1 DEF Pieces
    <3> QED BY <1>7, <3>1, <3>3, <3>4
  <2>2. CASE i <= k /\ k < i + n
    <3>1. w[k] = xs[k - i + 1]
      BY <1>4, <1>14, <1>15, <2>2 DEF Pieces
    <3> QED BY <1>9, <2>2, <3>1
  <2>3. CASE i + n <= k
    <3>1. k <= m /\ k - n \in 1..m /\ k - i - n + i = k - n
      BY <1>2, <1>16, <2>3
    <3>2. w[k] = c[k - i - n + i]
      BY <1>4, <1>14, <1>15, <2>3 DEF Pieces
    <3>3. t[k] = s[k - n]
      BY <1>9, <2>3, <3>1
    <3> QED BY <1>7, <3>1, <3>2, <3>3
  <2> QED BY <1>2, <2>1, <2>2, <2>3
<1>17. ASSUME lawful' PROVE InsertSpoilsTheEnd(v, i, xs)
  <2>1. slots'[v] = t /\ size'[v] = m + n
    <3>1. slots' = [slots EXCEPT ![v] = t] /\ size' = [size EXCEPT ![v] = m + n]
      BY <1>1, <1>17 DEF Becomes
    <3>2. slots = [u \in Vectors |-> slots[u]] /\ size = [u \in Vectors |-> size[u]]
      BY DEF VectorInv
    <3> QED BY <3>1, <3>2
  <2>2. \A u \in Vectors \ {v} : Contents(u)' = Contents(u)
    <3>1. Holding' = [Holding EXCEPT ![v] = t]
      BY <1>13, <1>17 DEF After
    <3>2. Holding' = [u \in Vectors |-> Contents(u)']
      BY DEF Holding
    <3> QED BY <3>1, <3>2 DEF Holding
  <2>3. w = SubSeq(c, 1, i - 1) \o xs \o SubSeq(c, i, Len(c))
    BY DEF w, Spliced
  <2>4. ASSUME NEW k \in 1..Len(w),
               \/ k \in i..(i + n - 1)
               \/ k <= m /\ (trivial \/ k >= i \/ k <= i - n)
        PROVE  slots'[v][k] = w[k]
    <3>1. k \in 1..m + n
      BY <1>15
    <3>2. k \in i..(i + n - 1) => i <= k /\ k < i + n
      BY <1>2, <3>1
    <3> QED BY <1>16, <2>1, <2>4, <3>1, <3>2
  <2>5. size'[v] = Len(w)
    BY <1>15, <2>1
  <2> HIDE DEF w
  <2> QED BY <2>2, <2>3, <2>4, <2>5 DEF InsertSpoilsTheEnd, c, n, m
<1> QED BY <1>13, <1>17

-----------------------------------------------------------------------------
LEMMA VectorInit == Init => VectorInv
<1> SUFFICES ASSUME Init PROVE VectorInv
  OBVIOUS
<1>1. \A v \in Vectors : slots[v] = <<>> /\ size[v] = 0
  BY DEF Init
<1> QED BY <1>1, ClearEffect DEF Init, VectorInv

LEMMA ProgramStep ==
  ASSUME VectorInv, NEW v \in Vectors, ProgramCall(v)
  PROVE  VectorInv'
<1>1. CASE Clear(v)
  BY <1>1, ClearStep
<1>2. CASE Push(v)
  BY <1>2, PushBackStep DEF Push
<1>3. CASE Write(v)
  BY <1>3, SetElementStep DEF Write
<1>4. CASE IndexCall(v)
  <2>1. CASE \E n \in 0..MaxCapacity[v] : size[v] = 0 /\ Resize(v, n, Default)
    BY <2>1, SlotAssumption, ResizeStep
  <2> QED BY <1>2, <1>3, <1>4, <2>1 DEF IndexCall
<1>5. CASE EdgeKeysCall(v)
  <2>1. CASE \E n \in 0..MaxCapacity[v] : size[v] = 0 /\ Reserve(v, n)
    BY <2>1, ReserveStep
  <2> QED BY <1>2, <1>5, <2>1 DEF EdgeKeysCall
<1>6. CASE QueueCall(v)
  <2>1. CASE \E w \in Vectors \ {v} : size[w] = 0 /\ CopyConstruct(v, w)
    BY <2>1, ConstructSteps
  <2>2. CASE trivial /\ PopBack(v)
    BY <2>2, PopBackStep
  <2> QED BY <1>2, <1>3, <1>6, <2>1, <2>2 DEF QueueCall
<1> QED BY <1>1, <1>4, <1>5, <1>6 DEF ProgramCall

LEMMA AnyStep ==
  ASSUME VectorInv, NEW v \in Vectors, ~program, AnyCall(v)
  PROVE  VectorInv'
<1>1. CASE ShrinkToFit(v) \/ PopBack(v)
  BY <1>1, ShrinkToFitStep, PopBackStep
<1>2. CASE \E x \in Value, n \in 0..MaxCapacity[v] : Resize(v, n, x) \/ AssignCopies(v, n, x)
  BY <1>2, ResizeStep, AssignCopiesStep
<1>3. CASE \E n \in 0..MaxCapacity[v] : Reserve(v, n)
  BY <1>3, ReserveStep
<1>4. CASE \E s \in Inserted : AssignRange(v, s)
  BY <1>4, InsertedType, AssignRangeStep
<1>5. CASE \E i \in 1..size[v] : PushBackOwn(v, i)
  BY <1>5, PushBackOwnStep
<1>6. CASE \E w \in Vectors \ {v} : CopyConstruct(v, w) \/ MoveConstruct(v, w) \/ Swap(v, w)
  BY <1>6, ConstructSteps, SwapStep
<1>7. CASE \E i \in 1..(size[v] + 1) : \E j \in i..(size[v] + 1) : Erase(v, i, j)
  BY <1>7, EraseStep
<1>8. CASE \E i \in 1..(size[v] + 1) : \E s \in Inserted : s # <<>> /\ InsertRange(v, i, s)
  BY <1>8, InsertedType, InsertStep
<1> QED BY <1>1, <1>2, <1>3, <1>4, <1>5, <1>6, <1>7, <1>8 DEF AnyCall

LEMMA VectorStep == VectorInv /\ [Next]_vars => VectorInv'
<1>1. ASSUME VectorInv, Next PROVE VectorInv'
  <2>1. PICK v \in Vectors : ProgramCall(v) \/ (~program /\ AnyCall(v))
    BY <1>1 DEF Next
  <2> QED BY <1>1, <2>1, ProgramStep, AnyStep
<1>2. ASSUME VectorInv, UNCHANGED vars PROVE VectorInv'
  BY <1>2 DEF VectorInv, vars, Stored, Constructed
<1> QED BY <1>1, <1>2

LEMMA VectorInvariant == Spec => []VectorInv
BY VectorInit, VectorStep, PTL DEF Spec

(* In every vector that this program can make, and in every one of any     *)
(* client that has done nothing undefined or was stopped at it, the        *)
(* elements in use have storage and are live objects; and the calls this   *)
(* program makes (the indices' buckets, the edge keys and children that    *)
(* are pushed into reserved storage, the heap of PFS, records and paths)   *)
(* are never undefined, for trivial and other element types alike.         *)
THEOREM NothingUndefined == Spec => []LifetimesRespected
<1>1. ASSUME VectorInv PROVE LifetimesRespected
  <2>1. ASSUME NEW v \in Vectors, NEW i \in 1..size[v]
        PROVE  i <= Len(slots[v]) /\ slots[v][i] # Destroyed
    <3>1. i \in 1..Len(slots[v]) /\ slots[v][i] \in Value
      BY <1>1, VectorType
    <3> QED BY <3>1, SlotAssumption
  <2> QED BY <1>1, <2>1 DEF LifetimesRespected, VectorInv
<1> QED BY <1>1, VectorInvariant, PTL

(* The operations keep what they promise: a call that does nothing         *)
(* undefined makes of the vector's contents what Containers says, leaves   *)
(* all other vectors alone, and an insertion keeps what it is said to.     *)
THEOREM OperationsAsNamed == Spec => VectorIsSequence
<1>1. ASSUME VectorInv PROVE KeepsPromise
  <2> SUFFICES ASSUME lawful', NEW v \in Vectors
               PROVE  /\ Emptying(v) /\ Appending(v) /\ Filling(v)
                      /\ Splicing(v) /\ Exchanging(v)
    BY DEF KeepsPromise
  <2>1. Emptying(v)
    BY <1>1, ClearStep, PopBackStep, ShrinkToFitStep DEF Emptying
  <2>2. Appending(v)
    BY <1>1, PushBackStep, PushBackOwnStep, SetElementStep DEF Appending
  <2>3. Filling(v)
    <3>1. ASSUME NEW n \in 0..MaxCapacity[v], Reserve(v, n)
          PROVE  UNCHANGED [w \in Vectors |-> Contents(w)]
      BY <1>1, <3>1, ReserveStep
    <3>2. ASSUME NEW n \in 0..MaxCapacity[v], NEW x \in Value, AssignCopies(v, n, x)
          PROVE  Promise!Assign(v, [k \in 1..n |-> x])
      BY <1>1, <3>2, AssignCopiesStep
    <3>3. ASSUME NEW n \in 0..MaxCapacity[v], NEW x \in Value, Resize(v, n, x)
          PROVE  Promise!Assign(v, SubSeq(Contents(v) \o [k \in 1..n |-> x], 1, n))
      BY <1>1, <3>3, ResizeStep
    <3>4. ASSUME NEW s \in Inserted, AssignRange(v, s) PROVE Promise!Assign(v, s)
      BY <1>1, <3>4, InsertedType, AssignRangeStep
    <3> QED BY <3>1, <3>2, <3>3, <3>4 DEF Filling
  <2>4. Splicing(v)
    BY <1>1, InsertedType, EraseStep, InsertStep DEF Splicing
  <2>5. Exchanging(v)
    BY <1>1, ConstructSteps, SwapStep DEF Exchanging
  <2> QED BY <2>1, <2>2, <2>3, <2>4, <2>5
<1> QED BY <1>1, VectorInvariant, PTL DEF VectorIsSequence
=============================================================================
