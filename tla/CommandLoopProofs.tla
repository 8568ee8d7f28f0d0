-------------------------- MODULE CommandLoopProofs --------------------------
(***************************************************************************)
(* What main calls is what was typed: for every set of numbers, every      *)
(* request and every input of any length.                                  *)
(***************************************************************************)
EXTENDS CommandLoop, SequenceTheorems, FiniteSetTheorems, WellFoundedInduction, TLAPS

-----------------------------------------------------------------------------
(* Strings *)

Lexemes(s) == {s[i] : i \in 1..Len(s)}

LEMMA SubSeqFacts ==
  ASSUME NEW s \in Seq(Lexeme), NEW a \in Nat \ {0}, NEW b \in Int, b <= Len(s), a <= b + 1
  PROVE  /\ SubSeq(s, a, b) \in Seq(Lexeme)
         /\ Len(SubSeq(s, a, b)) = b - a + 1
         /\ \A i \in 1..(b - a + 1) : SubSeq(s, a, b)[i] = s[a + i - 1]
OBVIOUS

LEMMA SameElements ==
  ASSUME NEW s \in Seq(Lexeme), NEW t \in Seq(Lexeme), Len(s) = Len(t),
         \A i \in 1..Len(s) : s[i] = t[i]
  PROVE  s = t
OBVIOUS

LEMMA FirstFacts ==
  ASSUME NEW places, places \subseteq Nat, NEW p \in places, \A j \in places : p <= j
  PROVE  First(places) = p
<1>1. \A i \in places : (\A j \in places : i <= j) => i = p
  OBVIOUS
<1> QED BY <1>1 DEF First

(* The order of the natural numbers as a relation, as the library has it. *)
Less == OpToRel(<, Nat)

(* A set of natural numbers has a least element. *)
LEMMA Least ==
  ASSUME NEW S, S \subseteq Nat, S # {}
  PROVE  \E n \in S : \A m \in S : n <= m
<1>1. IsWellFoundedOn(Less, Nat)
  BY NatLessThanWellFounded DEF Less
<1>2. PICK n \in S : \A m \in S : ~(<<m, n>> \in Less)
  BY <1>1, WFMin
<1>3. ASSUME NEW m \in S PROVE n <= m
  <2>1. m \in Nat /\ n \in Nat /\ (m < n => <<m, n>> \in Less)
    BY DEF Less, OpToRel
  <2> QED BY <2>1, <1>2
<1> QED BY <1>3

Lacks(s, x) == \A i \in 1..Len(s) : s[i] # x

(* x stands at p and nowhere before. *)
FirstAt(s, x, p) == p \in 1..Len(s) /\ s[p] = x /\ \A i \in 1..(p - 1) : s[i] # x

LEMMA FindAt ==
  ASSUME NEW s \in Seq(Lexeme), NEW sep \in Separator, NEW p, FirstAt(s, sep, p)
  PROVE  /\ Find[sep][s] = p
         /\ Upto(s, sep) = SubSeq(s, 1, p - 1)
         /\ After(s, sep) = SubSeq(s, p + 1, Len(s))
<1> DEFINE places == {i \in 1..Len(s) : s[i] = sep}
<1>1. p \in places /\ places \subseteq Nat /\ \A j \in places : p <= j
  BY DEF FirstAt
<1>2. First(places) = p
  <2> HIDE DEF places
  <2> QED BY <1>1, FirstFacts
<1>3. Find[sep][s] = p
  BY <1>1, <1>2 DEF Find
<1> QED BY <1>1, <1>3 DEF Upto, After, FirstAt

LEMMA FindNone ==
  ASSUME NEW s \in Seq(Lexeme), NEW sep \in Separator, Lacks(s, sep)
  PROVE  Find[sep][s] = 0 /\ Upto(s, sep) = s /\ After(s, sep) = s
<1>1. Find[sep][s] = 0
  BY DEF Find, Lacks
<1>2. SubSeq(s, 1, Len(s)) = s
  OBVIOUS
<1> QED BY <1>1, <1>2 DEF Upto, After

(* There is no third case. *)
LEMMA FindCases ==
  ASSUME NEW s \in Seq(Lexeme), NEW sep \in Separator
  PROVE  Lacks(s, sep) \/ \E p \in 1..Len(s) : FirstAt(s, sep, p)
<1> DEFINE places == {i \in 1..Len(s) : s[i] = sep}
<1>1. CASE places = {}
  BY <1>1 DEF Lacks
<1>2. CASE places # {}
  <2>1. PICK p \in places : \A j \in places : p <= j
    <3>1. places \subseteq Nat
      OBVIOUS
    <3> HIDE DEF places
    <3> QED BY <1>2, <3>1, Least
  <2> QED BY <2>1 DEF FirstAt
<1> QED BY <1>1, <1>2

LEMMA PiecesType ==
  ASSUME NEW s \in Seq(Lexeme), NEW sep \in Separator
  PROVE  /\ Upto(s, sep) \in Seq(Lexeme) /\ After(s, sep) \in Seq(Lexeme)
         /\ Lexemes(Upto(s, sep)) \subseteq Lexemes(s)
         /\ Lexemes(After(s, sep)) \subseteq Lexemes(s)
         /\ Lacks(Upto(s, sep), sep)
<1>1. CASE Lacks(s, sep)
  BY <1>1, FindNone
<1>2. ASSUME NEW p \in 1..Len(s), FirstAt(s, sep, p)
      PROVE  /\ Upto(s, sep) \in Seq(Lexeme) /\ After(s, sep) \in Seq(Lexeme)
             /\ Lexemes(Upto(s, sep)) \subseteq Lexemes(s)
             /\ Lexemes(After(s, sep)) \subseteq Lexemes(s)
             /\ Lacks(Upto(s, sep), sep)
  <2>1. Upto(s, sep) = SubSeq(s, 1, p - 1) /\ After(s, sep) = SubSeq(s, p + 1, Len(s))
    BY <1>2, FindAt
  <2>2. /\ SubSeq(s, 1, p - 1) \in Seq(Lexeme) /\ Len(SubSeq(s, 1, p - 1)) = p - 1
        /\ \A i \in 1..(p - 1) : SubSeq(s, 1, p - 1)[i] = s[i]
    OBVIOUS
  <2>3. /\ SubSeq(s, p + 1, Len(s)) \in Seq(Lexeme) /\ Len(SubSeq(s, p + 1, Len(s))) = Len(s) - p
        /\ \A i \in 1..(Len(s) - p) : SubSeq(s, p + 1, Len(s))[i] = s[p + i]
    OBVIOUS
  <2>4. Lexemes(SubSeq(s, 1, p - 1)) \subseteq Lexemes(s)
    BY <2>2 DEF Lexemes
  <2>5. Lexemes(SubSeq(s, p + 1, Len(s))) \subseteq Lexemes(s)
    <3>1. \A i \in 1..(Len(s) - p) : p + i \in 1..Len(s)
      OBVIOUS
    <3> QED BY <2>3, <3>1 DEF Lexemes
  <2>6. Lacks(SubSeq(s, 1, p - 1), sep)
    BY <1>2, <2>2 DEF Lacks, FirstAt
  <2> QED BY <2>1, <2>2, <2>3, <2>4, <2>5, <2>6
<1> QED BY <1>1, <1>2, FindCases

(* What stoi returns, it found in the string; without spaces, it is what   *)
(* the string begins with.                                                 *)
LEMMA StoiFacts ==
  ASSUME NEW s \in Seq(Lexeme), Stoi[s] # Throws
  PROVE  /\ Stoi[s] \in Number \cap Lexemes(s)
         /\ Lacks(s, Space) => Len(s) > 0 /\ Stoi[s] = s[1]
<1> DEFINE text == {i \in 1..Len(s) : s[i] # Space}
<1>1. text # {} /\ s[First(text)] \in Number /\ Stoi[s] = s[First(text)]
  BY DEF Stoi
<1>2. text \subseteq Nat
  OBVIOUS
<1>3. PICK p \in text : \A j \in text : p <= j
  <2> HIDE DEF text
  <2> QED BY <1>1, <1>2, Least
<1>4. First(text) = p
  <2> HIDE DEF text
  <2> QED BY <1>2, <1>3, FirstFacts
<1>5. Stoi[s] \in Number \cap Lexemes(s)
  BY <1>1, <1>3, <1>4 DEF Lexemes
<1>6. ASSUME Lacks(s, Space) PROVE Len(s) > 0 /\ Stoi[s] = s[1]
  <2>1. 1 \in text /\ p = 1
    BY <1>3, <1>6 DEF Lacks
  <2> QED BY <2>1, <1>1, <1>4
<1> QED BY <1>5, <1>6

LEMMA StoiOfNumber ==
  ASSUME NEW n \in Number PROVE Stoi[<<n>>] = n /\ n # Throws
<1> DEFINE s == <<n>>
           text == {i \in 1..Len(s) : s[i] # Space}
<1>1. n \in Lexeme /\ n # Space /\ n # Throws
  <2>1. n \in Lexeme
    BY DEF Lexeme
  <2>2. Space \in Separator
    BY DEF Separator
  <2> QED BY <2>1, <2>2, NumberAssumption
<1>2. s \in Seq(Lexeme) /\ Len(s) = 1 /\ s[1] = n
  BY <1>1
<1>3. text = {1}
  <2> HIDE DEF s
  <2> QED BY <1>1, <1>2
<1>4. First(text) = 1
  <2>1. text \subseteq Nat /\ 1 \in text /\ \A j \in text : 1 <= j
    BY <1>3
  <2> HIDE DEF text
  <2> QED BY <2>1, FirstFacts
<1>5. Stoi[s] = n
  BY <1>1, <1>2, <1>3, <1>4 DEF Stoi
<1> QED BY <1>1, <1>5

-----------------------------------------------------------------------------
(* Words *)

SpacesBefore(s, i) == {j \in 1..(i - 1) : s[j] = Space}

LEMMA SpacesFinite ==
  ASSUME NEW s, NEW i \in Nat
  PROVE  /\ IsFiniteSet(SpacesBefore(s, i)) /\ Cardinality(SpacesBefore(s, i)) \in Nat
         /\ WordAt(s, i) = 1 + Cardinality(SpacesBefore(s, i))
<1>1. IsFiniteSet(1..(i - 1))
  BY FS_Interval
<1>2. SpacesBefore(s, i) \subseteq 1..(i - 1)
  BY DEF SpacesBefore
<1> QED BY <1>1, <1>2, FS_Subset, FS_CardinalityType DEF WordAt, SpacesBefore

(* No space, no new word. *)
LEMMA SameWord ==
  ASSUME NEW s, NEW a \in Nat \ {0}, NEW b \in Nat, a <= b, \A j \in a..(b - 1) : s[j] # Space
  PROVE  WordAt(s, b) = WordAt(s, a)
<1>1. SpacesBefore(s, b) = SpacesBefore(s, a)
  BY DEF SpacesBefore
<1> QED BY <1>1, SpacesFinite

(* After a space, the next. *)
LEMMA NextWord ==
  ASSUME NEW s, NEW b \in Nat \ {0}, s[b] = Space
  PROVE  WordAt(s, b + 1) = WordAt(s, b) + 1
<1>1. SpacesBefore(s, b + 1) = SpacesBefore(s, b) \cup {b} /\ b \notin SpacesBefore(s, b)
  BY DEF SpacesBefore
<1>2. Cardinality(SpacesBefore(s, b + 1)) = Cardinality(SpacesBefore(s, b)) + 1
  BY <1>1, SpacesFinite, FS_AddElement
<1> QED BY <1>2, SpacesFinite

LEMMA LaterWord ==
  ASSUME NEW s, NEW a \in Nat, NEW b \in Nat, a <= b
  PROVE  WordAt(s, a) \in Nat /\ WordAt(s, b) \in Nat /\ WordAt(s, a) <= WordAt(s, b)
<1>1. SpacesBefore(s, a) \subseteq SpacesBefore(s, b)
  BY DEF SpacesBefore
<1>2. Cardinality(SpacesBefore(s, a)) <= Cardinality(SpacesBefore(s, b))
  BY <1>1, SpacesFinite, FS_Subset
<1> QED BY <1>2, SpacesFinite

(* The word that main takes for word k. *)
Place(s, k) == IF k <= WordCount(s) THEN k ELSE WordCount(s)

(* rest is what is left of s from q on: from a word's beginning, or all of *)
(* s where it is one word.                                                 *)
IsRest(s, q, rest) ==
  /\ q \in 1..(Len(s) + 1)
  /\ rest = SubSeq(s, q, Len(s))
  /\ q = 1 => Lacks(s, Space)
  /\ q > 1 => s[q - 1] = Space

LEMMA RestFacts ==
  ASSUME NEW s \in Seq(Lexeme), NEW q \in 1..(Len(s) + 1)
  PROVE  /\ SubSeq(s, q, Len(s)) \in Seq(Lexeme)
         /\ Len(SubSeq(s, q, Len(s))) = Len(s) - q + 1
         /\ \A i \in 1..(Len(s) - q + 1) : SubSeq(s, q, Len(s))[i] = s[q + i - 1]
OBVIOUS

LEMMA RestOfRest ==
  ASSUME NEW s \in Seq(Lexeme), NEW q \in 1..(Len(s) + 1), NEW p \in 1..(Len(s) - q + 1)
  PROVE  SubSeq(SubSeq(s, q, Len(s)), p + 1, Len(s) - q + 1) = SubSeq(s, q + p, Len(s))
OBVIOUS

(* One token on: what is left of the rest after its next space is again a  *)
(* rest, one word further, or still at the last word.                      *)
LEMMA OneWordOn ==
  ASSUME NEW s \in Seq(Lexeme), NEW q \in 1..(Len(s) + 1), NEW k \in Int,
         NEW rest, rest = SubSeq(s, q, Len(s)),
         q = 1 \/ s[q - 1] = Space
  PROVE  \E r \in 1..(Len(s) + 1) :
           /\ IsRest(s, r, After(rest, Space))
           /\ WordAt(s, q) = Place(s, k) => WordAt(s, r) = Place(s, k + 1)
<1>1. /\ rest \in Seq(Lexeme) /\ Len(rest) = Len(s) - q + 1
      /\ \A i \in 1..(Len(s) - q + 1) : rest[i] = s[q + i - 1]
  BY RestFacts
<1>2. Space \in Separator
  BY DEF Separator
<1>3. WordAt(s, q) \in Nat /\ WordCount(s) \in Nat
  BY LaterWord DEF WordCount
<1>4. CASE Lacks(rest, Space)
  <2>1. After(rest, Space) = rest
    BY <1>1, <1>2, <1>4, FindNone
  <2>2. \A j \in q..Len(s) : s[j] # Space
    <3>1. \A j \in q..Len(s) : j - q + 1 \in 1..Len(rest) /\ rest[j - q + 1] = s[j]
      BY <1>1
    <3> QED BY <3>1, <1>4 DEF Lacks
  <2>3. IsRest(s, q, rest)
    BY <2>2 DEF IsRest, Lacks
  <2>4. WordAt(s, q) = WordCount(s)
    BY <2>2, SameWord DEF WordCount
  <2>5. WordAt(s, q) = Place(s, k) => WordAt(s, q) = Place(s, k + 1)
    BY <2>4, <1>3 DEF Place
  <2> QED BY <2>1, <2>3, <2>5
<1>5. CASE \E p \in 1..Len(rest) : FirstAt(rest, Space, p)
  <2>1. PICK p \in 1..Len(rest) : FirstAt(rest, Space, p)
    BY <1>5
  <2>2. After(rest, Space) = SubSeq(rest, p + 1, Len(rest))
    BY <1>1, <1>2, <2>1, FindAt
  <2>3. p \in 1..(Len(s) - q + 1)
    BY <1>1
  <2>4. After(rest, Space) = SubSeq(s, q + p, Len(s))
    BY <1>1, <2>2, <2>3, RestOfRest
  <2>5. q + p - 1 \in 1..Len(s) /\ s[q + p - 1] = Space
    BY <1>1, <2>1, <2>3 DEF FirstAt
  <2>6. IsRest(s, q + p, After(rest, Space))
    BY <2>4, <2>5 DEF IsRest
  <2>7. \A j \in q..(q + p - 2) : s[j] # Space
    <3>1. \A j \in q..(q + p - 2) : j - q + 1 \in 1..(p - 1) /\ rest[j - q + 1] = s[j]
      BY <1>1, <2>3
    <3> QED BY <3>1, <2>1 DEF FirstAt
  <2>8. WordAt(s, q + p - 1) = WordAt(s, q)
    <3> DEFINE b == q + p - 1
    <3>1. b \in Nat /\ q \in Nat \ {0} /\ q <= b /\ \A j \in q..(b - 1) : s[j] # Space
      BY <2>5, <2>7
    <3> HIDE DEF b
    <3>2. WordAt(s, b) = WordAt(s, q)
      BY <3>1, SameWord
    <3> QED BY <3>2 DEF b
  <2>9. WordAt(s, q + p) = WordAt(s, q) + 1
    <3> DEFINE b == q + p - 1
    <3>1. b \in Nat \ {0} /\ s[b] = Space /\ b + 1 = q + p
      BY <2>5
    <3>2. WordAt(s, b) = WordAt(s, q)
      BY <2>8
    <3> HIDE DEF b
    <3>3. WordAt(s, b + 1) = WordAt(s, b) + 1
      BY <3>1, NextWord
    <3> QED BY <3>1, <3>2, <3>3
  <2>10. WordAt(s, q + p) <= WordCount(s)
    <3> DEFINE b == q + p
               e == Len(s) + 1
    <3>1. b \in Nat /\ e \in Nat /\ b <= e
      BY <2>5
    <3> HIDE DEF b, e
    <3>2. WordAt(s, b) <= WordAt(s, e)
      BY <3>1, LaterWord
    <3> QED BY <3>2 DEF b, e, WordCount
  <2>11. WordAt(s, q) = Place(s, k) => WordAt(s, q + p) = Place(s, k + 1)
    BY <2>9, <2>10, <1>3 DEF Place
  <2>12. q + p \in 1..(Len(s) + 1)
    BY <2>5
  <2> QED BY <2>6, <2>11, <2>12
<1> QED BY <1>1, <1>2, <1>4, <1>5, FindCases

(* A number taken for a token of a rest is what the rest begins with. *)
LEMMA NumberBeginsRest ==
  ASSUME NEW s \in Seq(Lexeme), NEW q \in 1..(Len(s) + 1), NEW rest,
         rest = SubSeq(s, q, Len(s)), Stoi[Upto(rest, Space)] # Throws
  PROVE  q \in 1..Len(s) /\ s[q] = Stoi[Upto(rest, Space)] /\ s[q] \in Number
<1>1. /\ rest \in Seq(Lexeme) /\ Len(rest) = Len(s) - q + 1
      /\ \A i \in 1..(Len(s) - q + 1) : rest[i] = s[q + i - 1]
  BY RestFacts
<1>2. Space \in Separator
  BY DEF Separator
<1>3. Upto(rest, Space) \in Seq(Lexeme) /\ Lacks(Upto(rest, Space), Space)
  BY <1>1, <1>2, PiecesType
<1>4. /\ Len(Upto(rest, Space)) > 0 /\ Stoi[Upto(rest, Space)] = Upto(rest, Space)[1]
      /\ Stoi[Upto(rest, Space)] \in Number
  BY <1>3, StoiFacts
<1>5. Len(rest) > 0 /\ Upto(rest, Space)[1] = rest[1]
  <2>1. CASE Lacks(rest, Space)
    BY <2>1, <1>1, <1>2, <1>4, FindNone
  <2>2. ASSUME NEW p \in 1..Len(rest), FirstAt(rest, Space, p)
        PROVE  Len(rest) > 0 /\ Upto(rest, Space)[1] = rest[1]
    <3>1. Upto(rest, Space) = SubSeq(rest, 1, p - 1)
      BY <1>1, <1>2, <2>2, FindAt
    <3>2. Len(SubSeq(rest, 1, p - 1)) = p - 1 /\ \A i \in 1..(p - 1) : SubSeq(rest, 1, p - 1)[i] = rest[i]
      BY <1>1
    <3> QED BY <3>1, <3>2, <1>4
  <2> QED BY <1>1, <1>2, <2>1, <2>2, FindCases
<1> QED BY <1>1, <1>4, <1>5

-----------------------------------------------------------------------------
(* Lines as the README has them *)

LEMMA LexemeFacts ==
  /\ Space \in Separator /\ Slash \in Separator /\ Colon \in Separator
  /\ \A sep \in Separator : sep \in Lexeme
  /\ \A n \in Number : n \in Lexeme /\ n \notin Separator
  /\ \A c \in Commands : c \in Lexeme
BY NumberAssumption DEF Lexeme, Separator

LEMMA ConcatFacts ==
  ASSUME NEW s \in Seq(Lexeme), NEW t \in Seq(Lexeme)
  PROVE  /\ s \o t \in Seq(Lexeme) /\ Len(s \o t) = Len(s) + Len(t)
         /\ \A i \in 1..Len(s) : (s \o t)[i] = s[i]
         /\ \A i \in 1..Len(t) : (s \o t)[Len(s) + i] = t[i]
OBVIOUS

LEMMA One ==
  ASSUME NEW x \in Lexeme
  PROVE  <<x>> \in Seq(Lexeme) /\ Len(<<x>>) = 1 /\ <<x>>[1] = x
OBVIOUS

(* The code's find takes such a line apart where it was put together. *)
LEMMA Split ==
  ASSUME NEW p \in Seq(Lexeme), NEW r \in Seq(Lexeme), NEW sep \in Separator, Lacks(p, sep)
  PROVE  /\ p \o (<<sep>> \o r) \in Seq(Lexeme)
         /\ Upto(p \o (<<sep>> \o r), sep) = p
         /\ After(p \o (<<sep>> \o r), sep) = r
<1> DEFINE t == <<sep>> \o r
           s == p \o t
<1>1. sep \in Lexeme
  BY LexemeFacts
<1>2. /\ t \in Seq(Lexeme) /\ Len(t) = Len(r) + 1 /\ t[1] = sep
      /\ \A i \in 1..Len(r) : t[1 + i] = r[i]
  BY <1>1
<1>3. /\ s \in Seq(Lexeme) /\ Len(s) = Len(p) + Len(t)
      /\ \A i \in 1..Len(p) : s[i] = p[i]
      /\ \A i \in 1..Len(t) : s[Len(p) + i] = t[i]
  <2> HIDE DEF t
  <2> QED BY <1>2, ConcatFacts
<1> HIDE DEF t, s
<1>4. PICK e \in Nat : e = Len(p) + 1
  OBVIOUS
<1>5. Upto(s, sep) = SubSeq(s, 1, Len(p)) /\ After(s, sep) = SubSeq(s, Len(p) + 2, Len(s))
  <2>1. 1 \in 1..Len(t) /\ e \in 1..Len(s)
    BY <1>2, <1>3, <1>4
  <2>2. s[e] = sep
    <3>1. s[Len(p) + 1] = t[1]
      BY <1>3, <2>1
    <3> QED BY <3>1, <1>2, <1>4
  <2>3. \A i \in 1..(e - 1) : s[i] # sep
    <3>1. \A i \in 1..(e - 1) : i \in 1..Len(p)
      BY <1>4
    <3>2. \A i \in 1..Len(p) : p[i] # sep
      BY DEF Lacks
    <3>3. \A i \in 1..Len(p) : s[i] = p[i]
      BY <1>3
    <3> QED BY <3>1, <3>2, <3>3
  <2>4. FirstAt(s, sep, e)
    BY <2>1, <2>2, <2>3 DEF FirstAt
  <2>5. Upto(s, sep) = SubSeq(s, 1, e - 1) /\ After(s, sep) = SubSeq(s, e + 1, Len(s))
    BY ONLY <1>3, <2>4, FindAt, s \in Seq(Lexeme), sep \in Separator
  <2> QED BY <2>5, <1>4
<1>6. SubSeq(s, 1, Len(p)) = p
  <2>1. /\ SubSeq(s, 1, Len(p)) \in Seq(Lexeme) /\ Len(SubSeq(s, 1, Len(p))) = Len(p)
        /\ \A i \in 1..Len(p) : SubSeq(s, 1, Len(p))[i] = s[i]
    BY <1>3, <1>2
  <2> QED BY <2>1, <1>3, SameElements
<1>7. SubSeq(s, Len(p) + 2, Len(s)) = r
  <2>1. Len(s) = Len(p) + Len(r) + 1
    BY <1>3, <1>2
  <2>2. /\ SubSeq(s, Len(p) + 2, Len(s)) \in Seq(Lexeme) /\ Len(SubSeq(s, Len(p) + 2, Len(s))) = Len(r)
        /\ \A i \in 1..Len(r) : SubSeq(s, Len(p) + 2, Len(s))[i] = s[Len(p) + 1 + i]
    <3>1. PICK a \in Nat \ {0} : a = Len(p) + 2
      OBVIOUS
    <3>2. PICK b \in Int : b = Len(p) + Len(r) + 1
      OBVIOUS
    <3>5. b = Len(s) /\ a <= b + 1 /\ b - a + 1 = Len(r)
      BY <2>1, <3>1, <3>2
    <3>3. /\ SubSeq(s, a, b) \in Seq(Lexeme) /\ Len(SubSeq(s, a, b)) = Len(r)
          /\ \A i \in 1..Len(r) : SubSeq(s, a, b)[i] = s[a + i - 1]
      BY <1>3, <3>5, SubSeqFacts
    <3>4. \A i \in 1..Len(r) : a + i - 1 = Len(p) + 1 + i
      BY <3>1
    <3> QED BY <3>1, <3>5, <3>3, <3>4
  <2>3. \A i \in 1..Len(r) : s[Len(p) + 1 + i] = r[i]
    <3>1. \A i \in 1..Len(r) : 1 + i \in 1..Len(t) /\ Len(p) + 1 + i = Len(p) + (1 + i)
      BY <1>2
    <3> QED BY <3>1, <1>2, <1>3
  <2> QED BY <2>2, <2>3, SameElements
<1> QED BY <1>3, <1>5, <1>6, <1>7 DEF s, t

LEMMA LacksOne ==
  ASSUME NEW n \in Number, NEW sep \in Separator PROVE <<n>> \in Seq(Lexeme) /\ Lacks(<<n>>, sep)
BY LexemeFacts DEF Lacks

Date(n) == <<n[1], Slash, n[2], Slash, n[3]>>
Time(n) == <<n[4], Colon, n[5]>>

LEMMA DateTimeText ==
  ASSUME NEW n \in Seq(Number), Len(n) = 5
  PROVE  /\ Date(n) \in Seq(Lexeme) /\ Time(n) \in Seq(Lexeme)
         /\ Lacks(Date(n), Space) /\ Lacks(Time(n), Space)
         /\ Date(n) = <<n[1]>> \o (<<Slash>> \o (<<n[2]>> \o (<<Slash>> \o <<n[3]>>)))
         /\ Time(n) = <<n[4]>> \o (<<Colon>> \o <<n[5]>>)
         /\ Typed(n) = <<Space>> \o (Date(n) \o (<<Space>> \o Time(n)))
<1>1. \A i \in 1..5 : n[i] \in Lexeme /\ n[i] # Space
  <2>1. \A i \in 1..5 : n[i] \in Number
    BY ElementOfSeq
  <2>2. \A x \in Number : x \in Lexeme /\ x # Space
    BY LexemeFacts
  <2> QED BY <2>1, <2>2
<1>2. Slash \in Lexeme /\ Colon \in Lexeme /\ Space \in Lexeme /\ Slash # Space /\ Colon # Space
  BY LexemeFacts DEF Slash, Space, Colon
<1>3. Date(n) \in Seq(Lexeme) /\ Time(n) \in Seq(Lexeme)
  BY <1>1, <1>2 DEF Date, Time
<1>4. Lacks(Date(n), Space) /\ Lacks(Time(n), Space)
  BY <1>1, <1>2 DEF Date, Time, Lacks
<1>5. Date(n) = <<n[1]>> \o (<<Slash>> \o (<<n[2]>> \o (<<Slash>> \o <<n[3]>>)))
  BY <1>1, <1>2 DEF Date
<1>6. Time(n) = <<n[4]>> \o (<<Colon>> \o <<n[5]>>)
  BY <1>1, <1>2 DEF Time
<1>7. Typed(n) = <<Space>> \o (Date(n) \o (<<Space>> \o Time(n)))
  BY <1>1, <1>2 DEF Date, Time, Typed
<1> QED BY <1>3, <1>4, <1>5, <1>6, <1>7

LEMMA Reassociate ==
  ASSUME NEW a \in Seq(Lexeme), NEW b \in Seq(Lexeme), NEW c \in Seq(Lexeme)
  PROVE  (a \o b) \o c = a \o (b \o c)
BY ConcatAssociative

LEMMA Peel ==
  ASSUME NEW a \in Seq(Lexeme), NEW b \in Seq(Lexeme), NEW x \in Seq(Lexeme), NEW y \in Seq(Lexeme)
  PROVE  (a \o (b \o x)) \o y = a \o (b \o (x \o y))
<1>1. PICK z \in Seq(Lexeme) : z = b \o x
  <2>1. b \o x \in Seq(Lexeme)
    BY ConcatFacts
  <2> QED BY <2>1
<1>2. (a \o z) \o y = a \o (z \o y)
  BY Reassociate, SMTT(30)
<1>3. (b \o x) \o y = b \o (x \o y)
  BY Reassociate, SMTT(30)
<1> QED BY <1>1, <1>2, <1>3, Zenon

(* ParseDateTime finds the five numbers of a date and time. *)
LEMMA ParseOfDateTime ==
  ASSUME NEW n \in Seq(Number), Len(n) = 5
  PROVE  ParseDateTime(Date(n) \o <<Space>> \o Time(n)) = n
<1>1. \A i \in 1..5 : n[i] \in Number
  BY ElementOfSeq
<1> DEFINE r4 == <<n[5]>>
           r3 == <<n[4]>> \o (<<Colon>> \o r4)
           r2 == <<n[3]>> \o (<<Space>> \o r3)
           r1 == <<n[2]>> \o (<<Slash>> \o r2)
           r0 == <<n[1]>> \o (<<Slash>> \o r1)
<1>2. Slash \in Separator /\ Colon \in Separator /\ Space \in Separator
  BY LexemeFacts
<1>3. r4 \in Seq(Lexeme)
  BY <1>1, LexemeFacts
<1> HIDE DEF r4
<1>4. r3 \in Seq(Lexeme) /\ Upto(r3, Colon) = <<n[4]>> /\ After(r3, Colon) = r4
  <2>1. <<n[4]>> \in Seq(Lexeme) /\ Lacks(<<n[4]>>, Colon)
    BY <1>1, <1>2, LacksOne
  <2> QED BY <2>1, <1>2, <1>3, Split
<1> HIDE DEF r3
<1>5. r2 \in Seq(Lexeme) /\ Upto(r2, Space) = <<n[3]>> /\ After(r2, Space) = r3
  <2>1. <<n[3]>> \in Seq(Lexeme) /\ Lacks(<<n[3]>>, Space)
    BY <1>1, <1>2, LacksOne
  <2> QED BY <2>1, <1>2, <1>4, Split
<1> HIDE DEF r2
<1>6. r1 \in Seq(Lexeme) /\ Upto(r1, Slash) = <<n[2]>> /\ After(r1, Slash) = r2
  <2>1. <<n[2]>> \in Seq(Lexeme) /\ Lacks(<<n[2]>>, Slash)
    BY <1>1, <1>2, LacksOne
  <2> QED BY <2>1, <1>2, <1>5, Split
<1> HIDE DEF r1
<1>7. r0 \in Seq(Lexeme) /\ Upto(r0, Slash) = <<n[1]>> /\ After(r0, Slash) = r1
  <2>1. <<n[1]>> \in Seq(Lexeme) /\ Lacks(<<n[1]>>, Slash)
    BY <1>1, <1>2, LacksOne
  <2> QED BY <2>1, <1>2, <1>6, Split
<1> HIDE DEF r0
<1>8. Date(n) \o <<Space>> \o Time(n) = r0
  <2> DEFINE more == <<Space>> \o Time(n)
             d2 == <<n[2]>> \o (<<Slash>> \o <<n[3]>>)
  <2>1. /\ <<Space>> \in Seq(Lexeme) /\ <<Slash>> \in Seq(Lexeme)
        /\ <<n[1]>> \in Seq(Lexeme) /\ <<n[2]>> \in Seq(Lexeme) /\ <<n[3]>> \in Seq(Lexeme)
    BY <1>1, LexemeFacts, One
  <2>2. /\ Date(n) \in Seq(Lexeme) /\ Time(n) \in Seq(Lexeme)
        /\ Date(n) = <<n[1]>> \o (<<Slash>> \o d2) /\ Time(n) = r3
    BY DateTimeText DEF r3, r4
  <2>3. more \in Seq(Lexeme) /\ more = <<Space>> \o r3
    BY <2>1, <2>2, ConcatFacts
  <2>4. (Date(n) \o <<Space>>) \o Time(n) = Date(n) \o more
    BY <2>1, <2>2, Reassociate
  <2>5. <<Slash>> \o <<n[3]>> \in Seq(Lexeme)
    BY <2>1, ConcatFacts
  <2>6. d2 \in Seq(Lexeme)
    BY <2>1, <2>5, ConcatFacts
  <2> HIDE DEF more
  <2>7. d2 \o more = <<n[2]>> \o (<<Slash>> \o (<<n[3]>> \o more))
    BY <2>1, <2>3, Peel
  <2> HIDE DEF d2
  <2>8. Date(n) \o more = <<n[1]>> \o (<<Slash>> \o (d2 \o more))
    <3>1. (<<n[1]>> \o (<<Slash>> \o d2)) \o more = <<n[1]>> \o (<<Slash>> \o (d2 \o more))
      <4>1. PICK u, v \in Seq(Lexeme) : u = <<n[1]>> /\ v = <<Slash>>
        BY <2>1
      <4>2. PICK x, y \in Seq(Lexeme) : x = d2 /\ y = more
        BY <2>3, <2>6
      <4>3. PICK w \in Seq(Lexeme) : w = v \o x
        <5>1. v \o x \in Seq(Lexeme)
          BY ConcatFacts
        <5> QED BY <5>1
      <4>4. (u \o w) \o y = u \o (w \o y)
        BY Reassociate, SMTT(30)
      <4>5. (v \o x) \o y = v \o (x \o y)
        BY Reassociate, SMTT(30)
      <4> QED BY <4>1, <4>2, <4>3, <4>4, <4>5
    <3> QED BY <2>2, <3>1
  <2> QED BY <2>3, <2>4, <2>7, <2>8 DEF r0, r1, r2
<1>9. /\ Stoi[<<n[1]>>] = n[1] /\ Stoi[<<n[2]>>] = n[2] /\ Stoi[<<n[3]>>] = n[3]
      /\ Stoi[<<n[4]>>] = n[4] /\ Stoi[r4] = n[5]
  BY <1>1, StoiOfNumber DEF r4
<1>10. ParseDateTime(r0) = <<n[1], n[2], n[3], n[4], n[5]>>
  BY <1>4, <1>5, <1>6, <1>7, <1>9 DEF ParseDateTime
<1>11. <<n[1], n[2], n[3], n[4], n[5]>> = n
  BY <1>1
<1> QED BY <1>8, <1>10, <1>11

(* What is written after the space before an argument. *)
Bare(n) == IF Len(n) = 1 THEN n ELSE Date(n) \o <<Space>> \o Time(n)

LEMMA BareOfInt ==
  ASSUME NEW n \in Seq(Number), Len(n) = 1
  PROVE  /\ n \in Seq(Lexeme) /\ Lacks(n, Space) /\ Bare(n) = n /\ Stoi[n] = n[1] /\ <<n[1]>> = n
         /\ Typed(n) = <<Space>> \o Bare(n)
<1>1. n[1] \in Number /\ n[1] \in Lexeme /\ n[1] # Space /\ Space \in Lexeme
  BY LexemeFacts
<1>2. <<n[1]>> = n
  BY <1>1
<1>3. Stoi[<<n[1]>>] = n[1]
  BY <1>1, StoiOfNumber
<1>4. n \in Seq(Lexeme) /\ Lacks(n, Space)
  BY <1>1, LexemeFacts DEF Lacks
<1>5. <<Space, n[1]>> = <<Space>> \o <<n[1]>>
  BY <1>1
<1> QED BY <1>2, <1>3, <1>4, <1>5 DEF Bare, Typed

LEMMA BareOfDateTime ==
  ASSUME NEW n \in Seq(Number), Len(n) = 5
  PROVE  /\ Bare(n) \in Seq(Lexeme) /\ Bare(n) = Date(n) \o (<<Space>> \o Time(n))
         /\ Bare(n) = Date(n) \o <<Space>> \o Time(n)
         /\ Typed(n) = <<Space>> \o Bare(n)
<1>1. <<Space>> \in Seq(Lexeme) /\ Date(n) \in Seq(Lexeme) /\ Time(n) \in Seq(Lexeme)
  BY LexemeFacts, DateTimeText, One
<1>2. Bare(n) = Date(n) \o <<Space>> \o Time(n)
  BY DEF Bare
<1>3. (Date(n) \o <<Space>>) \o Time(n) = Date(n) \o (<<Space>> \o Time(n))
  BY <1>1, Reassociate
<1>4. <<Space>> \o Time(n) \in Seq(Lexeme)
  BY <1>1, ConcatFacts
<1>5. Date(n) \o (<<Space>> \o Time(n)) \in Seq(Lexeme)
  BY <1>1, <1>4, ConcatFacts
<1> QED BY <1>2, <1>3, <1>5, DateTimeText

(* Reading an argument off a line as the README has it finds what was      *)
(* typed, and leaves the next argument, without the space before it.       *)
LEMMA ReadInt ==
  ASSUME NEW n \in Seq(Number), Len(n) = 1, NEW r \in Seq(Lexeme)
  PROVE  /\ Numbers("int", Bare(n)) = n
         /\ Numbers("int", Bare(n) \o (<<Space>> \o r)) = n
         /\ Rest("int", Bare(n) \o (<<Space>> \o r)) = r
<1>1. n \in Seq(Lexeme) /\ Lacks(n, Space) /\ Bare(n) = n /\ Stoi[n] = n[1] /\ <<n[1]>> = n
  BY BareOfInt
<1>2. Space \in Separator
  BY LexemeFacts
<1>3. Upto(n, Space) = n
  BY <1>1, <1>2, FindNone
<1>4. Upto(n \o (<<Space>> \o r), Space) = n /\ After(n \o (<<Space>> \o r), Space) = r
  BY <1>1, <1>2, Split
<1> QED BY <1>1, <1>3, <1>4 DEF Numbers, Rest

LEMMA ReadDateTime ==
  ASSUME NEW n \in Seq(Number), Len(n) = 5, NEW r \in Seq(Lexeme)
  PROVE  /\ Numbers("datetime", Bare(n)) = n
         /\ Numbers("datetime", Bare(n) \o (<<Space>> \o r)) = n
         /\ Rest("datetime", Bare(n) \o (<<Space>> \o r)) = r
<1> DEFINE d == Date(n)
           t == Time(n)
           more == <<Space>> \o r
<1>1. Space \in Separator /\ <<Space>> \in Seq(Lexeme)
  BY LexemeFacts, One
<1>2. d \in Seq(Lexeme) /\ t \in Seq(Lexeme) /\ Lacks(d, Space) /\ Lacks(t, Space)
  BY DateTimeText
<1>3. Bare(n) = d \o (<<Space>> \o t) /\ ParseDateTime(d \o <<Space>> \o t) = n
  BY BareOfDateTime, ParseOfDateTime
<1>4. more \in Seq(Lexeme)
  BY <1>1, ConcatFacts
<1> HIDE DEF d, t
<1>5. t \o more \in Seq(Lexeme) /\ Upto(t \o more, Space) = t /\ After(t \o more, Space) = r
  BY <1>1, <1>2, Split
<1>6. Upto(t, Space) = t
  BY <1>1, <1>2, FindNone
<1>7. Upto(Bare(n), Space) = d /\ After(Bare(n), Space) = t
  BY <1>1, <1>2, <1>3, Split
<1> HIDE DEF more
<1>8. Bare(n) \o more = d \o (<<Space>> \o (t \o more))
  <2>1. <<Space>> \o t \in Seq(Lexeme)
    BY <1>1, <1>2, ConcatFacts
  <2>2. (d \o (<<Space>> \o t)) \o more = d \o ((<<Space>> \o t) \o more)
    <3>1. PICK u \in Seq(Lexeme) : u = <<Space>> \o t
      BY <2>1
    <3>2. (d \o u) \o more = d \o (u \o more)
      BY <1>2, <1>4, Reassociate, SMTT(30)
    <3> QED BY <3>1, <3>2
  <2>3. (<<Space>> \o t) \o more = <<Space>> \o (t \o more)
    BY <1>1, <1>2, <1>4, Reassociate, SMTT(30)
  <2> QED BY <2>2, <2>3, <1>3
<1>9. Upto(Bare(n) \o more, Space) = d /\ After(Bare(n) \o more, Space) = t \o more
  <2>1. PICK u \in Seq(Lexeme) : u = t \o more
    BY <1>5
  <2>2. Upto(d \o (<<Space>> \o u), Space) = d /\ After(d \o (<<Space>> \o u), Space) = u
    BY ONLY Split, <1>1, <1>2, u \in Seq(Lexeme)
  <2> QED BY ONLY <2>1, <2>2, <1>8
<1>10. Numbers("datetime", Bare(n)) = n
  BY <1>3, <1>6, <1>7 DEF Numbers
<1>11. Numbers("datetime", Bare(n) \o more) = n /\ Rest("datetime", Bare(n) \o more) = r
  BY <1>3, <1>5, <1>9 DEF Numbers, Rest
<1> QED BY <1>10, <1>11 DEF more

LEMMA TwoPairs ==
  ASSUME NEW K, NEW a \in K, NEW b \in K, NEW c \in K, NEW d \in K
  PROVE  <<a, b>> \o <<c, d>> = <<a, b, c, d>>
<1> DEFINE s == <<a, b>>
           t == <<c, d>>
           u == <<a, b, c, d>>
<1>1. /\ s \in Seq(K) /\ Len(s) = 2 /\ s[1] = a /\ s[2] = b
      /\ t \in Seq(K) /\ Len(t) = 2 /\ t[1] = c /\ t[2] = d
  OBVIOUS
<1>2. u \in Seq(K) /\ Len(u) = 4 /\ u[1] = a /\ u[2] = b /\ u[3] = c /\ u[4] = d
  OBVIOUS
<1> HIDE DEF s, t, u
<1>3. s \o t \in Seq(K) /\ Len(s \o t) = 4 /\ \A i \in 1..4 : (s \o t)[i] = IF i <= 2 THEN s[i] ELSE t[i - 2]
  <2>1. /\ s \o t \in Seq(K) /\ Len(s \o t) = Len(s) + Len(t)
        /\ \A i \in 1..(Len(s) + Len(t)) :
             (s \o t)[i] = IF i <= Len(s) THEN s[i] ELSE t[i - Len(s)]
    BY <1>1, ConcatProperties
  <2>2. Len(s) = 2 /\ Len(s) + Len(t) = 4
    BY <1>1
  <2> QED BY <2>1, <2>2
<1>4. \A i \in 1..4 : (s \o t)[i] = u[i]
  <2>1. ASSUME NEW i \in 1..4 PROVE (s \o t)[i] = u[i]
    <3>1. i \in {1, 2, 3, 4}
      OBVIOUS
    <3> QED BY <3>1, <1>1, <1>2, <1>3
  <2> QED BY <2>1
<1>5. s \o t = u
  BY <1>2, <1>3, <1>4, SeqEqual
<1> QED BY <1>5 DEF s, t, u

LEMMA SignatureFacts ==
  /\ \A c \in Commands :
       /\ Len(Signature[c]) \in {2, 4}
       /\ \A i \in 1..Len(Signature[c]) :
            /\ Signature[c][i] \in {"int", "datetime"}
            /\ Signature[c][i] = "int" => \A j \in 1..i : Signature[c][j] = "int"
       /\ c \notin Separator /\ c # "exit"
<1> DEFINE from == <<"int", "datetime">>
           pair == <<"int", "int">>
           between == <<"int", "int", "datetime", "datetime">>
<1>1. pair \o <<"datetime", "datetime">> = between
  <2> DEFINE K == {"int", "datetime"}
  <2>1. "int" \in K /\ "datetime" \in K
    OBVIOUS
  <2> HIDE DEF K
  <2> QED BY <2>1, TwoPairs
<1>2. Signature = [dfs |-> from, bfs |-> from, connectivity |-> pair,
                   all_paths |-> between, minimum_cost_path |-> between, shortest_path |-> between]
  BY <1>1 DEF Signature
<1>3. Commands = {"dfs", "bfs", "connectivity", "all_paths", "minimum_cost_path", "shortest_path"}
  BY <1>2 DEF Commands
<1>4. \A c \in Commands : Signature[c] \in {from, pair, between}
  BY <1>2, <1>3
<1>5. \A sig \in {from, pair, between} :
        /\ Len(sig) \in {2, 4}
        /\ \A i \in 1..Len(sig) :
             /\ sig[i] \in {"int", "datetime"}
             /\ sig[i] = "int" => \A j \in 1..i : sig[j] = "int"
  OBVIOUS
<1>6. \A c \in Commands : c \notin Separator /\ c # "exit"
  BY <1>3 DEF Separator, Space, Slash, Colon
<1> HIDE DEF from, pair, between
<1>7. ASSUME NEW c \in Commands
      PROVE  /\ Len(Signature[c]) \in {2, 4}
             /\ \A i \in 1..Len(Signature[c]) :
                  /\ Signature[c][i] \in {"int", "datetime"}
                  /\ Signature[c][i] = "int" => \A j \in 1..i : Signature[c][j] = "int"
  <2>1. PICK sig \in {from, pair, between} : sig = Signature[c]
    BY <1>4
  <2> QED BY ONLY <2>1, <1>5
<1> QED BY <1>6, <1>7

(* The text of all arguments after the k-th. *)
Later(m, k) ==
  Written(m, k + 1) \o (Written(m, k + 2) \o (Written(m, k + 3) \o Written(m, k + 4)))

LEMMA RequestFacts ==
  ASSUME NEW m \in Requests
  PROVE  /\ m.operation \in Commands /\ m.arguments \in Seq(Seq(Number))
         /\ Len(m.arguments) = Len(Signature[m.operation]) /\ Len(m.arguments) \in {2, 4}
         /\ m = [operation |-> m.operation, arguments |-> m.arguments]
         /\ \A k \in 1..Len(m.arguments) :
              /\ m.arguments[k] \in Seq(Number)
              /\ Len(m.arguments[k]) = IF Signature[m.operation][k] = "int" THEN 1 ELSE 5
BY RequestAssumption, SignatureFacts

LEMMA RequestLength ==
  ASSUME NEW m \in Requests PROVE Len(m.arguments) \in {2, 4}
BY RequestFacts

LEMMA WrittenFacts ==
  ASSUME NEW m \in Requests, NEW k \in Nat \ {0}
  PROVE  /\ Written(m, k) \in Seq(Lexeme)
         /\ k <= Len(m.arguments) =>
              /\ Bare(m.arguments[k]) \in Seq(Lexeme)
              /\ Written(m, k) = <<Space>> \o Bare(m.arguments[k])
         /\ k > Len(m.arguments) => Written(m, k) = <<>>
<1>1. CASE k <= Len(m.arguments)
  <2>1. PICK n \in Seq(Number) : n = m.arguments[k] /\ Len(n) \in {1, 5}
    <3>1. k \in 1..Len(m.arguments)
      BY <1>1, RequestFacts
    <3> QED BY <3>1, RequestFacts
  <2>2. Bare(n) \in Seq(Lexeme) /\ Typed(n) = <<Space>> \o Bare(n)
    BY <2>1, BareOfInt, BareOfDateTime
  <2>3. <<Space>> \in Seq(Lexeme)
    BY LexemeFacts, One
  <2>4. <<Space>> \o Bare(n) \in Seq(Lexeme)
    BY <2>2, <2>3, ConcatFacts
  <2> QED BY <1>1, <2>1, <2>2, <2>4, RequestFacts DEF Written
<1>2. CASE ~(k <= Len(m.arguments))
  <2>1. <<>> \in Seq(Lexeme)
    OBVIOUS
  <2> QED BY <1>2, <2>1, RequestFacts DEF Written
<1> QED BY <1>1, <1>2

LEMMA LaterFacts ==
  ASSUME NEW m \in Requests, NEW k \in Nat
  PROVE  /\ Later(m, k) \in Seq(Lexeme)
         /\ k < Len(m.arguments) =>
               Later(m, k) = <<Space>> \o (Bare(m.arguments[k + 1]) \o Later(m, k + 1))
         /\ k >= Len(m.arguments) => Later(m, k) = <<>>
<1>1. PICK w1, w2, w3, w4, w5 \in Seq(Lexeme) :
        /\ w1 = Written(m, k + 1) /\ w2 = Written(m, k + 2) /\ w3 = Written(m, k + 3)
        /\ w4 = Written(m, k + 4) /\ w5 = Written(m, k + 5)
  <2>1. \A j \in Nat \ {0} : Written(m, j) \in Seq(Lexeme)
    BY WrittenFacts
  <2>2. /\ k + 1 \in Nat \ {0} /\ k + 2 \in Nat \ {0} /\ k + 3 \in Nat \ {0}
        /\ k + 4 \in Nat \ {0} /\ k + 5 \in Nat \ {0}
    OBVIOUS
  <2> QED BY <2>1, <2>2, Zenon
<1>2. w3 \o w4 \in Seq(Lexeme)
  BY ConcatFacts
<1>3. w2 \o (w3 \o w4) \in Seq(Lexeme)
  BY <1>2, ConcatFacts
<1>4. w1 \o (w2 \o (w3 \o w4)) \in Seq(Lexeme)
  BY <1>3, ConcatFacts
<1>5. Later(m, k) = w1 \o (w2 \o (w3 \o w4))
  BY <1>1 DEF Later
<1>6. ASSUME k < Len(m.arguments)
      PROVE  Later(m, k) = <<Space>> \o (Bare(m.arguments[k + 1]) \o Later(m, k + 1))
  <2>1. k + 5 > Len(m.arguments) /\ k + 1 <= Len(m.arguments)
    <3>1. PICK n \in {2, 4} : n = Len(m.arguments)
      BY RequestLength
    <3>2. k < n
      BY <1>6, <3>1
    <3>3. k + 5 > n /\ k + 1 <= n
      BY ONLY <3>2, k \in Nat, n \in {2, 4}
    <3> QED BY <3>1, <3>3
  <2>2. w5 = <<>>
    BY <1>1, <2>1, WrittenFacts
  <2>3. PICK b \in Seq(Lexeme) : b = Bare(m.arguments[k + 1]) /\ w1 = <<Space>> \o b
    <3>1. PICK j \in Nat \ {0} : j = k + 1
      OBVIOUS
    <3>2. Bare(m.arguments[j]) \in Seq(Lexeme) /\ Written(m, j) = <<Space>> \o Bare(m.arguments[j])
      BY <2>1, <3>1, WrittenFacts
    <3> QED BY <1>1, <3>1, <3>2
  <2>4. Later(m, k + 1) = w2 \o (w3 \o (w4 \o w5))
    <3>1. (k + 1) + 1 = k + 2 /\ (k + 1) + 2 = k + 3 /\ (k + 1) + 3 = k + 4 /\ (k + 1) + 4 = k + 5
      OBVIOUS
    <3> QED BY <1>1, <3>1 DEF Later
  <2>5. w4 \o w5 = w4
    BY <2>2
  <2>6. <<Space>> \in Seq(Lexeme)
    BY LexemeFacts, One
  <2>7. (<<Space>> \o b) \o (w2 \o (w3 \o w4)) = <<Space>> \o (b \o (w2 \o (w3 \o w4)))
    <3>1. PICK z \in Seq(Lexeme) : z = w2 \o (w3 \o w4)
      <4>1. w3 \o w4 \in Seq(Lexeme)
        BY <1>3, ConcatFacts
      <4> QED BY <4>1, <1>3, ConcatFacts
    <3>2. PICK o \in Seq(Lexeme) : o = <<Space>>
      BY <2>6
    <3>3. (o \o b) \o z = o \o (b \o z)
      BY Reassociate, SMTT(30)
    <3> QED BY <3>1, <3>2, <3>3
  <2> QED BY <1>5, <2>3, <2>4, <2>5, <2>7
<1>7. ASSUME k >= Len(m.arguments) PROVE Later(m, k) = <<>>
  <2>1. w1 = <<>> /\ w2 = <<>> /\ w3 = <<>> /\ w4 = <<>>
    <3>1. \A j \in Nat \ {0} : j > Len(m.arguments) => Written(m, j) = <<>>
      BY WrittenFacts
    <3>2. k + 1 > Len(m.arguments) /\ k + 2 > Len(m.arguments) /\ k + 3 > Len(m.arguments) /\ k + 4 > Len(m.arguments)
      BY <1>7, RequestLength
    <3> QED BY <1>1, <3>1, <3>2
  <2> QED BY <1>5, <2>1
<1> QED BY <1>4, <1>5, <1>6, <1>7

LEMMA TypedCommandText ==
  ASSUME NEW m \in Requests
  PROVE  TypedCommand(m) = <<m.operation>> \o Later(m, 0)
BY DEF TypedCommand, Later

-----------------------------------------------------------------------------
(* The inductive invariant *)

(* While the first k arguments of command c are all airports, what is left *)
(* of the line begins where word k + 2 does: the command is word 1.        *)
OnlyInts(c, k) == \A i \in 1..k : Signature[c][i] = "int"
Located(line, c, rest, k) ==
  \E q \in 1..(Len(line) + 1) :
    IsRest(line, q, rest) /\ (OnlyInts(c, k) => WordAt(line, q) = Place(line, k + 2))

(* Every number read is on the line, an airport at its place. *)
FoundThere(line, c, args) ==
  \A i \in 1..Len(args) :
    /\ Lexemes(args[i]) \subseteq Lexemes(line)
    /\ Signature[c][i] = "int" => BeginsWord(line, i + 1, args[i][1])

(* If the line is a command as the README has it, so far it was understood. *)
Understood(line, c, rest, args) ==
  \A m \in Requests : line = TypedCommand(m) =>
    /\ c = m.operation
    /\ \A i \in 1..Len(args) : args[i] = m.arguments[i]
    /\ Len(args) < Len(Signature[c]) =>
         rest = Bare(m.arguments[Len(args) + 1]) \o Later(m, Len(args) + 1)

Reads(line, c, rest, args) ==
  /\ c \in Commands /\ Begins(line, c)
  /\ rest \in Seq(Lexeme) /\ args \in Seq(Seq(Number)) /\ Len(args) <= Len(Signature[c])
  /\ Located(line, c, rest, Len(args))
  /\ FoundThere(line, c, args)
  /\ Understood(line, c, rest, args)

(* What RunsWhatWasTyped says of one line and the call it made. *)
Right(line, call) ==
  /\ call # NoCall =>
       /\ Begins(line, call.operation)
       /\ \A i \in DOMAIN call.arguments :
            /\ \A j \in DOMAIN call.arguments[i] :
                 \E e \in DOMAIN line : line[e] = call.arguments[i][j]
            /\ Signature[call.operation][i] = "int" =>
                 BeginsWord(line, i + 1, call.arguments[i][1])
  /\ \A c \in Requests : line = TypedCommand(c) => call = c

Answers == [said : {"nothing", "unknown operation", "error", "airports", "paths", "no path"},
            call : {NoCall} \cup [operation : Commands, arguments : Seq(Seq(Number))]]

LoopInv ==
  /\ input \in Inputs /\ read \in Nat /\ printed \in Seq(Answers)
  /\ phase = "prompt" => Len(printed) = read
  /\ phase = "reading" =>
       /\ Len(printed) + 1 = read
       /\ \E c \in Commands : operation = <<c>> /\ Reads(Line(read), c, query, arguments)
  /\ \A k \in 1..Len(printed) : Right(Line(k), printed[k].call)

LEMMA LineType ==
  ASSUME input \in Inputs, NEW k \in Nat \ {0}
  PROVE  Line(k) \in Seq(Lexeme)
<1>1. input.lines \in Seq(Seq(Lexeme))
  BY InputAssumption
<1>2. <<>> \in Seq(Lexeme)
  OBVIOUS
<1>3. k <= Len(input.lines) => input.lines[k] \in Seq(Lexeme)
  BY <1>1
<1> QED BY <1>2, <1>3 DEF Line

(* A line as the README has it begins with its command, and the rest is    *)
(* the text of the arguments.                                              *)
LEMMA TypedBegins ==
  ASSUME NEW m \in Requests
  PROVE  /\ Upto(TypedCommand(m), Space) = <<m.operation>>
         /\ After(TypedCommand(m), Space) = Bare(m.arguments[1]) \o Later(m, 1)
<1>1. PICK o \in Seq(Lexeme) : o = <<m.operation>> /\ Lacks(o, Space)
  <2>1. m.operation \in Lexeme /\ m.operation # Space
    BY RequestFacts, SignatureFacts, LexemeFacts
  <2>2. <<m.operation>> \in Seq(Lexeme) /\ Len(<<m.operation>>) = 1 /\ <<m.operation>>[1] = m.operation
    BY <2>1, One
  <2>3. \A i \in 1..1 : i = 1
    OBVIOUS
  <2>4. Lacks(<<m.operation>>, Space)
    BY <2>1, <2>2, <2>3 DEF Lacks
  <2> QED BY <2>2, <2>4
<1>2. 0 < Len(m.arguments) /\ 1 <= Len(m.arguments) /\ 0 + 1 = 1
  <2>1. PICK l \in {2, 4} : l = Len(m.arguments)
    BY RequestLength, Zenon
  <2>2. 0 < l /\ 1 <= l
    BY ONLY l \in {2, 4}
  <2> QED BY <2>1, <2>2
<1>3. Bare(m.arguments[1]) \in Seq(Lexeme) /\ Later(m, 1) \in Seq(Lexeme)
  BY <1>2, WrittenFacts, LaterFacts
<1>4. PICK r \in Seq(Lexeme) : r = Bare(m.arguments[1]) \o Later(m, 1)
  BY <1>3, ConcatFacts
<1>5. Later(m, 0) = <<Space>> \o r
  BY <1>2, <1>4, LaterFacts
<1>6. TypedCommand(m) = o \o (<<Space>> \o r)
  BY <1>1, <1>5, TypedCommandText
<1>7. Upto(o \o (<<Space>> \o r), Space) = o /\ After(o \o (<<Space>> \o r), Space) = r
  BY ONLY Split, LexemeFacts, <1>1, o \in Seq(Lexeme), r \in Seq(Lexeme)
<1> QED BY <1>1, <1>4, <1>6, <1>7

(* The command is what the line begins with. *)
LEMMA CommandBegins ==
  ASSUME NEW line \in Seq(Lexeme), NEW c, Upto(line, Space) = <<c>>
  PROVE  Begins(line, c)
<1>1. Space \in Separator
  BY LexemeFacts
<1>2. CASE Lacks(line, Space)
  <2>1. line = <<c>>
    BY <1>1, <1>2, FindNone
  <2> QED BY <2>1 DEF Begins
<1>3. ASSUME NEW p \in 1..Len(line), FirstAt(line, Space, p) PROVE Begins(line, c)
  <2>1. Upto(line, Space) = SubSeq(line, 1, p - 1)
    BY <1>1, <1>3, FindAt
  <2>2. Len(SubSeq(line, 1, p - 1)) = p - 1 /\ \A i \in 1..(p - 1) : SubSeq(line, 1, p - 1)[i] = line[i]
    OBVIOUS
  <2>3. Len(<<c>>) = 1 /\ <<c>>[1] = c
    OBVIOUS
  <2>4. PICK u : u = <<c>> /\ u = SubSeq(line, 1, p - 1) /\ Len(u) = 1 /\ u[1] = c
    BY <2>1, <2>3
  <2>5. p = 2
    <3>1. p - 1 = 1
      BY <2>2, <2>4, Zenon
    <3> QED BY <3>1
  <2>6. line[1] = c
    BY <2>2, <2>4, <2>5
  <2> QED BY <1>3, <2>5, <2>6 DEF Begins, FirstAt
<1> QED BY <1>1, <1>2, <1>3, FindCases

(* The loop begins to read the arguments of a command. *)
LEMMA StartReading ==
  ASSUME NEW line \in Seq(Lexeme), NEW c \in Commands, Upto(line, Space) = <<c>>
  PROVE  Reads(line, c, After(line, Space), <<>>)
<1>1. Space \in Separator
  BY LexemeFacts
<1>2. Begins(line, c)
  BY CommandBegins
<1>3. After(line, Space) \in Seq(Lexeme)
  BY <1>1, PiecesType
<1>4. <<>> \in Seq(Seq(Number)) /\ Len(<<>>) = 0
  OBVIOUS
<1>5. 0 <= Len(Signature[c]) /\ 0 < Len(Signature[c])
  <2>1. PICK n \in {2, 4} : n = Len(Signature[c])
    BY SignatureFacts
  <2>2. 0 <= n /\ 0 < n
    OBVIOUS
  <2> QED BY <2>1, <2>2
<1>6. Located(line, c, After(line, Space), 0)
  <2>1. SpacesBefore(line, 1) = {}
    BY DEF SpacesBefore
  <2>2. WordAt(line, 1) = 1
    BY <2>1, SpacesFinite, FS_EmptySet
  <2>3. 1 <= WordCount(line)
    <3>1. PICK e \in Nat : e = Len(line) + 1 /\ 1 <= e
      OBVIOUS
    <3>2. WordAt(line, 1) <= WordAt(line, e)
      BY <3>1, LaterWord
    <3> QED BY <2>2, <3>1, <3>2 DEF WordCount
  <2>4. WordAt(line, 1) = Place(line, 1)
    BY <2>2, <2>3 DEF Place
  <2>5. line = SubSeq(line, 1, Len(line)) /\ 1 \in 1..(Len(line) + 1)
    OBVIOUS
  <2>6. PICK r \in 1..(Len(line) + 1) :
           /\ IsRest(line, r, After(line, Space))
           /\ WordAt(line, 1) = Place(line, 1) => WordAt(line, r) = Place(line, 1 + 1)
    BY <2>5, OneWordOn
  <2> QED BY <2>4, <2>6 DEF Located
<1>7. FoundThere(line, c, <<>>)
  BY <1>4 DEF FoundThere
<1>8. Understood(line, c, After(line, Space), <<>>)
  <2>1. ASSUME NEW m \in Requests, line = TypedCommand(m)
        PROVE  c = m.operation /\ After(line, Space) = Bare(m.arguments[1]) \o Later(m, 1)
    <3>1. <<c>> = <<m.operation>>
      BY <2>1, TypedBegins
    <3> QED BY <2>1, <3>1, TypedBegins
  <2>2. 0 + 1 = 1
    OBVIOUS
  <2> QED BY <1>4, <2>1, <2>2 DEF Understood
<1> QED BY <1>2, <1>3, <1>4, <1>5, <1>6, <1>7, <1>8 DEF Reads

LEMMA LexemesOfConcat ==
  ASSUME NEW s \in Seq(Lexeme), NEW t \in Seq(Lexeme)
  PROVE  Lexemes(s \o t) \subseteq Lexemes(s) \cup Lexemes(t)
<1>1. \A i \in 1..(Len(s) + Len(t)) : i \notin 1..Len(s) => i - Len(s) \in 1..Len(t) /\ i = Len(s) + (i - Len(s))
  OBVIOUS
<1>2. \A i \in 1..Len(s \o t) : (s \o t)[i] \in Lexemes(s) \cup Lexemes(t)
  BY <1>1, ConcatFacts DEF Lexemes
<1> QED BY <1>2 DEF Lexemes

LEMMA LexemesOfFive ==
  ASSUME NEW S, NEW x1 \in S, NEW x2 \in S, NEW x3 \in S, NEW x4 \in S, NEW x5 \in S
  PROVE  Lexemes(<<x1, x2, x3, x4, x5>>) \subseteq S
<1>1. <<x1, x2, x3, x4, x5>> \in Seq(S)
  OBVIOUS
<1>2. ASSUME NEW s \in Seq(S) PROVE Lexemes(s) \subseteq S
  BY DEF Lexemes
<1> QED BY <1>1, <1>2

(* The numbers that ReadInt and ReadDateTime find are on the line. *)
LEMMA NumbersFacts ==
  ASSUME NEW s \in Seq(Lexeme), NEW kind \in {"int", "datetime"}, NEW found,
         found = Numbers(kind, s), \A i \in DOMAIN found : found[i] # Throws
  PROVE  found \in Seq(Number) /\ Lexemes(found) \subseteq Lexemes(s)
<1>1. /\ Space \in Separator /\ Slash \in Separator /\ Colon \in Separator
      /\ <<Space>> \in Seq(Lexeme) /\ Len(<<Space>>) = 1 /\ <<Space>>[1] = Space
  BY LexemeFacts, One
<1>2. CASE kind = "int"
  <2>1. PICK t \in Seq(Lexeme) : t = Upto(s, Space) /\ Lexemes(t) \subseteq Lexemes(s)
    BY <1>1, PiecesType
  <2>2. PICK x : x = Stoi[t] /\ found = <<x>>
    BY <1>2, <2>1 DEF Numbers
  <2>3. x # Throws
    BY <2>2
  <2>4. x \in Number /\ x \in Lexemes(s)
    BY <2>1, <2>2, <2>3, StoiFacts
  <2> QED BY <2>2, <2>4 DEF Lexemes
<1>3. CASE kind = "datetime"
  <2>1. PICK d \in Seq(Lexeme) : d = Upto(s, Space) /\ Lexemes(d) \subseteq Lexemes(s)
    BY <1>1, PiecesType
  <2>2. PICK a \in Seq(Lexeme) : a = After(s, Space) /\ Lexemes(a) \subseteq Lexemes(s)
    BY <1>1, PiecesType
  <2>3. PICK t \in Seq(Lexeme) : t = Upto(a, Space) /\ Lexemes(t) \subseteq Lexemes(a)
    BY <1>1, PiecesType
  <2>4. PICK b \in Seq(Lexeme) : b = d \o <<Space>> /\ Lexemes(b) \subseteq Lexemes(s) \cup {Space}
    <3>1. Lexemes(d \o <<Space>>) \subseteq Lexemes(d) \cup {Space}
      BY <1>1, LexemesOfConcat DEF Lexemes
    <3> QED BY <1>1, <2>1, <3>1, ConcatFacts
  <2>5. PICK u \in Seq(Lexeme) : u = b \o t /\ Lexemes(u) \subseteq Lexemes(s) \cup {Space}
    <3>1. Lexemes(b \o t) \subseteq Lexemes(b) \cup Lexemes(t)
      BY LexemesOfConcat
    <3> QED BY <2>2, <2>3, <2>4, <3>1, ConcatFacts
  <2>6. found = ParseDateTime(u)
    BY <1>3, <2>1, <2>2, <2>3, <2>4, <2>5 DEF Numbers
  <2>7. PICK u1 \in Seq(Lexeme), u2 \in Seq(Lexeme), u3 \in Seq(Lexeme) :
          /\ u1 = After(u, Slash) /\ u2 = After(u1, Slash) /\ u3 = After(u2, Space)
          /\ Lexemes(u1) \subseteq Lexemes(u) /\ Lexemes(u2) \subseteq Lexemes(u)
          /\ Lexemes(u3) \subseteq Lexemes(u)
    <3>1. PICK u1 \in Seq(Lexeme) : u1 = After(u, Slash) /\ Lexemes(u1) \subseteq Lexemes(u)
      BY <1>1, PiecesType
    <3>2. PICK u2 \in Seq(Lexeme) : u2 = After(u1, Slash) /\ Lexemes(u2) \subseteq Lexemes(u1)
      BY <1>1, PiecesType
    <3>3. PICK u3 \in Seq(Lexeme) : u3 = After(u2, Space) /\ Lexemes(u3) \subseteq Lexemes(u2)
      BY <1>1, PiecesType
    <3> QED BY <3>1, <3>2, <3>3
  <2>8. PICK x1, x2, x3, x4, x5 :
          /\ x1 = Stoi[Upto(u, Slash)] /\ x2 = Stoi[Upto(u1, Slash)] /\ x3 = Stoi[Upto(u2, Space)]
          /\ x4 = Stoi[Upto(u3, Colon)] /\ x5 = Stoi[After(u3, Colon)]
    OBVIOUS
  <2>9. found = <<x1, x2, x3, x4, x5>>
    BY <2>6, <2>7, <2>8 DEF ParseDateTime
  <2>10. x1 # Throws /\ x2 # Throws /\ x3 # Throws /\ x4 # Throws /\ x5 # Throws
    BY <2>9
  <2>11. \A v \in Seq(Lexeme) : \A x : x = Stoi[v] /\ x # Throws => x \in Number /\ x \in Lexemes(v)
    BY StoiFacts
  <2>12. x1 \in Number /\ x1 \in Lexemes(u)
    <3>1. Upto(u, Slash) \in Seq(Lexeme) /\ Lexemes(Upto(u, Slash)) \subseteq Lexemes(u)
      BY <1>1, PiecesType
    <3> QED BY <2>8, <2>10, <2>11, <3>1
  <2>13. x2 \in Number /\ x2 \in Lexemes(u)
    <3>1. Upto(u1, Slash) \in Seq(Lexeme) /\ Lexemes(Upto(u1, Slash)) \subseteq Lexemes(u1)
      BY <1>1, PiecesType
    <3> QED BY <2>7, <2>8, <2>10, <2>11, <3>1
  <2>14. x3 \in Number /\ x3 \in Lexemes(u)
    <3>1. Upto(u2, Space) \in Seq(Lexeme) /\ Lexemes(Upto(u2, Space)) \subseteq Lexemes(u2)
      BY <1>1, PiecesType
    <3> QED BY <2>7, <2>8, <2>10, <2>11, <3>1
  <2>15. x4 \in Number /\ x4 \in Lexemes(u)
    <3>1. Upto(u3, Colon) \in Seq(Lexeme) /\ Lexemes(Upto(u3, Colon)) \subseteq Lexemes(u3)
      BY <1>1, PiecesType
    <3> QED BY <2>7, <2>8, <2>10, <2>11, <3>1
  <2>16. x5 \in Number /\ x5 \in Lexemes(u)
    <3>1. After(u3, Colon) \in Seq(Lexeme) /\ Lexemes(After(u3, Colon)) \subseteq Lexemes(u3)
      BY <1>1, PiecesType
    <3> QED BY <2>7, <2>8, <2>10, <2>11, <3>1
  <2>17. \A x \in Number : x \in Lexemes(u) => x \in Lexemes(s)
    BY <1>1, <2>5, LexemeFacts
  <2>18. x1 \in Lexemes(s) /\ x2 \in Lexemes(s) /\ x3 \in Lexemes(s) /\ x4 \in Lexemes(s) /\ x5 \in Lexemes(s)
    BY <2>12, <2>13, <2>14, <2>15, <2>16, <2>17
  <2>19. found \in Seq(Number)
    BY <2>9, <2>12, <2>13, <2>14, <2>15, <2>16
  <2>20. Lexemes(found) \subseteq Lexemes(s)
    BY <2>9, <2>18, LexemesOfFive
  <2> QED BY <2>19, <2>20
<1> QED BY <1>2, <1>3

(* An argument of a line as the README has it is read as it was meant, and *)
(* leaves the next.                                                        *)
LEMMA ReadAsMeant ==
  ASSUME NEW m \in Requests, NEW k \in 1..Len(m.arguments), NEW kind,
         kind = Signature[m.operation][k],
         NEW rest, rest = Bare(m.arguments[k]) \o Later(m, k)
  PROVE  /\ Numbers(kind, rest) = m.arguments[k]
         /\ k < Len(m.arguments) =>
               Rest(kind, rest) = Bare(m.arguments[k + 1]) \o Later(m, k + 1)
<1>1. PICK n \in Seq(Number) : n = m.arguments[k] /\ Len(n) = IF kind = "int" THEN 1 ELSE 5
  BY RequestFacts
<1>2. kind \in {"int", "datetime"}
  <2>1. k \in 1..Len(Signature[m.operation]) /\ m.operation \in Commands
    BY RequestFacts
  <2> QED BY <2>1, SignatureFacts
<1>3. k \in Nat /\ k + 1 \in Nat \ {0} /\ (k < Len(m.arguments) => k + 1 <= Len(m.arguments))
      /\ (~(k < Len(m.arguments)) => k >= Len(m.arguments))
  <2>1. PICK l \in {2, 4} : l = Len(m.arguments)
    BY RequestLength
  <2> QED BY <2>1
<1>4. CASE k < Len(m.arguments)
  <2>1. Bare(m.arguments[k + 1]) \in Seq(Lexeme) /\ Later(m, k + 1) \in Seq(Lexeme)
    <3>1. PICK j \in Nat \ {0} : j = k + 1
      BY <1>3
    <3> QED BY <1>3, <1>4, <3>1, WrittenFacts, LaterFacts
  <2>2. PICK r \in Seq(Lexeme) : r = Bare(m.arguments[k + 1]) \o Later(m, k + 1)
    BY <2>1, ConcatFacts
  <2>3. Later(m, k) = <<Space>> \o r
    BY <1>3, <1>4, <2>2, LaterFacts
  <2>4. rest = Bare(n) \o (<<Space>> \o r)
    BY <1>1, <2>3
  <2>5. CASE kind = "int"
    <3>1. Numbers("int", Bare(n) \o (<<Space>> \o r)) = n /\ Rest("int", Bare(n) \o (<<Space>> \o r)) = r
      BY <1>1, <2>5, ReadInt
    <3> QED BY <1>1, <2>2, <2>4, <2>5, <3>1
  <2>6. CASE kind = "datetime"
    <3>1. /\ Numbers("datetime", Bare(n) \o (<<Space>> \o r)) = n
          /\ Rest("datetime", Bare(n) \o (<<Space>> \o r)) = r
      BY <1>1, <2>6, ReadDateTime
    <3> QED BY <1>1, <2>2, <2>4, <2>6, <3>1
  <2> QED BY <1>2, <2>5, <2>6
<1>5. CASE ~(k < Len(m.arguments))
  <2>1. Later(m, k) = <<>>
    BY <1>3, <1>5, LaterFacts
  <2>2. Bare(n) \in Seq(Lexeme)
    BY <1>1, <1>2, BareOfInt, BareOfDateTime
  <2>3. rest = Bare(n)
    BY <1>1, <2>1, <2>2
  <2>4. <<>> \in Seq(Lexeme)
    OBVIOUS
  <2>5. CASE kind = "int"
    BY <1>1, <1>5, <2>3, <2>4, <2>5, ReadInt
  <2>6. CASE kind = "datetime"
    BY <1>1, <1>5, <2>3, <2>4, <2>6, ReadDateTime
  <2> QED BY <1>2, <2>5, <2>6
<1> QED BY <1>4, <1>5

(* What is left stays in its place. *)
LEMMA StaysLocated ==
  ASSUME NEW line \in Seq(Lexeme), NEW c \in Commands, NEW rest, NEW k \in Nat,
         Located(line, c, rest, k), k < Len(Signature[c])
  PROVE  Located(line, c, Rest(Signature[c][k + 1], rest), k + 1)
<1>1. PICK q \in 1..(Len(line) + 1) :
        IsRest(line, q, rest) /\ (OnlyInts(c, k) => WordAt(line, q) = Place(line, k + 2))
  BY DEF Located
<1>2. rest = SubSeq(line, q, Len(line)) /\ (q = 1 \/ line[q - 1] = Space)
  BY <1>1 DEF IsRest
<1>3. PICK k2 \in Int : k2 = k + 2
  OBVIOUS
<1>4. PICK r \in 1..(Len(line) + 1) :
        /\ IsRest(line, r, After(rest, Space))
        /\ WordAt(line, q) = Place(line, k2) => WordAt(line, r) = Place(line, k2 + 1)
  BY <1>2, OneWordOn
<1>5. PICK n \in {2, 4} : n = Len(Signature[c])
  BY SignatureFacts
<1>6. k + 1 \in 1..n
  BY <1>5
<1>7. Signature[c][k + 1] \in {"int", "datetime"}
  BY <1>5, <1>6, SignatureFacts
<1>8. CASE Signature[c][k + 1] = "int"
  <2>1. OnlyInts(c, k + 1) => OnlyInts(c, k)
    BY DEF OnlyInts
  <2>2. k2 + 1 = (k + 1) + 2
    BY <1>3
  <2>3. OnlyInts(c, k + 1) => WordAt(line, r) = Place(line, (k + 1) + 2)
    BY <1>1, <1>3, <1>4, <2>1, <2>2
  <2> QED BY <1>4, <1>8, <2>3 DEF Located, Rest
<1>9. CASE Signature[c][k + 1] = "datetime"
  <2>1. ~OnlyInts(c, k + 1)
    <3>1. k + 1 \in 1..(k + 1)
      OBVIOUS
    <3> QED BY <1>9, <3>1 DEF OnlyInts
  <2>2. PICK a : a = After(rest, Space)
    OBVIOUS
  <2>3. a = SubSeq(line, r, Len(line)) /\ (r = 1 \/ line[r - 1] = Space)
    BY <1>4, <2>2 DEF IsRest
  <2>4. PICK t \in 1..(Len(line) + 1) : IsRest(line, t, After(a, Space))
    BY <1>3, <2>3, OneWordOn
  <2> QED BY <1>9, <2>1, <2>2, <2>4 DEF Located, Rest
<1> QED BY <1>7, <1>8, <1>9

(* An airport is what the word in its place begins with. *)
LEMMA AirportAtItsPlace ==
  ASSUME NEW line \in Seq(Lexeme), NEW c \in Commands, Begins(line, c),
         NEW rest, NEW k \in Nat, Located(line, c, rest, k), OnlyInts(c, k),
         Stoi[Upto(rest, Space)] # Throws
  PROVE  BeginsWord(line, (k + 1) + 1, Stoi[Upto(rest, Space)])
<1>1. PICK q \in 1..(Len(line) + 1) : IsRest(line, q, rest) /\ WordAt(line, q) = Place(line, k + 2)
  BY DEF Located
<1>2. rest = SubSeq(line, q, Len(line)) /\ (q = 1 \/ line[q - 1] = Space)
  BY <1>1 DEF IsRest
<1>3. q \in 1..Len(line) /\ line[q] = Stoi[Upto(rest, Space)] /\ line[q] \in Number
  BY <1>2, NumberBeginsRest
<1>4. q # 1
  <2>1. line[1] = c
    BY DEF Begins
  <2> QED BY <2>1, <1>3, NumberAssumption
<1>5. q \in 2..Len(line) /\ line[q - 1] = Space /\ k + 2 = (k + 1) + 1
  BY <1>2, <1>3, <1>4
<1> QED BY <1>1, <1>3, <1>5 DEF BeginsWord, Place

(* One more argument is read. *)
LEMMA KeepsReading ==
  ASSUME NEW line \in Seq(Lexeme), NEW c, NEW rest, NEW args,
         Reads(line, c, rest, args), Len(args) < Len(Signature[c]),
         NEW kind, kind = Signature[c][Len(args) + 1],
         NEW found, found = Numbers(kind, rest), \A i \in DOMAIN found : found[i] # Throws
  PROVE  Reads(line, c, Rest(kind, rest), Append(args, found))
<1>1. /\ c \in Commands /\ Begins(line, c) /\ rest \in Seq(Lexeme) /\ args \in Seq(Seq(Number))
      /\ Located(line, c, rest, Len(args)) /\ FoundThere(line, c, args)
      /\ Understood(line, c, rest, args)
  BY DEF Reads
<1>2. PICK k \in Nat : k = Len(args)
  BY <1>1
<1>3. PICK n \in {2, 4} : n = Len(Signature[c])
  BY <1>1, SignatureFacts
<1>4. k < n /\ k + 1 \in 1..n /\ k + 1 <= n
  BY <1>2, <1>3
<1>5. kind \in {"int", "datetime"} /\ kind = Signature[c][k + 1]
  BY <1>1, <1>2, <1>3, <1>4, SignatureFacts
<1>6. found \in Seq(Number) /\ Lexemes(found) \subseteq Lexemes(rest)
  BY <1>1, <1>5, NumbersFacts
<1>7. PICK more : more = Append(args, found)
  OBVIOUS
<1>8. /\ more \in Seq(Seq(Number)) /\ Len(more) = k + 1 /\ more[k + 1] = found
      /\ \A i \in 1..k : more[i] = args[i]
  BY <1>1, <1>2, <1>6, <1>7
<1>9. PICK q \in 1..(Len(line) + 1) : rest = SubSeq(line, q, Len(line))
  BY <1>1 DEF Located, IsRest
<1>10. Lexemes(rest) \subseteq Lexemes(line)
  <2>1. Len(rest) = Len(line) - q + 1 /\ \A i \in 1..(Len(line) - q + 1) : rest[i] = line[q + i - 1]
    BY <1>9, RestFacts
  <2>2. \A i \in 1..(Len(line) - q + 1) : q + i - 1 \in 1..Len(line)
    OBVIOUS
  <2> QED BY <2>1, <2>2 DEF Lexemes
<1>11. Rest(kind, rest) \in Seq(Lexeme)
  <2>1. Space \in Separator
    BY LexemeFacts
  <2>2. PICK a \in Seq(Lexeme) : a = After(rest, Space)
    BY <1>1, <2>1, PiecesType
  <2>3. After(a, Space) \in Seq(Lexeme)
    BY <2>1, PiecesType
  <2> QED BY <2>2, <2>3 DEF Rest
<1>12. Located(line, c, Rest(kind, rest), k + 1)
  BY <1>1, <1>2, <1>3, <1>4, <1>5, StaysLocated
<1>13. FoundThere(line, c, more)
  <2>1. ASSUME NEW i \in 1..(k + 1)
        PROVE  /\ Lexemes(more[i]) \subseteq Lexemes(line)
               /\ Signature[c][i] = "int" => BeginsWord(line, i + 1, more[i][1])
    <3>1. CASE i \in 1..k
      BY <1>1, <1>2, <1>8, <3>1 DEF FoundThere
    <3>2. CASE i = k + 1
      <4>1. Lexemes(more[i]) \subseteq Lexemes(line)
        BY <1>6, <1>8, <1>10, <3>2
      <4>2. ASSUME Signature[c][k + 1] = "int" PROVE BeginsWord(line, (k + 1) + 1, found[1])
        <5>1. PICK x : x = Stoi[Upto(rest, Space)] /\ found = <<x>>
          BY <1>5, <4>2 DEF Numbers
        <5>2. x # Throws /\ found[1] = x
          BY <5>1
        <5>3. OnlyInts(c, k)
          <6>1. \A j \in 1..(k + 1) : Signature[c][j] = "int"
            BY <1>1, <1>3, <1>4, <4>2, SignatureFacts
          <6> QED BY <6>1 DEF OnlyInts
        <5> QED BY <1>1, <1>2, <5>1, <5>2, <5>3, AirportAtItsPlace
      <4> QED BY <1>8, <3>2, <4>1, <4>2
    <3> QED BY <3>1, <3>2
  <2> QED BY <1>8, <2>1 DEF FoundThere
<1>14. Understood(line, c, Rest(kind, rest), more)
  <2>1. SUFFICES ASSUME NEW m \in Requests, line = TypedCommand(m)
                 PROVE  /\ c = m.operation
                        /\ \A i \in 1..(k + 1) : more[i] = m.arguments[i]
                        /\ k + 1 < n =>
                             Rest(kind, rest) = Bare(m.arguments[(k + 1) + 1]) \o Later(m, (k + 1) + 1)
    BY <1>3, <1>8 DEF Understood
  <2>2. /\ c = m.operation /\ \A i \in 1..k : args[i] = m.arguments[i]
        /\ rest = Bare(m.arguments[k + 1]) \o Later(m, k + 1)
    BY <1>1, <1>2, <1>3, <1>4, <2>1 DEF Understood
  <2>3. n = Len(m.arguments)
    BY <1>3, <2>2, RequestFacts
  <2>4. PICK j \in 1..Len(m.arguments) : j = k + 1
    BY <1>4, <2>3
  <2>5. /\ Numbers(kind, rest) = m.arguments[j]
        /\ j < Len(m.arguments) => Rest(kind, rest) = Bare(m.arguments[j + 1]) \o Later(m, j + 1)
    <3>1. kind = Signature[m.operation][j] /\ rest = Bare(m.arguments[j]) \o Later(m, j)
      BY <1>5, <2>2, <2>4, Zenon
    <3> QED BY ONLY <3>1, ReadAsMeant, m \in Requests, j \in 1..Len(m.arguments)
  <2>6. \A i \in 1..(k + 1) : more[i] = m.arguments[i]
    <3>1. \A i \in 1..(k + 1) : i \in 1..k \/ i = k + 1
      OBVIOUS
    <3> QED BY <1>8, <2>2, <2>4, <2>5, <3>1
  <2> QED BY <2>2, <2>3, <2>4, <2>5, <2>6
<1> QED BY <1>1, <1>3, <1>4, <1>7, <1>8, <1>11, <1>12, <1>13, <1>14 DEF Reads

(* No number of a line as the README has it throws. *)
LEMMA NothingThrown ==
  ASSUME NEW line \in Seq(Lexeme), NEW c, NEW rest, NEW args,
         Reads(line, c, rest, args), Len(args) < Len(Signature[c]),
         NEW kind, kind = Signature[c][Len(args) + 1],
         NEW m \in Requests, line = TypedCommand(m)
  PROVE  \A i \in DOMAIN Numbers(kind, rest) : Numbers(kind, rest)[i] # Throws
<1>1. /\ c \in Commands /\ args \in Seq(Seq(Number)) /\ Understood(line, c, rest, args)
  BY DEF Reads
<1>2. PICK k \in Nat : k = Len(args)
  BY <1>1
<1>3. PICK n \in {2, 4} : n = Len(Signature[c])
  BY <1>1, SignatureFacts
<1>4. k + 1 \in 1..n
  BY <1>2, <1>3
<1>5. c = m.operation /\ rest = Bare(m.arguments[k + 1]) \o Later(m, k + 1)
  BY <1>1, <1>2, <1>3 DEF Understood
<1>6. PICK j \in 1..Len(m.arguments) : j = k + 1
  BY <1>3, <1>4, <1>5, RequestFacts
<1>7. Numbers(kind, rest) = m.arguments[j]
  <2>1. kind = Signature[m.operation][j]
    BY <1>2, <1>5, <1>6
  <2>2. rest = Bare(m.arguments[j]) \o Later(m, j)
    BY <1>5, <1>6
  <2> QED BY ONLY <2>1, <2>2, ReadAsMeant, m \in Requests, j \in 1..Len(m.arguments)
<1>8. m.arguments[j] \in Seq(Number)
  BY RequestFacts
<1>9. \A x \in Number : x # Throws
  BY NumberAssumption
<1>10. PICK s \in Seq(Number) : s = m.arguments[j]
  BY <1>8
<1>11. \A i \in DOMAIN s : s[i] # Throws
  BY <1>9
<1> QED BY <1>7, <1>10, <1>11

(* With all arguments read, the call is the right one. *)
LEMMA AllRead ==
  ASSUME NEW line \in Seq(Lexeme), NEW c, NEW rest, NEW args,
         Reads(line, c, rest, args), ~(Len(args) < Len(Signature[c]))
  PROVE  Right(line, [operation |-> c, arguments |-> args])
<1> DEFINE call == [operation |-> c, arguments |-> args]
<1>1. /\ c \in Commands /\ Begins(line, c) /\ args \in Seq(Seq(Number)) /\ Len(args) <= Len(Signature[c])
      /\ FoundThere(line, c, args) /\ Understood(line, c, rest, args)
  BY DEF Reads
<1>2. Len(args) = Len(Signature[c])
  <2>1. PICK n \in {2, 4} : n = Len(Signature[c])
    BY <1>1, SignatureFacts
  <2>2. PICK k \in Nat : k = Len(args)
    BY <1>1
  <2> QED BY <1>1, <2>1, <2>2
<1>3. ASSUME NEW i \in DOMAIN args
      PROVE  /\ \A j \in DOMAIN args[i] : \E e \in DOMAIN line : line[e] = args[i][j]
             /\ Signature[c][i] = "int" => BeginsWord(line, i + 1, args[i][1])
  <2>1. i \in 1..Len(args) /\ args[i] \in Seq(Number)
    BY <1>1
  <2>2. Lexemes(args[i]) \subseteq Lexemes(line) /\ (Signature[c][i] = "int" => BeginsWord(line, i + 1, args[i][1]))
    BY <1>1, <2>1 DEF FoundThere
  <2>3. DOMAIN args[i] = 1..Len(args[i]) /\ DOMAIN line = 1..Len(line)
    BY <2>1
  <2> QED BY <2>2, <2>3 DEF Lexemes
<1>4. ASSUME NEW m \in Requests, line = TypedCommand(m) PROVE call = m
  <2>1. c = m.operation /\ \A i \in 1..Len(args) : args[i] = m.arguments[i]
    BY <1>1, <1>4 DEF Understood
  <2>2. m.arguments \in Seq(Seq(Number)) /\ Len(m.arguments) = Len(args)
    BY <1>2, <2>1, RequestFacts
  <2>3. args = m.arguments
    BY <1>1, <2>1, <2>2, SeqEqual
  <2> QED BY <2>1, <2>3, RequestFacts
<1>5. call.operation = c /\ call.arguments = args
  OBVIOUS
<1> HIDE DEF call
<1>6. Right(line, call)
  BY <1>1, <1>3, <1>4, <1>5 DEF Right
<1> QED BY <1>6 DEF call

-----------------------------------------------------------------------------
(* The steps *)

(* The answers that are there stay as they are. *)
LEMMA AnswerAdded ==
  ASSUME LoopInv, NEW kind, NEW call, Answer(kind, call), UNCHANGED input,
         [said |-> kind, call |-> call] \in Answers,
         Right(Line(Len(printed) + 1), call), read' = Len(printed) + 1
  PROVE  LoopInv'
<1>1. input \in Inputs /\ read \in Nat /\ printed \in Seq(Answers)
      /\ \A k \in 1..Len(printed) : Right(Line(k), printed[k].call)
  BY DEF LoopInv
<1>2. PICK a \in Answers : a = [said |-> kind, call |-> call]
  OBVIOUS
<1>3. a.call = call
  BY <1>2
<1>4. PICK n \in Nat : n = Len(printed)
  BY <1>1
<1>5. printed' = Append(printed, a)
  BY <1>2 DEF Answer
<1>6. /\ printed' \in Seq(Answers) /\ Len(printed') = n + 1 /\ printed'[n + 1] = a
      /\ \A k \in 1..n : printed'[k] = printed[k]
  BY <1>1, <1>4, <1>5
<1>7. \A k : Line(k)' = Line(k)
  BY DEF Line
<1>8. \A k \in 1..(n + 1) : Right(Line(k)', printed'[k].call)
  <2>1. ASSUME NEW k \in 1..(n + 1) PROVE Right(Line(k)', printed'[k].call)
    <3>1. CASE k \in 1..n
      BY <1>1, <1>4, <1>6, <1>7, <3>1
    <3>2. CASE k = n + 1
      BY <1>3, <1>4, <1>6, <1>7, <3>2
    <3> QED BY <3>1, <3>2
  <2> QED BY <2>1
<1>9. phase' # "reading" /\ read' \in Nat /\ input' \in Inputs /\ Len(printed') = read'
  BY <1>1, <1>4, <1>6 DEF Answer
<1>10. \A k \in 1..Len(printed') : Right(Line(k)', printed'[k].call)
  BY <1>6, <1>8
<1> QED BY <1>6, <1>9, <1>10 DEF LoopInv

LEMMA ReadLineKeeps == ASSUME LoopInv, ReadLine PROVE LoopInv'
<1>1. /\ input \in Inputs /\ read \in Nat /\ printed \in Seq(Answers) /\ Len(printed) = read
      /\ \A k \in 1..Len(printed) : Right(Line(k), printed[k].call)
  BY DEF LoopInv, ReadLine
<1>2. input' = input /\ read' = read + 1 /\ read' = Len(printed) + 1 /\ read' \in Nat \ {0}
      /\ arguments' = <<>>
  <2>1. input' = input /\ read' = read + 1 /\ arguments' = <<>>
    BY DEF ReadLine
  <2> QED BY <1>1, <2>1
<1>3. PICK line \in Seq(Lexeme) :
        /\ line = Line(Len(printed) + 1) /\ line = Line(read)'
        /\ operation' = Upto(line, Space) /\ query' = After(line, Space)
  <2>1. Line(read') \in Seq(Lexeme)
    <3>1. PICK k \in Nat \ {0} : k = read'
      BY <1>2
    <3> QED BY <1>1, <3>1, LineType
  <2>2. Line(read)' = Line(read')
    BY <1>2 DEF Line
  <2>3. operation' = Upto(Line(read'), Space) /\ query' = After(Line(read'), Space)
    BY DEF ReadLine
  <2> QED BY <1>2, <2>1, <2>2, <2>3
<1>4. ASSUME ~(\E c \in Commands : operation' = <<c>>) PROVE Right(line, NoCall)
  <2>1. ASSUME NEW m \in Requests, line = TypedCommand(m) PROVE FALSE
    <3>1. operation' = <<m.operation>> /\ m.operation \in Commands
      BY <1>3, <2>1, TypedBegins, RequestFacts
    <3> QED BY <1>4, <3>1
  <2> QED BY <2>1 DEF Right
<1>5. CASE \E c \in Commands : operation' = <<c>>
  <2>1. PICK c \in Commands : operation' = <<c>>
    BY <1>5
  <2>2. phase' = "reading" /\ printed' = printed
    <3>1. operation' # <<"exit">> /\ operation' # <<>>
      BY <2>1, SignatureFacts
    <3>2. (CASE operation' = <<"exit">> -> phase' = "left" /\ UNCHANGED printed
            [] \E d \in Commands : operation' = <<d>> -> phase' = "reading" /\ UNCHANGED printed
            [] operation' = <<>> -> Answer("nothing", NoCall)
            [] OTHER -> Answer("unknown operation", NoCall))
      BY DEF ReadLine
    <3>3. PICK B \in BOOLEAN : B <=> \E d \in Commands : operation' = <<d>>
      OBVIOUS
    <3>4. (CASE operation' = <<"exit">> -> phase' = "left" /\ UNCHANGED printed
            [] B -> phase' = "reading" /\ UNCHANGED printed
            [] operation' = <<>> -> Answer("nothing", NoCall)
            [] OTHER -> Answer("unknown operation", NoCall))
      BY <3>2, <3>3
    <3> QED BY <1>5, <3>1, <3>3, <3>4
  <2>3. Reads(line, c, query', arguments')
    BY <1>2, <1>3, <2>1, StartReading
  <2>4. \A k : Line(k)' = Line(k)
    BY <1>2 DEF Line
  <2>5. \A k \in 1..Len(printed') : Right(Line(k)', printed'[k].call)
    BY <1>1, <2>2, <2>4
  <2>6. Reads(Line(read)', c, query', arguments')
    BY <1>3, <2>3
  <2> QED BY <1>1, <1>2, <2>1, <2>2, <2>5, <2>6 DEF LoopInv
<1>6. CASE ~(\E c \in Commands : operation' = <<c>>)
  <2>1. \/ phase' = "left" /\ printed' = printed
        \/ Answer("nothing", NoCall)
        \/ Answer("unknown operation", NoCall)
    BY <1>6 DEF ReadLine
  <2>2. CASE phase' = "left" /\ printed' = printed
    <3>1. \A k : Line(k)' = Line(k)
      BY <1>2 DEF Line
    <3>2. \A k \in 1..Len(printed') : Right(Line(k)', printed'[k].call)
      BY <1>1, <2>2, <3>1
    <3> QED BY <1>1, <1>2, <2>2, <3>2 DEF LoopInv
  <2>3. ASSUME NEW kind \in {"nothing", "unknown operation"}, Answer(kind, NoCall) PROVE LoopInv'
    <3>1. [said |-> kind, call |-> NoCall] \in Answers
      BY DEF Answers
    <3>2. Right(Line(Len(printed) + 1), NoCall)
      BY <1>3, <1>4, <1>6
    <3> QED BY <1>2, <2>3, <3>1, <3>2, AnswerAdded
  <2> QED BY <2>1, <2>2, <2>3
<1> QED BY <1>5, <1>6

(* What holds while the arguments of a command are read. *)
LEMMA WhileReading ==
  ASSUME LoopInv, phase = "reading"
  PROVE  /\ Command \in Commands /\ read = Len(printed) + 1 /\ Line(read) \in Seq(Lexeme)
         /\ Reads(Line(read), Command, query, arguments)
<1>1. PICK c \in Commands : operation = <<c>> /\ Reads(Line(read), c, query, arguments)
  BY DEF LoopInv
<1>2. Command = c
  BY <1>1 DEF Command
<1>3. read = Len(printed) + 1 /\ read \in Nat \ {0} /\ input \in Inputs
  BY DEF LoopInv
<1> QED BY <1>1, <1>2, <1>3, LineType

LEMMA ReadArgumentKeeps == ASSUME LoopInv, ReadArgument PROVE LoopInv'
<1>1. /\ phase = "reading" /\ Len(arguments) < Len(Signature[Command])
      /\ UNCHANGED <<input, read, operation>>
  BY DEF ReadArgument, Missing
<1>2. /\ Command \in Commands /\ read = Len(printed) + 1 /\ Line(read) \in Seq(Lexeme)
      /\ Reads(Line(read), Command, query, arguments)
  BY <1>1, WhileReading
<1>3. PICK c \in Commands, line \in Seq(Lexeme) :
        c = Command /\ line = Line(read) /\ Reads(line, c, query, arguments)
  BY <1>2
<1>4. PICK kind : kind = Signature[c][Len(arguments) + 1]
  OBVIOUS
<1>5. PICK found : found = Numbers(kind, query)
  OBVIOUS
<1>6. /\ query' = Rest(kind, query)
      /\ IF \E i \in DOMAIN found : found[i] = Throws
         THEN Catch(NoCall) /\ UNCHANGED arguments
         ELSE arguments' = Append(arguments, found) /\ UNCHANGED <<phase, printed>>
  BY <1>3, <1>4, <1>5 DEF ReadArgument
<1>7. \A k : Line(k)' = Line(k)
  BY <1>1 DEF Line
<1>8. CASE \E i \in DOMAIN found : found[i] = Throws
  <2>1. Answer("error", NoCall)
    BY <1>6, <1>8 DEF Catch
  <2>2. [said |-> "error", call |-> NoCall] \in Answers
    BY DEF Answers
  <2>3. ASSUME NEW m \in Requests, line = TypedCommand(m) PROVE FALSE
    <3>1. \A i \in DOMAIN Numbers(kind, query) : Numbers(kind, query)[i] # Throws
      BY <1>1, <1>3, <1>4, <2>3, NothingThrown
    <3> QED BY <1>5, <1>8, <3>1
  <2>4. Right(Line(Len(printed) + 1), NoCall)
    BY <1>2, <1>3, <2>3 DEF Right
  <2> QED BY <1>1, <1>2, <2>1, <2>2, <2>4, AnswerAdded
<1>9. CASE \A i \in DOMAIN found : found[i] # Throws
  <2>1. arguments' = Append(arguments, found) /\ phase' = phase /\ printed' = printed
    BY <1>6, <1>9
  <2>2. Reads(line, c, query', arguments')
    BY <1>1, <1>3, <1>4, <1>5, <1>6, <1>9, <2>1, KeepsReading
  <2>3. operation' = <<c>>
    BY <1>1, <1>3 DEF LoopInv, Command
  <2>4. Reads(Line(read)', c, query', arguments')
    <3>1. Line(read)' = line
      BY <1>1, <1>3 DEF Line
    <3> QED BY <2>2, <3>1
  <2>5. \A k \in 1..Len(printed') : Right(Line(k)', printed'[k].call)
    BY <1>7, <2>1 DEF LoopInv
  <2> QED BY <1>1, <2>1, <2>3, <2>4, <2>5 DEF LoopInv
<1> QED BY <1>8, <1>9

LEMMA CallPlannerKeeps == ASSUME LoopInv, CallPlanner PROVE LoopInv'
<1>1. /\ phase = "reading" /\ ~(Len(arguments) < Len(Signature[Command]))
      /\ UNCHANGED <<input, read, query, operation, arguments>>
  BY DEF CallPlanner, Missing
<1>2. /\ Command \in Commands /\ read = Len(printed) + 1 /\ Line(read) \in Seq(Lexeme)
      /\ Reads(Line(read), Command, query, arguments)
  BY <1>1, WhileReading
<1>3. Right(Line(Len(printed) + 1), Call)
  BY <1>1, <1>2, AllRead DEF Call
<1>4. PICK kind \in {"error", "airports", "paths", "no path"} : Answer(kind, Call)
  BY DEF CallPlanner, Catch
<1>5. Call \in [operation : Commands, arguments : Seq(Seq(Number))]
  BY <1>2 DEF Call, Reads
<1>6. [said |-> kind, call |-> Call] \in Answers
  BY <1>5 DEF Answers
<1> QED BY <1>1, <1>2, <1>3, <1>4, <1>6, AnswerAdded

LEMMA PrintEmptyPathKeeps == ASSUME LoopInv, PrintEmptyPath PROVE LoopInv'
<1>1. UNCHANGED <<input, read, printed>> /\ phase' = "undefined"
  BY DEF PrintEmptyPath
<1>2. \A k : Line(k)' = Line(k)
  BY <1>1 DEF Line
<1> QED BY <1>1, <1>2 DEF LoopInv

LEMMA LoopInvHolds == Spec => []LoopInv
<1>1. Init => LoopInv
  <2>1. ASSUME Init PROVE printed \in Seq(Answers) /\ Len(printed) = 0
    BY <2>1 DEF Init
  <2> QED BY <2>1 DEF Init, LoopInv
<1>2. ASSUME LoopInv, [Next]_vars PROVE LoopInv'
  <2>1. CASE UNCHANGED vars
    <3>1. \A k : Line(k)' = Line(k)
      BY <2>1 DEF vars, Line
    <3>2. Line(read)' = Line(read)
      BY <2>1 DEF vars, Line
    <3> QED BY <1>2, <2>1, <3>1, <3>2 DEF LoopInv, vars
  <2> QED BY <1>2, <2>1, ReadLineKeeps, ReadArgumentKeeps, CallPlannerKeeps, PrintEmptyPathKeeps DEF Next
<1> QED BY <1>1, <1>2, PTL DEF Spec

(* What is called is what was typed, whatever is typed. *)
THEOREM CallsAsTyped == Spec => []RunsWhatWasTyped
<1>1. LoopInv => RunsWhatWasTyped
  BY DEF LoopInv, Right, RunsWhatWasTyped
<1> QED BY <1>1, LoopInvHolds, PTL

-----------------------------------------------------------------------------
(* No line is skipped *)

(* The lines answered hold no exit.  The loop goes on only while there are *)
(* lines, and is left at the first exit or after the last line.            *)
OrderInv ==
  /\ \A k \in 1..Len(printed) : ~Begins(Line(k), "exit")
  /\ phase = "prompt" => read < LineCount
  /\ phase = "reading" => read <= LineCount
  /\ phase = "left" =>
       \/ Len(printed) = LineCount
       \/ Len(printed) < LineCount /\ Begins(Line(Len(printed) + 1), "exit")

LEMMA LineCountType == ASSUME input \in Inputs PROVE LineCount \in Nat \ {0}
<1>1. input.lines \in Seq(Seq(Lexeme))
  BY InputAssumption
<1>2. PICK n \in Nat : n = Len(input.lines) /\ (input.lines # <<>> => n # 0)
  BY <1>1
<1>3. CASE input.terminated \/ input.lines = <<>>
  <2>1. LineCount = n + 1
    BY <1>2, <1>3 DEF LineCount
  <2> QED BY <2>1
<1>4. CASE ~(input.terminated \/ input.lines = <<>>)
  <2>1. LineCount = n + 0 /\ n # 0
    BY <1>2, <1>4 DEF LineCount
  <2> QED BY <2>1
<1> QED BY <1>3, <1>4

LEMMA SameInput ==
  ASSUME UNCHANGED input PROVE LineCount' = LineCount /\ \A k : Line(k)' = Line(k)
BY DEF LineCount, Line

(* A line begins with exit just if ReadToken takes exit off it. *)
LEMMA ExitTaken ==
  ASSUME NEW line \in Seq(Lexeme), Begins(line, "exit") PROVE Upto(line, Space) = <<"exit">>
<1>1. Space \in Separator
  BY LexemeFacts
<1>2. line[1] = "exit" /\ line # <<>> /\ (Len(line) = 1 \/ line[2] = Space)
  BY DEF Begins
<1>3. Len(line) \in Nat /\ Len(line) > 0 /\ "exit" # Space /\ line[1] \in Lexeme
  <2>1. PICK n \in Nat : n = Len(line) /\ (n = 0 => line = <<>>)
    OBVIOUS
  <2>2. n > 0
    BY <1>2, <2>1
  <2>3. 1 \in 1..n
    BY <2>2
  <2>4. "exit" # Space
    BY DEF Space
  <2> QED BY <2>1, <2>2, <2>3, <2>4
<1>4. CASE Len(line) = 1
  <2>1. Lacks(line, Space)
    BY <1>2, <1>3, <1>4 DEF Lacks
  <2>2. Upto(line, Space) = line
    BY <1>1, <2>1, FindNone
  <2>3. line = <<line[1]>>
    BY <1>4
  <2> QED BY <1>2, <2>2, <2>3
<1>5. CASE Len(line) # 1
  <2>1. FirstAt(line, Space, 2)
    <3>1. 2 \in 1..Len(line) /\ \A i \in 1..(2 - 1) : i = 1
      BY <1>3, <1>5
    <3> QED BY <1>2, <1>3, <1>5, <3>1 DEF FirstAt
  <2>2. Upto(line, Space) = SubSeq(line, 1, 2 - 1)
    BY <1>1, <2>1, FindAt
  <2>3. SubSeq(line, 1, 1) = <<line[1]>>
    <3>1. PICK x \in Lexeme : x = line[1]
      BY <1>3
    <3>2. SubSeq(line, 1, 1) \in Seq(Lexeme) /\ Len(SubSeq(line, 1, 1)) = 1 /\ SubSeq(line, 1, 1)[1] = x
      BY <1>3, <3>1
    <3>3. <<x>> \in Seq(Lexeme) /\ Len(<<x>>) = 1 /\ <<x>>[1] = x
      BY One
    <3>4. PICK u \in Seq(Lexeme), v \in Seq(Lexeme) : u = SubSeq(line, 1, 1) /\ v = <<x>>
      BY <3>2, <3>3
    <3>5. Len(u) = 1 /\ Len(v) = 1 /\ u[1] = v[1] /\ \A i \in 1..1 : i = 1
      BY <3>2, <3>3, <3>4
    <3>6. u = v
      BY <3>5, SameElements
    <3> QED BY <3>1, <3>4, <3>6
  <2> QED BY <1>2, <2>2, <2>3
<1> QED BY <1>4, <1>5

LEMMA AnswerInOrder ==
  ASSUME LoopInv, OrderInv, NEW kind, NEW call, Answer(kind, call), UNCHANGED input,
         read' = Len(printed) + 1, read' <= LineCount, ~Begins(Line(Len(printed) + 1), "exit")
  PROVE  OrderInv'
<1>1. PICK n \in Nat : n = Len(printed)
  BY DEF LoopInv
<1>2. Len(printed') = n + 1
  BY <1>1 DEF Answer, LoopInv
<1>3. PICK c \in Nat : c = LineCount
  BY LineCountType DEF LoopInv
<1>4. LineCount' = c /\ \A k : Line(k)' = Line(k)
  BY <1>3, SameInput
<1>5. \A k \in 1..(n + 1) : ~Begins(Line(k)', "exit")
  <2>1. \A k \in 1..(n + 1) : k \in 1..n \/ k = n + 1
    OBVIOUS
  <2> QED BY <1>1, <1>4, <2>1 DEF OrderInv
<1>6. read' = n + 1 /\ n + 1 <= c /\ phase' = IF read' = c THEN "left" ELSE "prompt"
  BY <1>1, <1>3, <1>4 DEF Answer
<1>7. /\ phase' = "left" => n + 1 = c
      /\ phase' = "prompt" => n + 1 < c
      /\ phase' # "reading"
  BY <1>6
<1> QED BY <1>2, <1>4, <1>5, <1>6, <1>7 DEF OrderInv

LEMMA ExitFirst ==
  ASSUME ReadLine, operation' = <<"exit">> PROVE phase' = "left" /\ printed' = printed
<1>1. (CASE operation' = <<"exit">> -> phase' = "left" /\ UNCHANGED printed
         [] \E c \in Commands : operation' = <<c>> -> phase' = "reading" /\ UNCHANGED printed
         [] operation' = <<>> -> Answer("nothing", NoCall)
         [] OTHER -> Answer("unknown operation", NoCall))
  BY DEF ReadLine
<1>2. ~(\E c \in Commands : operation' = <<c>>) /\ operation' # <<>>
  BY SignatureFacts
<1> QED BY <1>1, <1>2

LEMMA OrderStep == ASSUME LoopInv, OrderInv, [Next]_vars PROVE OrderInv'
<1>0. input \in Inputs
  BY DEF LoopInv
<1>1. PICK n \in Nat, c \in Nat : n = Len(printed) /\ c = LineCount
  BY LineCountType DEF LoopInv
<1>2. ASSUME ReadLine PROVE OrderInv'
  <2>0. phase = "prompt" /\ read' = read + 1 /\ UNCHANGED input
    BY <1>2 DEF ReadLine
  <2>1. read = n /\ n < c /\ read' = n + 1 /\ n + 1 <= c /\ UNCHANGED input
    BY <1>1, <2>0 DEF LoopInv, OrderInv
  <2>2. PICK k \in Nat \ {0} : k = n + 1
    OBVIOUS
  <2>3. Line(k) \in Seq(Lexeme) /\ operation' = Upto(Line(k), Space)
    BY <1>0, <1>2, <2>1, <2>2, LineType DEF ReadLine
  <2>4. LineCount' = c /\ \A j : Line(j)' = Line(j)
    BY <1>1, <2>1, SameInput
  <2>5. CASE operation' = <<"exit">>
    <3>1. Begins(Line(k), "exit")
      BY <2>3, <2>5, CommandBegins
    <3>2. phase' = "left" /\ printed' = printed
      BY <1>2, <2>5, ExitFirst
    <3> QED BY <1>1, <2>1, <2>2, <2>4, <3>1, <3>2 DEF OrderInv
  <2>6. CASE operation' # <<"exit">>
    <3>1. ~Begins(Line(k), "exit")
      BY <2>3, <2>6, ExitTaken
    <3>2. \/ phase' = "reading" /\ printed' = printed
          \/ Answer("nothing", NoCall)
          \/ Answer("unknown operation", NoCall)
      BY <1>2, <2>6 DEF ReadLine
    <3>3. CASE phase' = "reading" /\ printed' = printed
      BY <1>1, <2>1, <2>4, <3>3 DEF OrderInv
    <3>4. ASSUME NEW kind, Answer(kind, NoCall) PROVE OrderInv'
      BY <1>1, <2>1, <2>2, <3>1, <3>4, AnswerInOrder
    <3> QED BY <3>2, <3>3, <3>4
  <2> QED BY <2>5, <2>6
<1>3. ASSUME phase = "reading", NEW kind, NEW call, Answer(kind, call), UNCHANGED <<input, read>>
      PROVE  OrderInv'
  <2>1. read = n + 1 /\ read <= c
    BY <1>1, <1>3 DEF LoopInv, OrderInv
  <2>2. Command \in Commands /\ Begins(Line(read), Command)
    BY <1>3, WhileReading DEF Reads
  <2>3. ~Begins(Line(read), "exit")
    BY <2>2, SignatureFacts DEF Begins
  <2> QED BY <1>1, <1>3, <2>1, <2>3, AnswerInOrder
<1>4. ASSUME ReadArgument PROVE OrderInv'
  <2>1. phase = "reading" /\ UNCHANGED <<input, read>>
    BY <1>4 DEF ReadArgument
  <2>2. Answer("error", NoCall) \/ UNCHANGED <<phase, printed>>
    BY <1>4 DEF ReadArgument, Catch
  <2>3. LineCount' = LineCount /\ \A j : Line(j)' = Line(j)
    BY <2>1, SameInput
  <2>4. CASE UNCHANGED <<phase, printed>>
    BY <2>1, <2>3, <2>4 DEF OrderInv
  <2> QED BY <1>3, <2>1, <2>2, <2>4
<1>5. ASSUME CallPlanner PROVE OrderInv'
  <2>1. phase = "reading" /\ UNCHANGED <<input, read>> /\ \E kind : Answer(kind, Call)
    BY <1>5 DEF CallPlanner, Catch
  <2> QED BY <1>3, <2>1
<1>6. ASSUME PrintEmptyPath PROVE OrderInv'
  <2>1. UNCHANGED <<input, read, printed>> /\ phase' = "undefined"
    BY <1>6 DEF PrintEmptyPath
  <2>2. \A j : Line(j)' = Line(j)
    BY <2>1, SameInput
  <2> QED BY <2>1, <2>2 DEF OrderInv
<1>7. CASE UNCHANGED vars
  <2>1. UNCHANGED <<input, read, printed, phase>>
    BY <1>7 DEF vars
  <2>2. LineCount' = LineCount /\ \A j : Line(j)' = Line(j)
    BY <2>1, SameInput
  <2> QED BY <2>1, <2>2 DEF OrderInv
<1> QED BY <1>2, <1>4, <1>5, <1>6, <1>7 DEF Next

(* The loop is left after every line before the first exit was answered,   *)
(* one after another, errors notwithstanding: what EveryLineAnswered says  *)
(* of the end of the loop, without that the end is reached.                *)
THEOREM NoLineSkipped == Spec => [](phase = "left" => Len(printed) = Due)
<1>1. Init => OrderInv
  <2>1. ASSUME Init PROVE 0 < LineCount /\ Len(printed) = 0
    <3>1. PICK c \in Nat \ {0} : c = LineCount
      BY <2>1, LineCountType DEF Init
    <3> QED BY <2>1, <3>1 DEF Init
  <2> QED BY <2>1 DEF Init, OrderInv
<1>2. LoopInv /\ OrderInv => (phase = "left" => Len(printed) = Due)
  <2> SUFFICES ASSUME LoopInv, OrderInv, phase = "left" PROVE Len(printed) = Due
    OBVIOUS
  <2> DEFINE exits == {k \in 1..LineCount : Begins(Line(k), "exit")}
  <2>1. PICK n \in Nat, c \in Nat : n = Len(printed) /\ c = LineCount
    BY LineCountType DEF LoopInv
  <2>2. CASE n = c
    <3>1. exits = {}
      BY <2>1, <2>2 DEF OrderInv
    <3> QED BY <2>1, <2>2, <3>1 DEF Due
  <2>3. CASE n < c /\ Begins(Line(n + 1), "exit")
    <3>1. PICK p \in Nat : p = n + 1
      OBVIOUS
    <3>2. p \in exits /\ exits \subseteq Nat
      BY <2>1, <2>3, <3>1
    <3>3. \A j \in exits : p <= j
      <4>1. \A j \in exits : j \in Nat /\ j \notin 1..n /\ j # 0
        BY <2>1 DEF OrderInv
      <4>2. \A j \in Nat : j \notin 1..n /\ j # 0 => p <= j
        BY <3>1
      <4> HIDE DEF exits
      <4> QED BY <4>1, <4>2
    <3>4. First(exits) = p
      <4> HIDE DEF exits
      <4> QED BY <3>2, <3>3, FirstFacts
    <3>5. Due = p - 1
      BY <3>2, <3>4 DEF Due
    <3> QED BY <2>1, <3>1, <3>5
  <2> QED BY <2>1, <2>2, <2>3 DEF OrderInv
<1>3. LoopInv /\ OrderInv /\ [Next]_vars => OrderInv'
  BY OrderStep
<1> QED BY <1>1, <1>2, <1>3, LoopInvHolds, PTL DEF Spec
=============================================================================
