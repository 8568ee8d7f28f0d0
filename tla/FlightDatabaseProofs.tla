------------------------ MODULE FlightDatabaseProofs ------------------------
(***************************************************************************)
(* Theorems about FlightDatabase, for every data file, every set of        *)
(* flights and every size of memory: what is loaded is the content of the  *)
(* file, and the lookups on the finished indices give the graph that       *)
(* FlightGraph defines.                                                    *)
(***************************************************************************)
EXTENDS FlightDatabase, FiniteSetTheorems, SequenceTheorems, TLAPS

-----------------------------------------------------------------------------
(* Containers of ids *)

IndexType(c, lo, hi) ==
  /\ c = [min |-> lo, max |-> hi, elements |-> c.elements, datetimes |-> c.datetimes]
  /\ c.elements \in [lo..hi -> Seq(Nat)] /\ c.datetimes \in [lo..hi -> Seq(Time)]
  /\ \A a \in lo..hi : Len(c.elements[a]) = Len(c.datetimes[a])

LEMMA ContainerEffect ==
  ASSUME NEW lo \in Int, NEW hi \in Int
  PROVE  /\ IndexType(Container(lo, hi), lo, hi)
         /\ \A a \in lo..hi : Container(lo, hi).elements[a] = <<>>
BY DEF IndexType, Container

(* Add enters the id at the end of the airport's vector, its time at the   *)
(* same place, and touches no other airport.                               *)
Entered(d, c, lo, hi, a, e) ==
  /\ IndexType(d, lo, hi)
  /\ d.elements[a] = Append(c.elements[a], e)
  /\ \A b \in lo..hi : b # a => d.elements[b] = c.elements[b]

LEMMA AddedEffect ==
  ASSUME NEW lo \in Int, NEW hi \in Int, NEW c, IndexType(c, lo, hi),
         NEW a \in lo..hi, NEW t \in Time, NEW e \in Nat
  PROVE  Entered(Added(c, a, t, e), c, lo, hi, a, e)
<1> DEFINE d == Added(c, a, t, e)
<1>1. /\ d = [min |-> lo, max |-> hi, elements |-> d.elements, datetimes |-> d.datetimes]
      /\ d.elements = [c.elements EXCEPT ![a] = Append(@, e)]
      /\ d.datetimes = [c.datetimes EXCEPT ![a] = Append(@, t)]
  <2> DEFINE E == c.elements  D == c.datetimes
  <2>1. c = [min |-> lo, max |-> hi, elements |-> E, datetimes |-> D]
    BY DEF IndexType
  <2>2. d = [c EXCEPT !.elements[a] = Append(@, e), !.datetimes[a] = Append(@, t)]
    BY DEF Added
  <2> HIDE DEF d, E, D
  <2>3. d = [min |-> lo, max |-> hi, elements |-> [E EXCEPT ![a] = Append(@, e)],
             datetimes |-> [D EXCEPT ![a] = Append(@, t)]]
    BY <2>1, <2>2
  <2> QED BY <2>3 DEF E, D
<1>2. /\ c.elements \in [lo..hi -> Seq(Nat)] /\ c.datetimes \in [lo..hi -> Seq(Time)]
      /\ \A b \in lo..hi : Len(c.elements[b]) = Len(c.datetimes[b])
  BY DEF IndexType
<1> HIDE DEF d
<1>3. /\ d.elements[a] = Append(c.elements[a], e) /\ d.datetimes[a] = Append(c.datetimes[a], t)
      /\ \A b \in lo..hi : b # a => d.elements[b] = c.elements[b] /\ d.datetimes[b] = c.datetimes[b]
  BY <1>1, <1>2
<1>4. /\ Append(c.elements[a], e) \in Seq(Nat) /\ Append(c.datetimes[a], t) \in Seq(Time)
      /\ Len(Append(c.elements[a], e)) = Len(c.elements[a]) + 1
      /\ Len(Append(c.datetimes[a], t)) = Len(c.datetimes[a]) + 1
  BY <1>2, AppendProperties
<1>5. d.elements \in [lo..hi -> Seq(Nat)] /\ d.datetimes \in [lo..hi -> Seq(Time)]
  BY <1>1, <1>2, <1>4
<1>6. \A b \in lo..hi : Len(d.elements[b]) = Len(d.datetimes[b])
  BY <1>2, <1>3, <1>4
<1>7. IndexType(d, lo, hi)
  BY <1>1, <1>5, <1>6 DEF IndexType
<1> QED BY <1>3, <1>7 DEF Entered, d

(* Sort rearranges the vectors of one airport.                             *)
Permuted(c, d, a, p, lo, hi) ==
  /\ IndexType(d, lo, hi)
  /\ Len(d.elements[a]) = Len(c.elements[a])
  /\ \A i \in 1..Len(c.elements[a]) : d.elements[a][i] = c.elements[a][p[i]]
  /\ \A b \in lo..hi : b # a => d.elements[b] = c.elements[b]

LEMMA RearrangedEffect ==
  ASSUME NEW lo \in Int, NEW hi \in Int, NEW c, IndexType(c, lo, hi),
         NEW a \in lo..hi, NEW p \in Arrangements(Len(c.elements[a]))
  PROVE  Permuted(c, Rearranged(c, a, p), a, p, lo, hi)
<1> DEFINE d == Rearranged(c, a, p)
           s == c.elements[a]  t == c.datetimes[a]  n == Len(s)
           u == [i \in 1..n |-> s[p[i]]]  w == [i \in 1..n |-> t[p[i]]]
<1>1. /\ c.elements \in [lo..hi -> Seq(Nat)] /\ c.datetimes \in [lo..hi -> Seq(Time)]
      /\ \A b \in lo..hi : Len(c.elements[b]) = Len(c.datetimes[b])
  BY DEF IndexType
<1>2. Len(t) = n /\ n \in Nat /\ s \in Seq(Nat) /\ t \in Seq(Time)
  BY <1>1
<1>3. /\ d = [min |-> lo, max |-> hi, elements |-> d.elements, datetimes |-> d.datetimes]
      /\ d.elements = [c.elements EXCEPT ![a] = [i \in 1..Len(@) |-> @[p[i]]]]
      /\ d.datetimes = [c.datetimes EXCEPT ![a] = [i \in 1..Len(@) |-> @[p[i]]]]
  <2> DEFINE E == c.elements  D == c.datetimes
  <2>1. c = [min |-> lo, max |-> hi, elements |-> E, datetimes |-> D]
    BY DEF IndexType
  <2>2. d = [c EXCEPT !.elements[a] = [i \in 1..Len(@) |-> @[p[i]]],
                      !.datetimes[a] = [i \in 1..Len(@) |-> @[p[i]]]]
    BY DEF Rearranged
  <2> HIDE DEF d, E, D
  <2>3. d = [min |-> lo, max |-> hi,
             elements |-> [E EXCEPT ![a] = [i \in 1..Len(@) |-> @[p[i]]]],
             datetimes |-> [D EXCEPT ![a] = [i \in 1..Len(@) |-> @[p[i]]]]]
    BY <2>1, <2>2
  <2> QED BY <2>3 DEF E, D
<1>4. d.elements[a] = u /\ d.datetimes[a] = w
  <2>1. d.elements[a] = [i \in 1..Len(s) |-> s[p[i]]]
    BY <1>1, <1>3
  <2>2. d.datetimes[a] = [i \in 1..Len(t) |-> t[p[i]]]
    BY <1>1, <1>3
  <2> QED BY <1>2, <2>1, <2>2
<1>5. \A b \in lo..hi : b # a => d.elements[b] = c.elements[b] /\ d.datetimes[b] = c.datetimes[b]
  BY <1>1, <1>3
<1>6. p \in [1..n -> 1..n]
  BY DEF Arrangements
<1>7. u \in Seq(Nat) /\ w \in Seq(Time) /\ Len(u) = n /\ Len(w) = n
  <2>1. Len(s) = n
    OBVIOUS
  <2>2. u = [i \in 1..n |-> s[p[i]]] /\ w = [i \in 1..n |-> t[p[i]]]
    OBVIOUS
  <2> HIDE DEF n, s, t, u, w
  <2>3. \A i \in 1..n : s[p[i]] \in Nat /\ t[p[i]] \in Time
    <3> SUFFICES ASSUME NEW i \in 1..n PROVE s[p[i]] \in Nat /\ t[p[i]] \in Time
      OBVIOUS
    <3>1. p[i] \in 1..n
      BY <1>6
    <3>2. s[p[i]] \in Nat
      BY <1>2, <2>1, <3>1, ElementOfSeq
    <3>3. t[p[i]] \in Time
      BY <1>2, <3>1, ElementOfSeq
    <3> QED BY <3>2, <3>3
  <2> QED BY <1>2, <2>2, <2>3
<1>8. DOMAIN d.elements = lo..hi /\ DOMAIN d.datetimes = lo..hi
  BY <1>1, <1>3
<1> HIDE DEF d, s, t, n, u, w
<1>9. d.elements \in [lo..hi -> Seq(Nat)] /\ d.datetimes \in [lo..hi -> Seq(Time)]
  <2>1. \A b \in lo..hi : d.elements[b] \in Seq(Nat) /\ d.datetimes[b] \in Seq(Time)
    BY <1>1, <1>4, <1>5, <1>7
  <2>2. d.elements = [b \in lo..hi |-> d.elements[b]] /\ d.datetimes = [b \in lo..hi |-> d.datetimes[b]]
    BY <1>1, <1>3, <1>8
  <2> QED BY <2>1, <2>2
<1>10. \A b \in lo..hi : Len(d.elements[b]) = Len(d.datetimes[b])
  BY <1>1, <1>4, <1>5, <1>7
<1>11. IndexType(d, lo, hi)
  BY <1>3, <1>9, <1>10 DEF IndexType
<1>12. \A i \in 1..n : u[i] = s[p[i]]
  BY DEF u
<1> QED BY <1>4, <1>5, <1>7, <1>11, <1>12 DEF Permuted, d, s, n

-----------------------------------------------------------------------------
(* Types, and the range of airports *)

Indexing == {"index", "sort from", "sort to", "ready", "undefined"}

Basics ==
  /\ file \in Files /\ phase \in Phases
  /\ rest \in Seq(Line) /\ good \in BOOLEAN /\ line \in Line
  /\ records \in Seq(Entry)
  /\ cursor \in Int
  /\ file = NoFile => phase \in {"open", "terminated"}

(* From the time it is computed, the range holds the airports of every     *)
(* record, is no larger than need be, and is that of the two indices.      *)
RangeKnown ==
  /\ range \in AirportBounds /\ range.min <= range.max
  /\ \A a \in AirportsIn(records) : range.min <= a /\ a <= range.max
  /\ records # <<>> => {range.min, range.max} \subseteq AirportsIn(records)
  /\ IndexType(from_index, range.min, range.max)
  /\ IndexType(to_index, range.min, range.max)

RangeInv ==
  /\ phase \in Indexing => RangeKnown
  /\ phase \notin Indexing => range = NoRange /\ cursor = 1
  /\ phase = "index" => cursor \in 1..Len(records) + 1
  /\ phase \in {"sort from", "sort to"} => cursor \in range.min..range.max

LEMMA FileType ==
  ASSUME Basics, file # NoFile
  PROVE  /\ file \in File /\ file.lines \in Seq(Line) /\ file.terminated \in BOOLEAN
         /\ ~file.terminated => file.lines # <<>> /\ file.lines[Len(file.lines)] # Blank
BY FilesAssumption DEF Basics, File

LEMMA RecordType ==
  ASSUME NEW f \in Flight
  PROVE  /\ record[f].airport_from \in Airport /\ record[f].airport_to \in Airport
         /\ record[f].datetime_from \in Time /\ record[f].datetime_to \in Time
         /\ record[f].airport_from \in Int /\ record[f].airport_to \in Int
         /\ record[f].datetime_from \in Int /\ record[f].datetime_to \in Int
BY RecordAssumption, DomainAssumption

LEMMA EntryType ==
  ASSUME records \in Seq(Entry), NEW p \in 1..Len(records)
  PROVE  records[p] \in Entry /\ records[p].id \in Nat /\ records[p].flight \in Flight
<1>1. records[p] \in Entry
  BY ElementOfSeq
<1> QED BY <1>1 DEF Entry

LEMMA AirportsType ==
  ASSUME records \in Seq(Entry)
  PROVE  /\ AirportsIn(records) \subseteq Airport /\ AirportsIn(records) \subseteq Int
         /\ \A p \in 1..Len(records) : /\ record[records[p].flight].airport_from \in AirportsIn(records)
                                       /\ record[records[p].flight].airport_to \in AirportsIn(records)
         /\ records # <<>> => AirportsIn(records) # {}
<1>1. \A p \in 1..Len(records) :
        {record[records[p].flight].airport_from, record[records[p].flight].airport_to} \subseteq Airport
  BY EntryType, RecordType
<1>2. AirportsIn(records) \subseteq Airport
  BY <1>1 DEF AirportsIn
<1>3. \A p \in 1..Len(records) : /\ record[records[p].flight].airport_from \in AirportsIn(records)
                                 /\ record[records[p].flight].airport_to \in AirportsIn(records)
  BY DEF AirportsIn
<1>4. ASSUME records # <<>> PROVE AirportsIn(records) # {}
  <2>1. Len(records) \in Nat /\ Len(records) # 0
    BY <1>4, EmptySeq
  <2>2. 1 \in 1..Len(records)
    BY <2>1
  <2> QED BY <1>3, <2>2
<1> QED BY <1>2, <1>3, <1>4, DomainAssumption

LEMMA GetLineType ==
  ASSUME rest \in Seq(Line), good \in BOOLEAN, line \in Line, file # NoFile, Basics, GetLine
  PROVE  rest' \in Seq(Line) /\ good' \in BOOLEAN /\ line' \in Line
<1>1. CASE ~good
  BY <1>1 DEF GetLine, stream
<1>2. CASE good /\ rest = <<>>
  BY <1>2 DEF GetLine, Line
<1>3. CASE good /\ rest # <<>>
  <2>1. Head(rest) \in Line /\ Tail(rest) \in Seq(Line)
    BY <1>3
  <2>2. Len(rest) \in Nat
    OBVIOUS
  <2> QED BY <1>3, <2>1, <2>2, FileType DEF GetLine
<1> QED BY <1>1, <1>2, <1>3

LEMMA TypeLoad ==
  ASSUME Basics, RangeInv, OpenFile \/ ReadHeader \/ LoadLine \/ MemoryExhausted
  PROVE  Basics' /\ RangeInv'
<1>1. RangeInv'
  <2>1. phase \notin Indexing /\ phase' \notin Indexing
    BY DEF OpenFile, ReadHeader, LoadLine, MemoryExhausted, Indexing
  <2>2. UNCHANGED <<range, cursor>>
    BY DEF OpenFile, ReadHeader, LoadLine, MemoryExhausted
  <2>3. phase' # "index" /\ phase' \notin {"sort from", "sort to"}
    BY <2>1 DEF Indexing
  <2> QED BY <2>1, <2>2, <2>3 DEF RangeInv
<1> SUFFICES Basics'
  BY <1>1
<1>2. CASE OpenFile
  BY <1>2, FileType DEF Basics, OpenFile, Phases, File
<1>3. CASE ReadHeader
  <2>1. rest' \in Seq(Line) /\ good' \in BOOLEAN /\ line' \in Line
    BY <1>3, GetLineType DEF Basics, ReadHeader
  <2> QED BY <1>3, <2>1 DEF Basics, ReadHeader, Phases
<1>4. CASE LoadLine
  <2>1. rest' \in Seq(Line) /\ good' \in BOOLEAN /\ line' \in Line
    BY <1>4, GetLineType DEF Basics, LoadLine
  <2>2. records' \in Seq(Entry) /\ phase' \in Phases
    <3>1. CASE line' = Blank
      BY <1>4, <3>1 DEF LoadLine, Basics, Phases
    <3>2. CASE line' = Garbled
      BY <1>4, <3>2, LineAssumption DEF LoadLine, Basics, Phases
    <3>3. CASE line' # Blank /\ line' # Garbled
      <4>1. records' = Append(records, line') /\ phase' = phase
        BY <1>4, <3>3 DEF LoadLine
      <4>2. line' \in Entry
        BY <2>1, <3>3 DEF Line
      <4> QED BY <4>1, <4>2, AppendProperties DEF Basics
    <3> QED BY <3>1, <3>2, <3>3
  <2>3. file # NoFile /\ UNCHANGED <<file, cursor>>
    BY <1>4 DEF Basics, LoadLine
  <2> QED BY <2>1, <2>2, <2>3 DEF Basics
<1>5. CASE MemoryExhausted
  <2>1. rest' \in Seq(Line) /\ good' \in BOOLEAN /\ line' \in Line
    BY <1>5, GetLineType DEF Basics, MemoryExhausted
  <2> QED BY <1>5, <2>1 DEF Basics, MemoryExhausted, Phases
<1> QED BY <1>1, <1>2, <1>3, <1>4, <1>5

LEMMA TypeInitRange ==
  ASSUME Basics, RangeInv, InitAirportRange
  PROVE  Basics' /\ RangeInv'
<1>1. records \in Seq(Entry) /\ records' = records /\ cursor = 1 /\ cursor' = cursor /\ phase' = "index"
  BY DEF Basics, RangeInv, InitAirportRange, Indexing
<1>2. range' \in AirportBounds /\ range'.min <= range'.max
  <2>1. range' \in AirportBounds /\ range'.min \in Int /\ range'.max \in Int
    BY DomainAssumption DEF InitAirportRange, AirportRange, AirportBounds
  <2>2. range'.min = range'.max \/ (range'.min \in AirportsIn(records) /\ range'.max \in AirportsIn(records)
                                    /\ \A a \in AirportsIn(records) : range'.min <= a /\ a <= range'.max)
    BY DEF InitAirportRange, AirportRange
  <2> QED BY <2>1, <2>2
<1>3. \A a \in AirportsIn(records) : range'.min <= a /\ a <= range'.max
  BY DEF InitAirportRange, AirportRange
<1>4. records # <<>> => {range'.min, range'.max} \subseteq AirportsIn(records)
  BY <1>1, AirportsType DEF InitAirportRange, AirportRange
<1>5. range'.min \in Int /\ range'.max \in Int
  BY <1>2, DomainAssumption DEF AirportBounds
<1>6. /\ IndexType(from_index', range'.min, range'.max)
      /\ IndexType(to_index', range'.min, range'.max)
  BY <1>5, ContainerEffect DEF InitAirportRange
<1>7. AirportsIn(records') = AirportsIn(records)
  BY <1>1
<1>8. RangeKnown'
  <2>1. IndexType(from_index, range.min, range.max)' /\ IndexType(to_index, range.min, range.max)'
    BY <1>6 DEF IndexType
  <2> QED BY <1>1, <1>2, <1>3, <1>4, <1>7, <2>1 DEF RangeKnown
<1>9. Len(records) \in Nat
  BY <1>1
<1>10. RangeInv'
  <2>1. cursor' \in 1..Len(records) + 1 /\ Len(records') = Len(records)
    BY <1>1, <1>9
  <2> QED BY <1>1, <1>8, <2>1 DEF RangeInv, Indexing
<1>11. Basics'
  BY DEF Basics, InitAirportRange, Phases, stream
<1> QED BY <1>10, <1>11

(* A step that moves only the cursor and the phase, or the indices too.    *)
LEMMA RangeKept ==
  ASSUME Basics, RangeInv, phase \in Indexing, UNCHANGED <<records, range>>,
         IndexType(from_index', range.min, range.max),
         IndexType(to_index', range.min, range.max)
  PROVE  RangeKnown'
<1>1. RangeKnown
  BY DEF RangeInv
<1>2. IndexType(from_index, range.min, range.max)' /\ IndexType(to_index, range.min, range.max)'
  BY DEF IndexType
<1>3. AirportsIn(records') = AirportsIn(records)
  OBVIOUS
<1> QED BY <1>1, <1>2, <1>3 DEF RangeKnown

LEMMA IndexTypes ==
  ASSUME Basics, RangeInv, phase \in Indexing
  PROVE  /\ range.min \in Int /\ range.max \in Int /\ range.min <= range.max
         /\ IndexType(from_index, range.min, range.max)
         /\ IndexType(to_index, range.min, range.max)
BY DomainAssumption DEF RangeInv, RangeKnown, AirportBounds

(* The record that IndexRecord enters, and where.                          *)
LEMMA IndexedRecord ==
  ASSUME Basics, RangeInv, IndexRecord
  PROVE  /\ cursor \in 1..Len(records) /\ records[cursor].id \in Nat
         /\ record[records[cursor].flight].airport_from \in range.min..range.max
         /\ record[records[cursor].flight].airport_to \in range.min..range.max
         /\ record[records[cursor].flight].datetime_from \in Time
         /\ record[records[cursor].flight].datetime_to \in Time
<1>1. records \in Seq(Entry) /\ cursor \in 1..Len(records)
  BY DEF Basics, RangeInv, IndexRecord
<1>2. records[cursor].id \in Nat /\ records[cursor].flight \in Flight
  BY <1>1, EntryType
<1>3. RangeKnown /\ range.min \in Int /\ range.max \in Int
  BY IndexTypes DEF IndexRecord, Indexing, RangeInv
<1>4. /\ record[records[cursor].flight].airport_from \in AirportsIn(records)
      /\ record[records[cursor].flight].airport_to \in AirportsIn(records)
  BY <1>1, AirportsType
<1> QED BY <1>1, <1>2, <1>3, <1>4, RecordType DEF RangeKnown

LEMMA TypeIndexRecord ==
  ASSUME Basics, RangeInv, IndexRecord
  PROVE  Basics' /\ RangeInv'
<1>1. phase \in Indexing /\ phase = "index" /\ phase' = phase
  BY DEF IndexRecord, Indexing
<1> DEFINE r == records[cursor]
<1>2. /\ IndexType(Added(from_index, record[r.flight].airport_from,
                         record[r.flight].datetime_from, r.id), range.min, range.max)
      /\ IndexType(Added(to_index, record[r.flight].airport_to,
                         record[r.flight].datetime_to, r.id), range.min, range.max)
  BY <1>1, IndexTypes, IndexedRecord, AddedEffect DEF Entered
<1>3. /\ from_index' = Added(from_index, record[r.flight].airport_from,
                             record[r.flight].datetime_from, r.id)
      /\ to_index' = Added(to_index, record[r.flight].airport_to,
                           record[r.flight].datetime_to, r.id)
      /\ UNCHANGED <<records, range>>
  BY DEF IndexRecord, ArrivalEntered
<1> HIDE DEF r
<1>4. RangeKnown'
  BY <1>1, <1>2, <1>3, RangeKept
<1>5. cursor \in 1..Len(records) /\ Len(records) \in Nat
  BY IndexedRecord DEF Basics
<1>6. cursor' \in Int /\ cursor' \in 1..Len(records') + 1
  BY <1>3, <1>5 DEF IndexRecord
<1>7. RangeInv'
  BY <1>1, <1>4, <1>6 DEF RangeInv, Indexing
<1>8. Basics'
  BY <1>1, <1>3, <1>6 DEF Basics, IndexRecord, stream
<1> QED BY <1>7, <1>8

LEMMA CursorMoves ==
  ASSUME NEW lo \in Int, NEW hi \in Int, NEW c \in lo..hi
  PROVE  /\ lo \in lo..hi /\ lo \in Int
         /\ c < hi => c + 1 \in lo..hi /\ c + 1 \in Int
         /\ ~(c < hi) => c = hi
OBVIOUS

(* NextAirport leaves the cursor in range.                                 *)
LEMMA NextAirportEffect ==
  ASSUME Basics, RangeInv, phase \in {"sort from", "sort to"}, NEW next, NextAirport(next)
  PROVE  /\ cursor \in range.min..range.max /\ cursor' \in range.min..range.max
         /\ cursor' \in Int
         /\ \/ phase' = phase /\ cursor' = cursor + 1
            \/ phase' = next /\ cursor = range.max /\ cursor' = range.min
<1>1. /\ range.min \in Int /\ range.max \in Int /\ range.min <= range.max
      /\ cursor \in range.min..range.max
  BY IndexTypes DEF Indexing, RangeInv
<1>2. \/ cursor < range.max /\ cursor' = cursor + 1 /\ phase' = phase
      \/ ~(cursor < range.max) /\ cursor' = range.min /\ phase' = next
  BY DEF NextAirport
<1>3. CASE cursor < range.max
  <2>1. cursor' = cursor + 1 /\ phase' = phase
    BY <1>2, <1>3
  <2>2. cursor + 1 \in range.min..range.max /\ cursor + 1 \in Int
    BY <1>1, <1>3, CursorMoves
  <2> QED BY <1>1, <2>1, <2>2
<1>4. CASE ~(cursor < range.max)
  <2>1. cursor' = range.min /\ phase' = next
    BY <1>2, <1>4
  <2>2. cursor = range.max
    BY <1>1, <1>4, CursorMoves
  <2>3. range.min \in range.min..range.max /\ range.min \in Int
    BY <1>1, CursorMoves
  <2> QED BY <1>1, <2>1, <2>2, <2>3
<1> QED BY <1>3, <1>4

LEMMA TypeSorts ==
  ASSUME Basics, RangeInv, IndexDone \/ SortDepartures \/ SortArrivals \/ SortPastEnd
  PROVE  Basics' /\ RangeInv'
<1>1. /\ phase \in Indexing /\ phase' \in Indexing /\ phase' # "index"
      /\ UNCHANGED <<file, stream, records, range>>
  BY DEF IndexDone, SortDepartures, SortArrivals, SortPastEnd, NextAirport, Indexing
<1>2. /\ range.min \in Int /\ range.max \in Int /\ range.min <= range.max
      /\ IndexType(from_index, range.min, range.max)
      /\ IndexType(to_index, range.min, range.max)
  BY <1>1, IndexTypes
<1>3. cursor' \in Int /\ (phase' \in {"sort from", "sort to"} => cursor' \in range.min..range.max)
  <2>1. CASE IndexDone
    <3>1. cursor' = range.min
      BY <2>1 DEF IndexDone
    <3>2. range.min \in range.min..range.max
      BY <1>2
    <3> QED BY <1>2, <3>1, <3>2
  <2>2. CASE SortDepartures
    <3>1. cursor' \in range.min..range.max /\ cursor' \in Int
      BY <2>2, NextAirportEffect DEF SortDepartures
    <3> QED BY <1>2, <3>1
  <2>3. CASE SortArrivals
    <3>1. cursor' \in range.min..range.max /\ cursor' \in Int
      BY <2>3, NextAirportEffect DEF SortArrivals
    <3> QED BY <1>2, <3>1
  <2>4. CASE SortPastEnd
    BY <2>4 DEF SortPastEnd, Basics
  <2> QED BY <2>1, <2>2, <2>3, <2>4
<1>4. IndexType(from_index', range.min, range.max) /\ IndexType(to_index', range.min, range.max)
  <2>1. CASE IndexDone \/ SortPastEnd
    <3>1. UNCHANGED <<from_index, to_index>>
      BY <2>1 DEF IndexDone, SortPastEnd, indices
    <3> QED BY <1>2, <3>1
  <2>2. CASE SortDepartures
    <3>1. cursor \in range.min..range.max /\ to_index' = to_index
      BY <2>2 DEF SortDepartures, RangeInv
    <3>2. PICK p \in Arrangements(Len(from_index.elements[cursor])) :
            from_index' = Rearranged(from_index, cursor, p)
      BY <2>2 DEF SortDepartures
    <3>3. IndexType(Rearranged(from_index, cursor, p), range.min, range.max)
      BY <1>2, <3>1, RearrangedEffect DEF Permuted
    <3> QED BY <1>2, <3>1, <3>2, <3>3
  <2>3. CASE SortArrivals
    <3>1. cursor \in range.min..range.max /\ from_index' = from_index
      BY <2>3 DEF SortArrivals, RangeInv
    <3>2. PICK p \in Arrangements(Len(to_index.elements[cursor])) :
            to_index' = Rearranged(to_index, cursor, p)
      BY <2>3 DEF SortArrivals
    <3>3. IndexType(Rearranged(to_index, cursor, p), range.min, range.max)
      BY <1>2, <3>1, RearrangedEffect DEF Permuted
    <3> QED BY <1>2, <3>1, <3>2, <3>3
  <2> QED BY <1>1, <2>1, <2>2, <2>3
<1>5. RangeKnown'
  BY <1>1, <1>4, RangeKept
<1>6. RangeInv'
  BY <1>1, <1>3, <1>5 DEF RangeInv
<1>7. Basics'
  BY <1>1, <1>3 DEF Basics, stream, Indexing, Phases
<1> QED BY <1>6, <1>7

LEMMA TypeInvariant == Spec => [](Basics /\ RangeInv)
<1>1. Init => Basics /\ RangeInv
  <2> SUFFICES ASSUME Init PROVE Basics /\ RangeInv
    OBVIOUS
  <2>1. <<>> \in Seq(Line) /\ <<>> \in Seq(Entry) /\ Blank \in Line
    BY EmptySeq DEF Line
  <2>2. Basics
    BY <2>1 DEF Init, Basics, Phases
  <2>3. RangeInv
    BY DEF Init, RangeInv, Indexing
  <2> QED BY <2>2, <2>3
<1>2. Basics /\ RangeInv /\ [Next]_vars => (Basics /\ RangeInv)'
  <2> SUFFICES ASSUME Basics, RangeInv, [Next]_vars PROVE Basics' /\ RangeInv'
    OBVIOUS
  <2>1. CASE UNCHANGED vars
    <3>1. /\ UNCHANGED <<file, phase, records, range, cursor, from_index, to_index>>
          /\ UNCHANGED <<rest, good, line>>
      BY <2>1 DEF vars, stream, indices
    <3>2. Basics'
      BY <3>1 DEF Basics
    <3>3. RangeKnown => RangeKnown'
      BY <3>1 DEF RangeKnown, AirportsIn, IndexType
    <3> QED BY <3>1, <3>2, <3>3 DEF RangeInv
  <2> QED BY <2>1, TypeLoad, TypeInitRange, TypeIndexRecord, TypeSorts DEF Next
<1> QED BY <1>1, <1>2, PTL DEF Spec

(* The construction keeps its types; in particular each index, from the    *)
(* time there is one, spans the range of airports, one vector of ids and   *)
(* one of times for each: no Add and no Sort leaves it.                    *)
THEOREM Typing == Spec => []TypeOK
<1>1. Basics /\ RangeInv => TypeOK
  <2> SUFFICES ASSUME Basics, RangeInv PROVE TypeOK
    OBVIOUS
  <2>1. file \in File \cup {NoFile}
    BY FileType
  <2>2. range \in AirportBounds \cup {NoRange}
    BY DEF RangeInv, RangeKnown
  <2>3. ASSUME range # NoRange, NEW c \in {from_index, to_index}
        PROVE  /\ c.min = range.min /\ c.max = range.max
               /\ \A a \in range.min..range.max :
                    c.elements[a] \in Seq(Nat) /\ c.datetimes[a] \in Seq(Time)
    <3>1. IndexType(c, range.min, range.max)
      BY <2>3 DEF RangeInv, RangeKnown
    <3> DEFINE E == c.elements  D == c.datetimes
    <3>2. /\ c = [min |-> range.min, max |-> range.max, elements |-> E, datetimes |-> D]
          /\ E \in [range.min..range.max -> Seq(Nat)] /\ D \in [range.min..range.max -> Seq(Time)]
      BY <3>1 DEF IndexType
    <3>3. c.elements = E /\ c.datetimes = D
      OBVIOUS
    <3> HIDE DEF E, D
    <3>4. c.min = range.min /\ c.max = range.max
      BY <3>2
    <3> QED BY <3>2, <3>3, <3>4
  <2> QED BY <2>1, <2>2, <2>3 DEF TypeOK, Basics
<1> QED BY <1>1, TypeInvariant, PTL

-----------------------------------------------------------------------------
(* What is loaded *)

Recorded ==
  \A p \in 1..Len(records) : p + 1 \in 1..Len(file.lines) /\ records[p] = file.lines[p + 1]

(* All is well: the records are the lines read so far, and the stream      *)
(* stands where the next one begins.                                       *)
Following ==
  /\ good /\ Recorded
  /\ Len(records) + 1 <= Len(file.lines)
  /\ Len(rest) = Len(file.lines) - Len(records) - 1
  /\ \A i \in 1..Len(rest) : rest[i] = file.lines[Len(records) + 1 + i]
  /\ rest = <<>> => file.terminated

(* There was no line to read. *)
NoLine == ~good /\ records = <<>> /\ line = Blank /\ file.lines = <<>> /\ file.terminated

(* The last line, without a newline, has been read: it stays in `line'     *)
(* whatever is read from now on, and it is not empty.                      *)
Stuck == ~good /\ ~file.terminated /\ line # Blank

(* The loop has been left: at the end of the file or at an empty line. *)
Loaded ==
  /\ Recorded
  /\ \/ file.terminated /\ Len(file.lines) <= Len(records) + 1
     \/ Len(records) + 2 \in 1..Len(file.lines) /\ file.lines[Len(records) + 2] = Blank

LoadInv ==
  /\ phase = "open" => good /\ records = <<>>
  /\ phase = "header" => good /\ records = <<>> /\ rest = file.lines
  /\ phase = "load" => Following \/ NoLine \/ Stuck
  /\ phase \in {"range"} \cup Indexing => Loaded

(* What std::getline does while there are lines. *)
LEMMA NextLine ==
  ASSUME rest \in Seq(Line), good, rest # <<>>, GetLine
  PROVE  /\ line' = rest[1] /\ rest' \in Seq(Line) /\ Len(rest) \in Nat /\ Len(rest) >= 1
         /\ Len(rest') = Len(rest) - 1
         /\ \A i \in 1..Len(rest') : rest'[i] = rest[i + 1]
         /\ (good' <=> (Len(rest) > 1 \/ file.terminated))
         /\ rest' = <<>> => Len(rest) = 1
<1>1. line' = Head(rest) /\ rest' = Tail(rest) /\ (good' <=> (Len(rest) > 1 \/ file.terminated))
  BY DEF GetLine
<1>2. Len(rest) \in Nat /\ Len(rest) # 0
  BY EmptySeq
<1>3. Head(rest) = rest[1] /\ Tail(rest) \in Seq(Line) /\ Len(Tail(rest)) = Len(rest) - 1
      /\ \A i \in 1..Len(Tail(rest)) : Tail(rest)[i] = rest[i + 1]
  BY HeadTailProperties
<1>4. rest' = <<>> => Len(rest') = 0
  OBVIOUS
<1> QED BY <1>1, <1>2, <1>3, <1>4

LEMMA HeaderLoads ==
  ASSUME Basics, LoadInv, ReadHeader
  PROVE  LoadInv'
<1>1. /\ phase' = "load" /\ phase = "header" /\ good /\ records = <<>> /\ rest = file.lines
      /\ UNCHANGED <<file, records>> /\ file # NoFile /\ GetLine
  BY DEF ReadHeader, LoadInv, Basics
<1>2. /\ file.lines \in Seq(Line) /\ file.terminated \in BOOLEAN
      /\ ~file.terminated => file.lines # <<>> /\ file.lines[Len(file.lines)] # Blank
  BY <1>1, FileType
<1>3. Recorded /\ Recorded'
  BY <1>1 DEF Recorded
<1>4. CASE rest = <<>>
  <2>1. line' = Blank /\ ~good' /\ file.terminated
    BY <1>1, <1>2, <1>4 DEF GetLine
  <2>2. NoLine'
    BY <1>1, <1>4, <2>1 DEF NoLine
  <2> QED BY <1>1, <2>2 DEF LoadInv, Indexing
<1>5. CASE rest # <<>>
  <2>1. /\ line' = rest[1] /\ Len(rest) \in Nat /\ Len(rest) >= 1
        /\ Len(rest') = Len(rest) - 1
        /\ \A i \in 1..Len(rest') : rest'[i] = rest[i + 1]
        /\ (good' <=> (Len(rest) > 1 \/ file.terminated))
        /\ rest' = <<>> => Len(rest) = 1
    BY <1>1, <1>2, <1>5, NextLine
  <2>2. Len(records) = 0
    BY <1>1
  <2>3. CASE Len(rest) > 1 \/ file.terminated
    <3>1. good'
      BY <2>1, <2>3
    <3>2. ASSUME rest' = <<>> PROVE file.terminated
      <4>1. Len(rest) = 1
        BY <2>1, <3>2
      <4> QED BY <2>3, <4>1
    <3>3. \A i \in 1..Len(rest') : rest'[i] = file.lines[0 + 1 + i]
      BY <1>1, <2>1
    <3>4. Following'
      BY <1>1, <1>3, <2>1, <2>2, <3>1, <3>2, <3>3 DEF Following
    <3> QED BY <1>1, <3>4 DEF LoadInv, Indexing
  <2>4. CASE ~(Len(rest) > 1 \/ file.terminated)
    <3>1. ~good' /\ ~file.terminated
      BY <2>1, <2>4
    <3>2. Len(rest) = 1
      BY <2>1, <2>4
    <3>3. line' # Blank
      BY <1>1, <1>2, <2>1, <3>1, <3>2
    <3>4. Stuck'
      BY <1>1, <3>1, <3>3 DEF Stuck
    <3> QED BY <1>1, <3>4 DEF LoadInv, Indexing
  <2> QED BY <2>3, <2>4
<1> QED BY <1>4, <1>5

(* A turn of the loop in which another line has been read: it is the line  *)
(* after those recorded.                                                   *)
LEMMA LineFollows ==
  ASSUME Basics, file # NoFile, Following, rest # <<>>, GetLine
  PROVE  /\ Len(records) + 2 \in 1..Len(file.lines) /\ line' = file.lines[Len(records) + 2]
         /\ Len(rest') = Len(file.lines) - Len(records) - 2
         /\ \A i \in 1..Len(rest') : rest'[i] = file.lines[Len(records) + 2 + i]
         /\ \/ good' /\ (rest' = <<>> => file.terminated)
            \/ ~good' /\ ~file.terminated /\ line' # Blank
<1>1. /\ good /\ Len(records) + 1 <= Len(file.lines)
      /\ Len(rest) = Len(file.lines) - Len(records) - 1
      /\ \A i \in 1..Len(rest) : rest[i] = file.lines[Len(records) + 1 + i]
  BY DEF Following
<1>2. /\ file.lines \in Seq(Line) /\ file.terminated \in BOOLEAN
      /\ ~file.terminated => file.lines # <<>> /\ file.lines[Len(file.lines)] # Blank
  BY FileType
<1>3. /\ line' = rest[1] /\ Len(rest) \in Nat /\ Len(rest) >= 1
      /\ Len(rest') = Len(rest) - 1
      /\ \A i \in 1..Len(rest') : rest'[i] = rest[i + 1]
      /\ (good' <=> (Len(rest) > 1 \/ file.terminated))
      /\ rest' = <<>> => Len(rest) = 1
  BY <1>1, NextLine DEF Basics
<1>4. Len(records) \in Nat /\ Len(file.lines) \in Nat
  BY <1>2 DEF Basics
<1>5. Len(records) + 2 \in 1..Len(file.lines) /\ Len(records) + 1 + 1 = Len(records) + 2
  BY <1>1, <1>3, <1>4
<1>6. line' = file.lines[Len(records) + 2]
  <2>1. 1 \in 1..Len(rest)
    BY <1>3
  <2> QED BY <1>1, <1>3, <1>5, <2>1
<1>7. Len(rest') = Len(file.lines) - Len(records) - 2
  BY <1>1, <1>3, <1>4
<1>8. ASSUME NEW i \in 1..Len(rest') PROVE rest'[i] = file.lines[Len(records) + 2 + i]
  <2>1. i + 1 \in 1..Len(rest) /\ Len(records) + 1 + (i + 1) = Len(records) + 2 + i
    BY <1>3, <1>4
  <2> QED BY <1>1, <1>3, <2>1
<1>9. CASE Len(rest) > 1 \/ file.terminated
  <2>1. good'
    BY <1>3, <1>9
  <2>2. ASSUME rest' = <<>> PROVE file.terminated
    <3>1. Len(rest) = 1
      BY <1>3, <2>2
    <3> QED BY <1>9, <3>1
  <2> QED BY <1>5, <1>6, <1>7, <1>8, <2>1, <2>2
<1>10. CASE ~(Len(rest) > 1 \/ file.terminated)
  <2>1. ~good' /\ ~file.terminated
    BY <1>3, <1>10
  <2>2. Len(rest) = 1
    BY <1>3, <1>10
  <2>3. Len(records) + 2 = Len(file.lines)
    <3>1. 1 = Len(file.lines) - Len(records) - 1
      BY <1>1, <2>2
    <3> QED BY <1>4, <3>1
  <2> QED BY <1>2, <1>5, <1>6, <1>7, <1>8, <2>1, <2>3
<1> QED BY <1>9, <1>10

LEMMA LoopLoads ==
  ASSUME Basics, LoadInv, LoadLine
  PROVE  LoadInv'
<1>1. phase = "load" /\ file # NoFile /\ GetLine /\ UNCHANGED file
  BY DEF LoadLine, Basics
<1>2. /\ \/ phase' = "range" /\ records' = records /\ line' = Blank
         \/ phase' = "terminated"
         \/ /\ phase' = "load" /\ records' = Append(records, line')
            /\ line' # Blank /\ line' # Garbled
      /\ line' = Blank => phase' = "range" /\ records' = records
  <2>1. CASE line' = Blank
    BY <2>1, LineAssumption DEF LoadLine
  <2>2. CASE line' = Garbled
    BY <2>2, LineAssumption DEF LoadLine
  <2>3. CASE line' # Blank /\ line' # Garbled
    BY <1>1, <2>3 DEF LoadLine
  <2> QED BY <2>1, <2>2, <2>3
<1>3. SUFFICES ASSUME phase' # "terminated" PROVE LoadInv'
  BY DEF LoadInv, Indexing
<1>4. records \in Seq(Entry) /\ Len(records) \in Nat
  BY DEF Basics
<1>5. CASE Following
  <2>1. CASE rest = <<>>
    <3>1. line' = Blank /\ phase' = "range" /\ UNCHANGED <<records, file>>
      BY <1>1, <1>2, <1>5, <2>1 DEF GetLine, Following
    <3>2. file.terminated /\ Recorded /\ Len(file.lines) <= Len(records) + 1
      <4>1. Len(rest) = 0
        BY <2>1
      <4>2. 0 = Len(file.lines) - Len(records) - 1
        BY <1>5, <4>1 DEF Following
      <4>3. Len(file.lines) \in Nat
        BY <1>1, FileType
      <4>4. Len(file.lines) <= Len(records) + 1
        BY <1>4, <4>2, <4>3
      <4> QED BY <1>5, <2>1, <4>4 DEF Following
    <3>3. Loaded'
      BY <3>1, <3>2 DEF Loaded, Recorded
    <3> QED BY <3>1, <3>3 DEF LoadInv, Indexing
  <2>2. CASE rest # <<>>
    <3>1. /\ Len(records) + 2 \in 1..Len(file.lines) /\ line' = file.lines[Len(records) + 2]
          /\ Len(rest') = Len(file.lines) - Len(records) - 2
          /\ \A i \in 1..Len(rest') : rest'[i] = file.lines[Len(records) + 2 + i]
          /\ \/ good' /\ (rest' = <<>> => file.terminated)
             \/ ~good' /\ ~file.terminated /\ line' # Blank
      BY <1>1, <1>5, <2>2, LineFollows
    <3>2. CASE line' = Blank
      <4>1. phase' = "range" /\ records' = records
        BY <1>2, <3>2
      <4>2. Recorded
        BY <1>5 DEF Following
      <4>3. Loaded'
        BY <1>1, <3>1, <3>2, <4>1, <4>2 DEF Loaded, Recorded
      <4> QED BY <4>1, <4>3 DEF LoadInv, Indexing
    <3>3. CASE line' # Blank
      <4>1. phase' = "load" /\ records' = Append(records, line') /\ line' # Garbled
        BY <1>2, <1>3, <3>3
      <4>2. line' \in Entry
        BY <1>1, <3>3, <4>1, GetLineType DEF Line, Basics
      <4>3. /\ Len(records') = Len(records) + 1 /\ records'[Len(records) + 1] = line'
            /\ \A p \in 1..Len(records) : records'[p] = records[p]
        BY <1>4, <4>1, <4>2, AppendProperties
      <4>4. CASE good' /\ (rest' = <<>> => file.terminated)
        <5>1. Recorded'
          <6> SUFFICES ASSUME NEW p \in 1..Len(records) + 1
                       PROVE  p + 1 \in 1..Len(file.lines) /\ records'[p] = file.lines[p + 1]
            BY <1>1, <4>3 DEF Recorded
          <6>1. CASE p \in 1..Len(records)
            BY <1>5, <4>3, <6>1 DEF Following, Recorded
          <6>2. CASE p \notin 1..Len(records)
            <7>1. p = Len(records) + 1 /\ p + 1 = Len(records) + 2
              BY <1>4, <6>2
            <7> QED BY <3>1, <4>3, <7>1
          <6> QED BY <6>1, <6>2
        <5>2. /\ Len(records') + 1 = Len(records) + 2
              /\ Len(rest') = Len(file.lines) - Len(records') - 1
          <6>1. Len(file.lines) \in Nat
            BY <1>1, FileType
          <6> QED BY <1>4, <3>1, <4>3, <6>1
        <5>3. Len(records') + 1 <= Len(file.lines)
          BY <3>1, <5>2
        <5>4. \A i \in 1..Len(rest') : rest'[i] = file.lines[Len(records') + 1 + i]
          BY <3>1, <5>2
        <5>5. Following'
          BY <1>1, <4>4, <5>1, <5>2, <5>3, <5>4 DEF Following
        <5> QED BY <4>1, <5>5 DEF LoadInv, Indexing
      <4>5. CASE ~good' /\ ~file.terminated /\ line' # Blank
        <5>1. Stuck'
          BY <1>1, <4>5 DEF Stuck
        <5> QED BY <4>1, <5>1 DEF LoadInv, Indexing
      <4> QED BY <3>1, <4>4, <4>5
    <3> QED BY <3>2, <3>3
  <2> QED BY <2>1, <2>2
<1>6. CASE NoLine
  <2>1. line' = Blank /\ phase' = "range" /\ UNCHANGED <<records, file>>
    BY <1>1, <1>2, <1>6 DEF NoLine, GetLine, stream
  <2>2. Len(records) = 0 /\ Len(file.lines) = 0 /\ file.terminated
    BY <1>6 DEF NoLine
  <2>3. Loaded'
    BY <2>1, <2>2 DEF Loaded, Recorded
  <2> QED BY <2>1, <2>3 DEF LoadInv, Indexing
<1>7. CASE Stuck
  <2>1. UNCHANGED <<line, good, file>> /\ line # Blank
    BY <1>1, <1>7 DEF Stuck, GetLine, stream
  <2>2. phase' = "load" /\ Stuck'
    BY <1>2, <1>3, <1>7, <2>1 DEF Stuck
  <2> QED BY <2>2 DEF LoadInv, Indexing
<1> QED BY <1>1, <1>5, <1>6, <1>7 DEF LoadInv

(* With no memory left for a record, the loop can still end.               *)
LEMMA LastLoads ==
  ASSUME Basics, LoadInv, MemoryExhausted
  PROVE  LoadInv'
<1>1. /\ phase = "load" /\ file # NoFile /\ GetLine /\ UNCHANGED <<file, records>>
      /\ (phase' = "range" /\ line' = Blank) \/ phase' = "terminated"
  BY DEF MemoryExhausted, Basics
<1>2. SUFFICES ASSUME phase' = "range", line' = Blank PROVE Loaded'
  BY <1>1 DEF LoadInv, Indexing
<1>3. records \in Seq(Entry) /\ Len(records) \in Nat
  BY DEF Basics
<1>4. CASE Following
  <2>1. CASE rest = <<>>
    <3>1. Len(rest) = 0
      BY <2>1
    <3>2. 0 = Len(file.lines) - Len(records) - 1
      BY <1>4, <3>1 DEF Following
    <3>3. Len(file.lines) \in Nat
      BY <1>1, FileType
    <3>4. Len(file.lines) <= Len(records) + 1
      BY <1>3, <3>2, <3>3
    <3>5. file.terminated /\ Recorded
      BY <1>4, <2>1 DEF Following
    <3> QED BY <1>1, <3>4, <3>5 DEF Loaded, Recorded
  <2>2. CASE rest # <<>>
    <3>1. Len(records) + 2 \in 1..Len(file.lines) /\ line' = file.lines[Len(records) + 2]
      BY <1>1, <1>4, <2>2, LineFollows
    <3>2. Recorded
      BY <1>4 DEF Following
    <3> QED BY <1>1, <1>2, <3>1, <3>2 DEF Loaded, Recorded
  <2> QED BY <2>1, <2>2
<1>5. CASE NoLine
  <2>1. Len(records) = 0 /\ Len(file.lines) = 0 /\ file.terminated
    BY <1>5 DEF NoLine
  <2> QED BY <1>1, <2>1 DEF Loaded, Recorded
<1>6. CASE Stuck
  BY <1>1, <1>2, <1>6 DEF Stuck, GetLine, stream
<1> QED BY <1>1, <1>4, <1>5, <1>6 DEF LoadInv

LEMMA LoadStep ==
  ASSUME Basics, LoadInv, [Next]_vars
  PROVE  LoadInv'
<1>1. CASE UNCHANGED vars
  BY <1>1 DEF vars, stream, LoadInv, Indexing, Following, NoLine, Stuck, Loaded, Recorded
<1>2. CASE OpenFile
  BY <1>2 DEF OpenFile, LoadInv, Indexing
<1>3. CASE InitAirportRange \/ IndexRecord \/ IndexDone
           \/ SortDepartures \/ SortArrivals \/ SortPastEnd
  <2>1. /\ phase \in {"range"} \cup Indexing /\ phase' \in Indexing
        /\ UNCHANGED <<file, records>>
    BY <1>3 DEF InitAirportRange, IndexRecord, IndexDone, SortDepartures, SortArrivals,
                SortPastEnd, NextAirport, Indexing
  <2>2. Loaded'
    BY <2>1 DEF LoadInv, Loaded, Recorded
  <2> QED BY <2>1, <2>2 DEF LoadInv, Indexing
<1> QED BY <1>1, <1>2, <1>3, HeaderLoads, LoopLoads, LastLoads DEF Next

LEMMA LoadInvariant == Spec => []LoadInv
<1>1. Init => LoadInv
  BY DEF Init, LoadInv, Indexing
<1>2. Basics /\ LoadInv /\ [Next]_vars => LoadInv'
  BY LoadStep
<1> QED BY <1>1, <1>2, TypeInvariant, PTL DEF Spec

LEMMA ContentLoaded ==
  ASSUME Basics, file # NoFile, Loaded
  PROVE  /\ Content = 2..Len(records) + 1 /\ Cardinality(Content) = Len(records)
         /\ file.terminated \/ \E i \in 2..Len(file.lines) : file.lines[i] = Blank
<1>1. records \in Seq(Entry) /\ Len(records) \in Nat /\ Len(file.lines) \in Nat
  BY FileType DEF Basics
<1>2. \A i \in 2..Len(records) + 1 : i \in 2..Len(file.lines) /\ file.lines[i] # Blank
  <2> SUFFICES ASSUME NEW i \in 2..Len(records) + 1
               PROVE  i \in 2..Len(file.lines) /\ file.lines[i] # Blank
    OBVIOUS
  <2>1. i - 1 \in 1..Len(records) /\ (i - 1) + 1 = i
    BY <1>1
  <2>2. i \in 1..Len(file.lines) /\ records[i - 1] = file.lines[i]
    BY <2>1 DEF Loaded, Recorded
  <2>3. records[i - 1] \in Entry
    BY <1>1, <2>1, ElementOfSeq
  <2> QED BY <1>1, <2>2, <2>3, LineAssumption
<1>3. ASSUME NEW i \in Content PROVE i \in 2..Len(records) + 1
  <2>1. i \in 2..Len(file.lines) /\ \A j \in 2..i : file.lines[j] # Blank
    BY DEF Content
  <2>2. CASE Len(file.lines) <= Len(records) + 1
    BY <1>1, <2>1, <2>2
  <2>3. CASE Len(records) + 2 \in 1..Len(file.lines) /\ file.lines[Len(records) + 2] = Blank
    <3>1. Len(records) + 2 \notin 2..i
      BY <2>1, <2>3
    <3> QED BY <1>1, <2>1, <3>1
  <2> QED BY <2>2, <2>3 DEF Loaded
<1>4. ASSUME NEW i \in 2..Len(records) + 1 PROVE i \in Content
  <2>1. \A j \in 2..i : j \in 2..Len(records) + 1
    BY <1>1
  <2> QED BY <1>2, <2>1 DEF Content
<1>5. Content = 2..Len(records) + 1
  BY <1>3, <1>4
<1>6. Cardinality(2..Len(records) + 1) = Len(records)
  <2>1. \A b \in Int : Cardinality(2..b) = IF 2 > b THEN 0 ELSE b - 2 + 1
    BY FS_Interval
  <2>2. Len(records) + 1 \in Int
    BY <1>1
  <2> QED BY <1>1, <2>1, <2>2
<1>7. file.terminated \/ \E i \in 2..Len(file.lines) : file.lines[i] = Blank
  <2>1. CASE Len(records) + 2 \in 1..Len(file.lines) /\ file.lines[Len(records) + 2] = Blank
    <3>1. Len(records) + 2 \in 2..Len(file.lines)
      BY <1>1, <2>1
    <3> QED BY <2>1, <3>1
  <2> QED BY <2>1 DEF Loaded
<1> QED BY <1>5, <1>6, <1>7

(* What is loaded is the content of the file, each line once and in its    *)
(* place, in every phase in which something is made of it, whatever the    *)
(* file holds; a file whose last line has no newline gets there only if it *)
(* has an empty line.                                                      *)
THEOREM LoadingKeepsLines == Spec => []RecordsAreLines
<1>1. Basics /\ LoadInv => RecordsAreLines
  <2> SUFFICES ASSUME Basics, LoadInv,
                      phase \in {"range", "index", "sort from", "sort to", "ready"}
               PROVE  /\ Len(records) = Cardinality(Content)
                      /\ \A i \in 1..Len(records) : records[i] = file.lines[i + 1]
                      /\ file.terminated \/ \E i \in 2..Len(file.lines) : file.lines[i] = Blank
    BY DEF RecordsAreLines
  <2>1. file # NoFile
    BY DEF Basics
  <2>2. Loaded
    BY DEF LoadInv, Indexing
  <2> QED BY <2>1, <2>2, ContentLoaded DEF Loaded, Recorded
<1> QED BY <1>1, TypeInvariant, LoadInvariant, PTL

-----------------------------------------------------------------------------
(* The indices *)

(* A bucket of ids, with the place of each: it holds those of 1..n whose   *)
(* place is a, each once.                                                  *)
Bucket(s, a, place, n) ==
  /\ \A i \in 1..Len(s) : s[i] \in 1..n /\ place[s[i]] = a
  /\ \A i, j \in 1..Len(s) : s[i] = s[j] => i = j
  /\ \A k \in 1..n : place[k] = a => \E i \in 1..Len(s) : s[i] = k

Fills(c, place, n) ==
  \A a \in range.min..range.max : Bucket(c.elements[a], a, place, n)

Departs == [p \in 1..Len(records) |-> record[records[p].flight].airport_from]
Arrives == [p \in 1..Len(records) |-> record[records[p].flight].airport_to]

InOrder(s) == \A i, j \in 1..Len(s) : i < j => ~DepartsBefore(s[j], s[i])

(* With ids that are positions, both indices hold the records entered so   *)
(* far, each once and where it belongs; and the departures of the airports *)
(* that have been sorted are in order.                                     *)
IndexInv ==
  IdsArePositions =>
    /\ phase = "index" => Fills(from_index, Departs, cursor - 1) /\ Fills(to_index, Arrives, cursor - 1)
    /\ phase \in {"sort from", "sort to", "ready"} =>
         Fills(from_index, Departs, Len(records)) /\ Fills(to_index, Arrives, Len(records))
    /\ phase = "sort from" =>
         \A a \in range.min..range.max : a < cursor => InOrder(from_index.elements[a])
    /\ phase \in {"sort to", "ready"} =>
         \A a \in range.min..range.max : InOrder(from_index.elements[a])

LEMMA BucketEmpty == \A a, place : Bucket(<<>>, a, place, 0)
BY DEF Bucket

LEMMA BucketGrows ==
  ASSUME NEW s \in Seq(Nat), NEW a, NEW place, NEW n \in Nat, Bucket(s, a, place, n)
  PROVE  /\ place[n + 1] = a => Bucket(Append(s, n + 1), a, place, n + 1)
         /\ place[n + 1] # a => Bucket(s, a, place, n + 1)
<1>1. Len(s) \in Nat
  OBVIOUS
<1>2. \A k \in 1..n + 1 : k \in 1..n \/ k = n + 1
  OBVIOUS
<1>3. \A k \in 1..n : k \in 1..n + 1 /\ k # n + 1
  OBVIOUS
<1>4. ASSUME place[n + 1] = a PROVE Bucket(Append(s, n + 1), a, place, n + 1)
  <2> DEFINE t == Append(s, n + 1)
  <2>1. /\ Len(t) = Len(s) + 1 /\ t[Len(s) + 1] = n + 1
        /\ \A i \in 1..Len(s) : t[i] = s[i]
    BY AppendProperties
  <2> HIDE DEF t
  <2>2. \A i \in 1..Len(t) : i \in 1..Len(s) \/ i = Len(s) + 1
    BY <1>1, <2>1
  <2>3. \A i \in 1..Len(s) : i \in 1..Len(t)
    BY <1>1, <2>1
  <2>4. Len(s) + 1 \in 1..Len(t)
    BY <1>1, <2>1
  <2>5. n + 1 \in 1..n + 1
    OBVIOUS
  <2>6. \A i \in 1..Len(t) : t[i] \in 1..n + 1 /\ place[t[i]] = a
    BY <1>3, <1>4, <2>1, <2>2, <2>5 DEF Bucket
  <2>7. ASSUME NEW i \in 1..Len(t), NEW j \in 1..Len(t), t[i] = t[j] PROVE i = j
    <3>1. CASE i \in 1..Len(s) /\ j \in 1..Len(s)
      BY <2>1, <2>7, <3>1 DEF Bucket
    <3>2. CASE i = Len(s) + 1 /\ j \in 1..Len(s)
      BY <1>3, <2>1, <2>7, <3>2 DEF Bucket
    <3>3. CASE i \in 1..Len(s) /\ j = Len(s) + 1
      BY <1>3, <2>1, <2>7, <3>3 DEF Bucket
    <3> QED BY <2>2, <3>1, <3>2, <3>3
  <2>8. ASSUME NEW k \in 1..n + 1, place[k] = a PROVE \E i \in 1..Len(t) : t[i] = k
    <3>1. CASE k \in 1..n
      BY <2>1, <2>3, <2>8, <3>1 DEF Bucket
    <3>2. CASE k = n + 1
      BY <2>1, <2>4, <3>2
    <3> QED BY <1>2, <3>1, <3>2
  <2>9. Bucket(t, a, place, n + 1)
    BY <2>6, <2>7, <2>8 DEF Bucket
  <2> QED BY <2>9 DEF t
<1>5. ASSUME place[n + 1] # a PROVE Bucket(s, a, place, n + 1)
  BY <1>2, <1>3, <1>5 DEF Bucket
<1> QED BY <1>4, <1>5

(* A permutation of 1..n reaches each of its numbers.                      *)
LEMMA ArrangementsReachAll ==
  ASSUME NEW n \in Nat, NEW p \in Arrangements(n), NEW k \in 1..n
  PROVE  \E i \in 1..n : p[i] = k
<1>1. p \in Injection(1..n, 1..n)
  BY DEF Arrangements, Injection, IsInjective
<1>2. IsFiniteSet(1..n)
  BY FS_Interval
<1>3. p \in Surjection(1..n, 1..n)
  BY <1>1, <1>2, FS_Injection
<1> QED BY <1>3 DEF Surjection

LEMMA BucketRearranged ==
  ASSUME NEW s \in Seq(Nat), NEW t, NEW a, NEW place, NEW n \in Nat, Bucket(s, a, place, n),
         NEW p \in Arrangements(Len(s)), Len(t) = Len(s), \A i \in 1..Len(s) : t[i] = s[p[i]]
  PROVE  Bucket(t, a, place, n)
<1>1. Len(s) \in Nat
  OBVIOUS
<1>2. /\ \A i \in 1..Len(s) : p[i] \in 1..Len(s)
      /\ \A i, j \in 1..Len(s) : p[i] = p[j] => i = j
  BY DEF Arrangements
<1>3. \A i \in 1..Len(t) : t[i] \in 1..n /\ place[t[i]] = a
  BY <1>2 DEF Bucket
<1>4. \A i, j \in 1..Len(t) : t[i] = t[j] => i = j
  BY <1>2 DEF Bucket
<1>5. ASSUME NEW k \in 1..n, place[k] = a PROVE \E i \in 1..Len(t) : t[i] = k
  <2>1. PICK j \in 1..Len(s) : s[j] = k
    BY <1>5 DEF Bucket
  <2>2. PICK i \in 1..Len(s) : p[i] = j
    BY <1>1, ArrangementsReachAll
  <2> QED BY <2>1, <2>2
<1> QED BY <1>3, <1>4, <1>5 DEF Bucket

LEMMA IndexInit ==
  ASSUME Basics, RangeInv, InitAirportRange
  PROVE  IndexInv'
<1>1. phase' = "index" /\ cursor' = 1 /\ RangeInv'
  BY TypeInitRange DEF InitAirportRange, RangeInv, Indexing
<1>2. range'.min \in Int /\ range'.max \in Int
  BY <1>1, DomainAssumption DEF RangeInv, RangeKnown, AirportBounds, Indexing
<1>3. \A a \in range'.min..range'.max : from_index'.elements[a] = <<>> /\ to_index'.elements[a] = <<>>
  BY <1>2, ContainerEffect DEF InitAirportRange
<1>4. cursor' - 1 = 0
  BY <1>1
<1>5. \A a \in range'.min..range'.max : /\ Bucket(from_index'.elements[a], a, Departs', 0)
                                        /\ Bucket(to_index'.elements[a], a, Arrives', 0)
  BY <1>3, BucketEmpty
<1>6. Fills(from_index, Departs, cursor - 1)' /\ Fills(to_index, Arrives, cursor - 1)'
  BY <1>4, <1>5 DEF Fills
<1> QED BY <1>1, <1>6 DEF IndexInv

(* An index in which the record has been entered, with its id for its      *)
(* position.                                                               *)
LEMMA FillsAdded ==
  ASSUME NEW lo \in Int, NEW hi \in Int, NEW c, IndexType(c, lo, hi),
         NEW b \in lo..hi, NEW t \in Time, NEW n \in Nat, NEW m \in Nat, m = n + 1,
         NEW place, place[m] = b,
         \A a \in lo..hi : Bucket(c.elements[a], a, place, n)
  PROVE  \A a \in lo..hi : Bucket(Added(c, b, t, m).elements[a], a, place, m)
<1> DEFINE d == Added(c, b, t, m)
<1>1. Entered(d, c, lo, hi, b, m)
  BY AddedEffect
<1> HIDE DEF d
<1> SUFFICES ASSUME NEW a \in lo..hi PROVE Bucket(d.elements[a], a, place, m)
  BY DEF d
<1>2. c.elements[a] \in Seq(Nat) /\ Bucket(c.elements[a], a, place, n)
  BY DEF IndexType
<1>3. CASE a = b
  <2>1. Bucket(Append(c.elements[a], m), a, place, m)
    BY <1>2, <1>3, BucketGrows
  <2>2. d.elements[a] = Append(c.elements[a], m)
    BY <1>1, <1>3 DEF Entered
  <2> QED BY <2>1, <2>2
<1>4. CASE a # b
  <2>1. Bucket(c.elements[a], a, place, m)
    BY <1>2, <1>4, BucketGrows
  <2>2. d.elements[a] = c.elements[a]
    BY <1>1, <1>4 DEF Entered
  <2> QED BY <2>1, <2>2
<1> QED BY <1>3, <1>4

LEMMA IndexAdd ==
  ASSUME Basics, RangeInv, IndexInv, IndexRecord
  PROVE  IndexInv'
<1>1. /\ phase = "index" /\ phase' = phase /\ cursor' = cursor + 1
      /\ UNCHANGED <<records, range>>
  BY DEF IndexRecord
<1>2. SUFFICES ASSUME IdsArePositions
               PROVE  Fills(from_index, Departs, cursor - 1)' /\ Fills(to_index, Arrives, cursor - 1)'
  BY <1>1 DEF IndexInv, IdsArePositions
<1> DEFINE r == records[cursor]
           f == record[r.flight]
<1>3. /\ from_index' = Added(from_index, f.airport_from, f.datetime_from, r.id)
      /\ to_index' = Added(to_index, f.airport_to, f.datetime_to, r.id)
  BY DEF IndexRecord, ArrivalEntered
<1>4. /\ cursor \in 1..Len(records)
      /\ f.airport_from \in range.min..range.max /\ f.airport_to \in range.min..range.max
      /\ f.datetime_from \in Time /\ f.datetime_to \in Time
  BY IndexedRecord
<1>5. r.id = cursor
  BY <1>2, <1>4 DEF IdsArePositions
<1>6. Departs[cursor] = f.airport_from /\ Arrives[cursor] = f.airport_to
  BY <1>4 DEF Departs, Arrives
<1>7. cursor - 1 \in Nat /\ cursor = (cursor - 1) + 1 /\ cursor' - 1 = cursor
  BY <1>1, <1>4
<1>8. /\ range.min \in Int /\ range.max \in Int
      /\ IndexType(from_index, range.min, range.max)
      /\ IndexType(to_index, range.min, range.max)
  BY <1>1, IndexTypes DEF Indexing
<1> HIDE DEF r, f
<1>9. \A a \in range.min..range.max : /\ Bucket(from_index.elements[a], a, Departs, cursor - 1)
                                      /\ Bucket(to_index.elements[a], a, Arrives, cursor - 1)
  BY <1>1, <1>2 DEF IndexInv, Fills
<1> DEFINE n == cursor - 1
<1>10. n \in Nat /\ cursor \in Nat /\ cursor = n + 1
  BY <1>4, <1>7
<1>11. /\ \A a \in range.min..range.max : Bucket(from_index.elements[a], a, Departs, n)
       /\ \A a \in range.min..range.max : Bucket(to_index.elements[a], a, Arrives, n)
  BY <1>9
<1> HIDE DEF n
<1>12. \A a \in range.min..range.max :
         Bucket(Added(from_index, f.airport_from, f.datetime_from, cursor).elements[a], a, Departs, cursor)
  BY <1>4, <1>6, <1>8, <1>10, <1>11, FillsAdded
<1>13. \A a \in range.min..range.max :
         Bucket(Added(to_index, f.airport_to, f.datetime_to, cursor).elements[a], a, Arrives, cursor)
  BY <1>4, <1>6, <1>8, <1>10, <1>11, FillsAdded
<1>14. range' = range
  BY <1>1
<1>15. \A a \in range.min..range.max : /\ Bucket(from_index'.elements[a], a, Departs, cursor)
                                       /\ Bucket(to_index'.elements[a], a, Arrives, cursor)
  BY <1>3, <1>5, <1>12, <1>13
<1>16. Departs' = Departs /\ Arrives' = Arrives
  BY <1>1 DEF Departs, Arrives
<1> QED BY <1>7, <1>14, <1>15, <1>16 DEF Fills

LEMMA IndexDoneStep ==
  ASSUME Basics, RangeInv, IndexInv, IndexDone
  PROVE  IndexInv'
<1>1. /\ phase = "index" /\ phase' = "sort from" /\ cursor' = range.min
      /\ UNCHANGED <<records, range, from_index, to_index>> /\ cursor > Len(records)
  BY DEF IndexDone, indices
<1>2. SUFFICES ASSUME IdsArePositions
               PROVE  /\ Fills(from_index, Departs, Len(records))'
                      /\ Fills(to_index, Arrives, Len(records))'
                      /\ \A a \in range'.min..range'.max : ~(a < cursor')
  BY <1>1 DEF IndexInv, IdsArePositions
<1>3. Len(records) \in Nat
  BY DEF Basics
<1>4. cursor - 1 = Len(records)
  <2>1. cursor \in 1..Len(records) + 1
    BY <1>1 DEF RangeInv
  <2>2. cursor > Len(records)
    BY <1>1
  <2> QED BY <1>3, <2>1, <2>2
<1>5. Fills(from_index, Departs, Len(records)) /\ Fills(to_index, Arrives, Len(records))
  BY <1>1, <1>2, <1>4 DEF IndexInv
<1>6. Departs' = Departs /\ Arrives' = Arrives
  BY <1>1 DEF Departs, Arrives
<1>7. range.min \in Int /\ range.max \in Int
  BY <1>1, IndexTypes DEF Indexing
<1>8. \A a \in range.min..range.max : ~(a < range.min)
  BY <1>7
<1> QED BY <1>1, <1>5, <1>6, <1>8 DEF Fills

(* An index of which one airport has been rearranged.                      *)
LEMMA FillsRearranged ==
  ASSUME NEW lo \in Int, NEW hi \in Int, NEW c, IndexType(c, lo, hi), NEW n \in Nat, NEW place,
         \A a \in lo..hi : Bucket(c.elements[a], a, place, n),
         NEW b \in lo..hi, NEW p \in Arrangements(Len(c.elements[b]))
  PROVE  \A a \in lo..hi : Bucket(Rearranged(c, b, p).elements[a], a, place, n)
<1>1. Permuted(c, Rearranged(c, b, p), b, p, lo, hi)
  BY RearrangedEffect
<1> SUFFICES ASSUME NEW a \in lo..hi
             PROVE  Bucket(Rearranged(c, b, p).elements[a], a, place, n)
  OBVIOUS
<1>2. c.elements[a] \in Seq(Nat) /\ Bucket(c.elements[a], a, place, n)
  BY DEF IndexType
<1>3. CASE a = b
  BY <1>1, <1>2, <1>3, BucketRearranged DEF Permuted
<1>4. CASE a # b
  BY <1>1, <1>2, <1>4 DEF Permuted
<1> QED BY <1>3, <1>4

LEMMA IndexSortDepartures ==
  ASSUME Basics, RangeInv, IndexInv, SortDepartures
  PROVE  IndexInv'
<1>1. /\ phase = "sort from" /\ NextAirport("sort to")
      /\ UNCHANGED <<records, range, to_index>>
  BY DEF SortDepartures
<1>2. phase' \in {"sort from", "sort to"}
  BY <1>1 DEF NextAirport
<1>3. SUFFICES ASSUME IdsArePositions
               PROVE  /\ Fills(from_index, Departs, Len(records))'
                      /\ Fills(to_index, Arrives, Len(records))'
                      /\ \A a \in range'.min..range'.max :
                           phase' = "sort to" \/ a < cursor' => InOrder(from_index.elements[a])'
  BY <1>1, <1>2 DEF IndexInv, IdsArePositions
<1>4. PICK p \in Arrangements(Len(from_index.elements[cursor])) :
        /\ \A i, j \in 1..Len(from_index.elements[cursor]) : i < j =>
             ~DepartsBefore(from_index.elements[cursor][p[j]], from_index.elements[cursor][p[i]])
        /\ from_index' = Rearranged(from_index, cursor, p)
  BY DEF SortDepartures
<1>5. /\ range.min \in Int /\ range.max \in Int
      /\ IndexType(from_index, range.min, range.max)
      /\ cursor \in range.min..range.max
  BY <1>1, IndexTypes DEF Indexing, RangeInv
<1>6. Permuted(from_index, from_index', cursor, p, range.min, range.max)
  BY <1>4, <1>5, RearrangedEffect
<1>7. /\ \A a \in range.min..range.max : Bucket(from_index.elements[a], a, Departs, Len(records))
      /\ Fills(to_index, Arrives, Len(records))
      /\ \A a \in range.min..range.max : a < cursor => InOrder(from_index.elements[a])
  BY <1>1, <1>3 DEF IndexInv, Fills
<1>8. Len(records) \in Nat
  BY DEF Basics
<1>9. \A a \in range.min..range.max : Bucket(from_index'.elements[a], a, Departs, Len(records))
  BY <1>4, <1>5, <1>7, <1>8, FillsRearranged
<1>10. Departs' = Departs /\ Arrives' = Arrives
  BY <1>1 DEF Departs, Arrives
<1>11. Fills(from_index, Departs, Len(records))' /\ Fills(to_index, Arrives, Len(records))'
  BY <1>1, <1>7, <1>9, <1>10 DEF Fills
<1>12. ASSUME NEW a \in range.min..range.max, a <= cursor PROVE InOrder(from_index'.elements[a])
  <2>1. CASE a = cursor
    <3>1. SUFFICES ASSUME NEW i \in 1..Len(from_index.elements[cursor]),
                          NEW j \in 1..Len(from_index.elements[cursor]), i < j
                   PROVE  ~DepartsBefore(from_index'.elements[cursor][j], from_index'.elements[cursor][i])
      BY <1>6, <2>1 DEF InOrder, Permuted
    <3>2. /\ from_index'.elements[cursor][i] = from_index.elements[cursor][p[i]]
          /\ from_index'.elements[cursor][j] = from_index.elements[cursor][p[j]]
      BY <1>6 DEF Permuted
    <3> QED BY <1>4, <3>1, <3>2
  <2>2. CASE a # cursor
    <3>1. a < cursor
      BY <1>5, <1>12, <2>2
    <3>2. from_index'.elements[a] = from_index.elements[a]
      BY <1>6, <2>2 DEF Permuted
    <3> QED BY <1>7, <3>1, <3>2
  <2> QED BY <2>1, <2>2
<1>13. ASSUME NEW a \in range.min..range.max, phase' = "sort to" \/ a < cursor' PROVE a <= cursor
  <2>1. \/ phase' = phase /\ cursor' = cursor + 1
        \/ phase' = "sort to" /\ cursor = range.max
    BY <1>1, NextAirportEffect
  <2>2. CASE phase' = "sort from"
    <3>1. a < cursor + 1
      BY <1>13, <2>1, <2>2
    <3> QED BY <1>5, <3>1
  <2>3. CASE phase' = "sort to"
    <3>1. cursor = range.max
      BY <1>1, <2>1, <2>3
    <3> QED BY <1>5, <3>1
  <2> QED BY <1>2, <2>2, <2>3
<1>14. \A a : InOrder(from_index'.elements[a]) => InOrder(from_index.elements[a])'
  BY <1>1 DEF InOrder, DepartsBefore, Row
<1>15. range' = range
  BY <1>1
<1> QED BY <1>11, <1>12, <1>13, <1>14, <1>15

LEMMA IndexSortArrivals ==
  ASSUME Basics, RangeInv, IndexInv, SortArrivals
  PROVE  IndexInv'
<1>1. /\ phase = "sort to" /\ NextAirport("ready")
      /\ UNCHANGED <<records, range, from_index>>
  BY DEF SortArrivals
<1>2. phase' \in {"sort to", "ready"}
  BY <1>1 DEF NextAirport
<1>3. SUFFICES ASSUME IdsArePositions
               PROVE  /\ Fills(from_index, Departs, Len(records))'
                      /\ Fills(to_index, Arrives, Len(records))'
                      /\ \A a \in range'.min..range'.max : InOrder(from_index.elements[a])'
  BY <1>1, <1>2 DEF IndexInv, IdsArePositions
<1>4. PICK p \in Arrangements(Len(to_index.elements[cursor])) :
        to_index' = Rearranged(to_index, cursor, p)
  BY DEF SortArrivals
<1>5. /\ range.min \in Int /\ range.max \in Int
      /\ IndexType(to_index, range.min, range.max)
      /\ cursor \in range.min..range.max
  BY <1>1, IndexTypes DEF Indexing, RangeInv
<1>6. /\ \A a \in range.min..range.max : Bucket(to_index.elements[a], a, Arrives, Len(records))
      /\ Fills(from_index, Departs, Len(records))
      /\ \A a \in range.min..range.max : InOrder(from_index.elements[a])
  BY <1>1, <1>3 DEF IndexInv, Fills
<1>7. Len(records) \in Nat
  BY DEF Basics
<1>8. \A a \in range.min..range.max : Bucket(to_index'.elements[a], a, Arrives, Len(records))
  BY <1>4, <1>5, <1>6, <1>7, FillsRearranged
<1>9. Departs' = Departs /\ Arrives' = Arrives
  BY <1>1 DEF Departs, Arrives
<1>10. Fills(from_index, Departs, Len(records))' /\ Fills(to_index, Arrives, Len(records))'
  BY <1>1, <1>6, <1>8, <1>9 DEF Fills
<1>11. \A a : InOrder(from_index.elements[a]) => InOrder(from_index.elements[a])'
  BY <1>1 DEF InOrder, DepartsBefore, Row
<1>12. range' = range
  BY <1>1
<1> QED BY <1>6, <1>10, <1>11, <1>12

LEMMA IndexStep ==
  ASSUME Basics, RangeInv, IndexInv, [Next]_vars
  PROVE  IndexInv'
<1>1. CASE UNCHANGED vars
  <2>1. UNCHANGED <<phase, records, range, cursor, from_index, to_index>>
    BY <1>1 DEF vars, indices
  <2>2. /\ IdsArePositions' <=> IdsArePositions
        /\ Departs' = Departs /\ Arrives' = Arrives
        /\ \A a : InOrder(from_index.elements[a])' <=> InOrder(from_index.elements[a])
    BY <2>1 DEF IdsArePositions, Departs, Arrives, InOrder, DepartsBefore, Row
  <2> QED BY <2>1, <2>2 DEF IndexInv, Fills
<1>2. CASE OpenFile \/ ReadHeader \/ LoadLine \/ MemoryExhausted \/ SortPastEnd
  <2>1. phase' \notin {"index", "sort from", "sort to", "ready"}
    BY <1>2 DEF OpenFile, ReadHeader, LoadLine, MemoryExhausted, SortPastEnd
  <2> QED BY <2>1 DEF IndexInv
<1> QED BY <1>1, <1>2, IndexInit, IndexAdd, IndexDoneStep, IndexSortDepartures, IndexSortArrivals
        DEF Next

LEMMA IndexInvariant == Spec => []IndexInv
<1>1. Init => IndexInv
  BY DEF Init, IndexInv
<1>2. Basics /\ RangeInv /\ IndexInv /\ [Next]_vars => IndexInv'
  BY IndexStep
<1> QED BY <1>1, <1>2, TypeInvariant, PTL DEF Spec

-----------------------------------------------------------------------------
(* The lookups *)

(* What a finished database is, in one place.                              *)
LEMMA Finished ==
  ASSUME Basics, RangeInv, LoadInv, IndexInv, Built
  PROVE  /\ records \in Seq(Entry) /\ Len(records) \in Nat /\ RangeKnown
         /\ range.min \in Int /\ range.max \in Int
         /\ from_index.min = range.min /\ from_index.max = range.max
         /\ to_index.min = range.min /\ to_index.max = range.max
         /\ \A a \in range.min..range.max : /\ Bucket(from_index.elements[a], a, Departs, Len(records))
                                            /\ Bucket(to_index.elements[a], a, Arrives, Len(records))
                                            /\ InOrder(from_index.elements[a])
         /\ \A p, q \in 1..Len(records) : p # q => records[p].flight # records[q].flight
<1>1. phase = "ready" /\ phase \in Indexing /\ IdsArePositions
  BY DEF Built, Indexing
<1>2. records \in Seq(Entry) /\ Len(records) \in Nat /\ file # NoFile
  BY <1>1 DEF Basics
<1>3. RangeKnown /\ range.min \in Int /\ range.max \in Int
  BY <1>1, IndexTypes DEF RangeInv
<1>4. ASSUME NEW c, IndexType(c, range.min, range.max)
      PROVE  c.min = range.min /\ c.max = range.max
  <2> DEFINE E == c.elements  D == c.datetimes
  <2>1. c = [min |-> range.min, max |-> range.max, elements |-> E, datetimes |-> D]
    BY <1>4 DEF IndexType
  <2> HIDE DEF E, D
  <2> QED BY <2>1
<1>5. /\ from_index.min = range.min /\ from_index.max = range.max
      /\ to_index.min = range.min /\ to_index.max = range.max
  BY <1>3, <1>4 DEF RangeKnown
<1>6. \A a \in range.min..range.max : /\ Bucket(from_index.elements[a], a, Departs, Len(records))
                                      /\ Bucket(to_index.elements[a], a, Arrives, Len(records))
                                      /\ InOrder(from_index.elements[a])
  BY <1>1 DEF IndexInv, Fills
<1>7. ASSUME NEW p \in 1..Len(records), NEW q \in 1..Len(records), p # q
      PROVE  records[p].flight # records[q].flight
  <2>1. /\ p + 1 \in 1..Len(file.lines) /\ records[p] = file.lines[p + 1]
        /\ q + 1 \in 1..Len(file.lines) /\ records[q] = file.lines[q + 1]
    BY <1>1 DEF LoadInv, Loaded, Recorded
  <2>2. file.lines[p + 1] \in Entry /\ file.lines[q + 1] \in Entry
    BY <1>2, <2>1, EntryType
  <2>3. p + 1 # q + 1 /\ file \in Files \ {NoFile}
    BY <1>2, <1>7 DEF Basics
  <2> QED BY <2>1, <2>2, <2>3, FilesAssumption
<1> QED BY <1>2, <1>3, <1>5, <1>6, <1>7

LEMMA RangeFound ==
  ASSUME Basics, RangeInv, LoadInv, IndexInv, Built
  PROVE  RangeMatches
<1>1. Graph!Served = AirportsIn(records)
  <2>1. ASSUME NEW b \in AirportsIn(records) PROVE b \in Graph!Served
    <3>1. PICK p \in 1..Len(records) :
            b \in {record[records[p].flight].airport_from, record[records[p].flight].airport_to}
      BY DEF AirportsIn
    <3> QED BY <3>1 DEF Graph!Served
  <2>2. ASSUME NEW b \in Graph!Served PROVE b \in AirportsIn(records)
    <3>1. PICK f \in {records[p].flight : p \in 1..Len(records)} :
            b \in {record[f].airport_from, record[f].airport_to}
      BY DEF Graph!Served
    <3>2. PICK p \in 1..Len(records) : f = records[p].flight
      OBVIOUS
    <3> QED BY <3>1, <3>2 DEF AirportsIn
  <2> QED BY <2>1, <2>2
<1> DEFINE S == AirportsIn(records)
<1>2. /\ range.min \in S /\ range.max \in S /\ S \subseteq Int
      /\ \A b \in S : range.min <= b /\ b <= range.max
      /\ from_index.min = range.min /\ from_index.max = range.max
      /\ range.min \in Int /\ range.max \in Int
  BY Finished, AirportsType DEF RangeKnown, Built
<1> HIDE DEF S
<1>3. ASSUME NEW a \in Airport PROVE Holds(from_index, a) <=> Graph!Within(a)
  <2>1. a \in Int
    BY DomainAssumption
  <2>2. Holds(from_index, a) <=> range.min <= a /\ a <= range.max
    BY <1>2 DEF Holds
  <2>3. Graph!Within(a) <=> ~(\A b \in S : a < b) /\ ~(\A b \in S : b < a)
    BY <1>1 DEF Graph!Within, S
  <2>4. ASSUME range.min <= a, a <= range.max
        PROVE  ~(\A b \in S : a < b) /\ ~(\A b \in S : b < a)
    BY <1>2, <2>1, <2>4
  <2>5. ASSUME NEW b \in S, NEW e \in S, ~(a < b), ~(e < a)
        PROVE  range.min <= a /\ a <= range.max
    <3>1. b \in Int /\ e \in Int /\ range.min <= b /\ e <= range.max
      BY <1>2
    <3> QED BY <1>2, <2>1, <2>5, <3>1
  <2> QED BY <2>2, <2>3, <2>4, <2>5
<1> QED BY <1>3 DEF RangeMatches

(* A place in the departures of an airport of the range, and the record of *)
(* the id that stands there.                                               *)
LEMMA Departure ==
  ASSUME Basics, RangeInv, LoadInv, IndexInv, Built,
         NEW a \in Airport, Holds(from_index, a)
  PROVE  /\ Len(from_index.elements[a]) \in Nat
         /\ InOrder(from_index.elements[a])
         /\ \A i \in 1..Len(from_index.elements[a]) :
              /\ from_index.elements[a][i] \in 1..Len(records)
              /\ FlightOf(from_index.elements[a][i]) \in {records[p].flight : p \in 1..Len(records)}
              /\ FlightOf(from_index.elements[a][i]) \in Flight
              /\ Row(from_index.elements[a][i]) = record[FlightOf(from_index.elements[a][i])]
              /\ record[FlightOf(from_index.elements[a][i])].airport_from = a
         /\ \A i, j \in 1..Len(from_index.elements[a]) :
              FlightOf(from_index.elements[a][i]) = FlightOf(from_index.elements[a][j]) => i = j
         /\ \A f \in {records[p].flight : p \in 1..Len(records)} :
              record[f].airport_from = a =>
                \E i \in 1..Len(from_index.elements[a]) : FlightOf(from_index.elements[a][i]) = f
<1> DEFINE ids == from_index.elements[a]
<1>1. a \in range.min..range.max
  <2>1. a \in Int /\ range.min <= a /\ a <= range.max /\ range.min \in Int /\ range.max \in Int
    BY Finished, DomainAssumption DEF Holds
  <2> QED BY <2>1
<1>2. Bucket(ids, a, Departs, Len(records)) /\ InOrder(ids)
  BY <1>1, Finished
<1>3. ids \in Seq(Nat)
  BY <1>1, Finished DEF RangeKnown, IndexType
<1> HIDE DEF ids
<1>4. Len(ids) \in Nat
  BY <1>3
<1>5. ASSUME NEW i \in 1..Len(ids)
      PROVE  /\ ids[i] \in 1..Len(records)
             /\ FlightOf(ids[i]) \in {records[p].flight : p \in 1..Len(records)}
             /\ FlightOf(ids[i]) \in Flight
             /\ Row(ids[i]) = record[FlightOf(ids[i])]
             /\ record[FlightOf(ids[i])].airport_from = a
  <2>1. ids[i] \in 1..Len(records) /\ Departs[ids[i]] = a
    BY <1>2 DEF Bucket
  <2>2. records[ids[i]].flight \in Flight
    BY <2>1, Finished, EntryType
  <2> QED BY <2>1, <2>2 DEF Departs, FlightOf, Row
<1>6. ASSUME NEW i \in 1..Len(ids), NEW j \in 1..Len(ids), FlightOf(ids[i]) = FlightOf(ids[j])
      PROVE  i = j
  <2>1. ids[i] \in 1..Len(records) /\ ids[j] \in 1..Len(records)
    BY <1>5
  <2>2. ids[i] = ids[j]
    BY <1>6, <2>1, Finished DEF FlightOf
  <2> QED BY <1>2, <2>2 DEF Bucket
<1>7. ASSUME NEW f \in {records[p].flight : p \in 1..Len(records)}, record[f].airport_from = a
      PROVE  \E i \in 1..Len(ids) : FlightOf(ids[i]) = f
  <2>1. PICK p \in 1..Len(records) : f = records[p].flight
    OBVIOUS
  <2>2. Departs[p] = a
    BY <1>7, <2>1 DEF Departs
  <2>3. PICK i \in 1..Len(ids) : ids[i] = p
    BY <1>2, <2>2 DEF Bucket
  <2> QED BY <2>1, <2>3 DEF FlightOf
<1> QED BY <1>2, <1>4, <1>5, <1>6, <1>7 DEF ids

LEMMA ArrivalsFound ==
  ASSUME Basics, RangeInv, LoadInv, IndexInv, Built,
         NEW a \in Airport, Holds(to_index, a)
  PROVE  ArrivalsMatch(a)
<1> DEFINE ids == to_index.elements[a]
           db == {records[p].flight : p \in 1..Len(records)}
<1>1. a \in range.min..range.max
  <2>1. a \in Int /\ range.min <= a /\ a <= range.max /\ range.min \in Int /\ range.max \in Int
    BY Finished, DomainAssumption DEF Holds
  <2> QED BY <2>1
<1>2. Bucket(ids, a, Arrives, Len(records))
  BY <1>1, Finished
<1> HIDE DEF ids
<1>3. ASSUME NEW i \in 1..Len(ids)
      PROVE  FlightOf(ids[i]) \in db /\ record[FlightOf(ids[i])].airport_to = a
  <2>1. ids[i] \in 1..Len(records) /\ Arrives[ids[i]] = a
    BY <1>2 DEF Bucket
  <2> QED BY <2>1 DEF Arrives, FlightOf
<1>4. ASSUME NEW f \in db, record[f].airport_to = a
      PROVE  \E i \in 1..Len(ids) : FlightOf(ids[i]) = f
  <2>1. PICK p \in 1..Len(records) : f = records[p].flight
    OBVIOUS
  <2>2. Arrives[p] = a
    BY <1>4, <2>1 DEF Arrives
  <2>3. PICK i \in 1..Len(ids) : ids[i] = p
    BY <1>2, <2>2 DEF Bucket
  <2> QED BY <2>1, <2>3 DEF FlightOf
<1>5. Graph!ArrivalsAt(a) = {Graph!Arrival(f) : f \in {g \in db : record[g].airport_to = a}}
  BY DEF Graph!ArrivalsAt
<1> HIDE DEF db
<1>6. {Graph!Arrival(FlightOf(ids[i])) : i \in 1..Len(ids)} = Graph!ArrivalsAt(a)
  BY <1>3, <1>4, <1>5
<1> QED BY <1>6 DEF ArrivalsMatch, ids

LEMMA EdgesFound ==
  ASSUME Basics, RangeInv, LoadInv, IndexInv, Built,
         NEW n \in Graph!Node, Holds(from_index, n.airport)
  PROVE  EdgesMatch(n)
<1> DEFINE a == n.airport
           ids == from_index.elements[a]
           db == {records[p].flight : p \in 1..Len(records)}
           found == {i \in 1..Len(ids) : ~(Row(ids[i]).datetime_from < n.no_sooner_than)}
<1>1. a \in Airport /\ n.no_sooner_than \in Int /\ Holds(from_index, a)
  BY DomainAssumption DEF Graph!Node
<1>2. /\ Len(ids) \in Nat /\ InOrder(ids)
      /\ \A i \in 1..Len(ids) : /\ FlightOf(ids[i]) \in db /\ FlightOf(ids[i]) \in Flight
                                /\ Row(ids[i]) = record[FlightOf(ids[i])]
                                /\ record[FlightOf(ids[i])].airport_from = a
      /\ \A i, j \in 1..Len(ids) : FlightOf(ids[i]) = FlightOf(ids[j]) => i = j
      /\ \A f \in db : record[f].airport_from = a => \E i \in 1..Len(ids) : FlightOf(ids[i]) = f
  BY <1>1, Departure
<1>3. Graph!DiscreteChildrenOf(n)
        = {f \in db : record[f].airport_from = a /\ record[f].datetime_from >= n.no_sooner_than}
  BY DEF Graph!DiscreteChildrenOf
<1>4. EdgesFrom(n) = found
  BY DEF EdgesFrom
<1> HIDE DEF ids, a, db
<1>5. \A i \in 1..Len(ids) :
        (~(Row(ids[i]).datetime_from < n.no_sooner_than)
           <=> record[FlightOf(ids[i])].datetime_from >= n.no_sooner_than)
  BY <1>1, <1>2, RecordType
<1>6. {FlightOf(ids[i]) : i \in found} = Graph!DiscreteChildrenOf(n)
  <2>1. ASSUME NEW i \in found PROVE FlightOf(ids[i]) \in Graph!DiscreteChildrenOf(n)
    BY <1>2, <1>3, <1>5
  <2>2. ASSUME NEW f \in Graph!DiscreteChildrenOf(n) PROVE \E i \in found : FlightOf(ids[i]) = f
    <3>1. f \in db /\ record[f].airport_from = a /\ record[f].datetime_from >= n.no_sooner_than
      BY <1>3
    <3>2. PICK i \in 1..Len(ids) : FlightOf(ids[i]) = f
      BY <1>2, <3>1
    <3>3. i \in found
      BY <1>5, <3>1, <3>2
    <3> QED BY <3>2, <3>3
  <2> HIDE DEF found
  <2> QED BY <2>1, <2>2
<1>7. ASSUME NEW i \in found, NEW j \in found, i < j
      PROVE  /\ FlightOf(ids[i]) # FlightOf(ids[j])
             /\ ~Graph!Before(FlightOf(ids[j]), FlightOf(ids[i]))
  <2>1. i \in 1..Len(ids) /\ j \in 1..Len(ids) /\ i # j
    BY <1>2, <1>7
  <2>2. ~DepartsBefore(ids[j], ids[i])
    BY <1>2, <1>7, <2>1 DEF InOrder
  <2>3. Row(ids[i]) = record[FlightOf(ids[i])] /\ Row(ids[j]) = record[FlightOf(ids[j])]
    BY <1>2, <2>1
  <2>4. ~Graph!Before(FlightOf(ids[j]), FlightOf(ids[i]))
    BY <2>2, <2>3 DEF DepartsBefore, Graph!Before
  <2> QED BY <1>2, <2>1, <2>4
<1> HIDE DEF found
<1> QED BY <1>4, <1>6, <1>7 DEF EdgesMatch, ids, a

LEMMA RecordsFoundOnce ==
  ASSUME Basics, RangeInv, LoadInv, IndexInv, Built,
         NEW m \in Graph!Node, NEW n \in Graph!Node, Holds(from_index, m.airport)
  PROVE  RecordsMatch(m, n)
<1> DEFINE a == m.airport
           ids == from_index.elements[a]
           db == {records[p].flight : p \in 1..Len(records)}
           found == {i \in 1..Len(ids) : /\ Row(ids[i]).airport_to = n.airport
                                         /\ Row(ids[i]).datetime_to = n.no_sooner_than}
           between == Graph!RecordsBetween(m, n)
<1>1. a \in Airport /\ Holds(from_index, a)
      /\ n = [airport |-> n.airport, no_sooner_than |-> n.no_sooner_than]
  BY DEF Graph!Node
<1>2. /\ Len(ids) \in Nat
      /\ \A i \in 1..Len(ids) : /\ FlightOf(ids[i]) \in db
                                /\ Row(ids[i]) = record[FlightOf(ids[i])]
                                /\ record[FlightOf(ids[i])].airport_from = a
      /\ \A i, j \in 1..Len(ids) : FlightOf(ids[i]) = FlightOf(ids[j]) => i = j
      /\ \A f \in db : record[f].airport_from = a => \E i \in 1..Len(ids) : FlightOf(ids[i]) = f
  BY <1>1, Departure
<1>3. between = {f \in db : record[f].airport_from = a /\ Graph!Arrival(f) = n}
  BY DEF Graph!RecordsBetween
<1>4. RecordsFound(m, n) = found
  BY DEF RecordsFound
<1> HIDE DEF ids, a, db, between
<1>5. \A f : Graph!Arrival(f) = n
        <=> (record[f].airport_to = n.airport /\ record[f].datetime_to = n.no_sooner_than)
  <2> SUFFICES ASSUME NEW f
               PROVE  Graph!Arrival(f) = n
                        <=> (record[f].airport_to = n.airport /\ record[f].datetime_to = n.no_sooner_than)
    OBVIOUS
  <2>1. Graph!Arrival(f) = [airport |-> record[f].airport_to, no_sooner_than |-> record[f].datetime_to]
    BY DEF Graph!Arrival
  <2> QED BY <1>1, <2>1
<1>6. ASSUME NEW i \in found PROVE FlightOf(ids[i]) \in between
  BY <1>2, <1>3, <1>5
<1>7. ASSUME NEW f \in between PROVE \E i \in found : FlightOf(ids[i]) = f
  <2>1. f \in db /\ record[f].airport_from = a /\ Graph!Arrival(f) = n
    BY <1>3
  <2>2. PICK i \in 1..Len(ids) : FlightOf(ids[i]) = f
    BY <1>2, <2>1
  <2>3. i \in found
    BY <1>2, <1>5, <2>1, <2>2
  <2> QED BY <2>2, <2>3
<1>8. \A i, j \in found : FlightOf(ids[i]) = FlightOf(ids[j]) => i = j
  BY <1>2
<1>9. IsFiniteSet(found)
  <2>1. IsFiniteSet(1..Len(ids))
    BY <1>2, FS_Interval
  <2> QED BY <2>1, FS_Subset
<1> HIDE DEF found
<1>10. {FlightOf(ids[i]) : i \in found} = between
  BY <1>6, <1>7
<1>11. Cardinality(found) = Cardinality(between)
  <2> DEFINE h == [i \in found |-> FlightOf(ids[i])]
  <2>1. h \in [found -> between]
    BY <1>6
  <2>2. \A i \in found : h[i] = FlightOf(ids[i])
    OBVIOUS
  <2> HIDE DEF h
  <2>3. \A i, j \in found : h[i] = h[j] => i = j
    BY <1>8, <2>2
  <2>4. \A f \in between : \E i \in found : h[i] = f
    BY <1>7, <2>2
  <2>5. h \in Injection(found, between)
    BY <2>1, <2>3 DEF Injection, IsInjective
  <2>6. h \in Bijection(found, between)
    BY <2>1, <2>4, <2>5 DEF Bijection, Surjection
  <2>7. ExistsBijection(found, between)
    BY <2>6 DEF ExistsBijection
  <2> QED BY <1>9, <2>7, FS_Bijection
<1> QED BY <1>4, <1>10, <1>11 DEF RecordsMatch, ids, a, between

(* Whatever the file and the order in which std::sort leaves equal ids,    *)
(* the indices of a finished database whose ids are positions answer as    *)
(* FlightGraph says: the airports in range; the edges, in the order on     *)
(* which the searches rely; the arrivals; and, as many times as there are  *)
(* flights, the records of a step of a path.                               *)
THEOREM IndicesGiveGraph == Spec => []LookupsMatchGraph
<1>1. Basics /\ RangeInv /\ LoadInv /\ IndexInv => LookupsMatchGraph
  <2> SUFFICES ASSUME Basics, RangeInv, LoadInv, IndexInv, Built
               PROVE  /\ RangeMatches
                      /\ \A a \in Airport : Holds(to_index, a) => ArrivalsMatch(a)
                      /\ \A n \in Graph!Node : Holds(from_index, n.airport) => EdgesMatch(n)
                      /\ \A m, n \in Graph!Node : Holds(from_index, m.airport) => RecordsMatch(m, n)
    BY DEF LookupsMatchGraph
  <2> QED BY RangeFound, ArrivalsFound, EdgesFound, RecordsFoundOnce
<1> QED BY <1>1, TypeInvariant, LoadInvariant, IndexInvariant, PTL

-----------------------------------------------------------------------------
(* Well-formed files are accepted *)

(* A line that is read while lines and records agree belongs to the        *)
(* content, as all before it do, unless it is the empty one that ends it.  *)
LEMMA LineIsContent ==
  ASSUME Basics, file # NoFile, Following, Len(records) + 2 \in 1..Len(file.lines),
         file.lines[Len(records) + 2] # Blank
  PROVE  2..Len(records) + 2 \subseteq Content
<1>1. records \in Seq(Entry) /\ Len(records) \in Nat /\ Len(file.lines) \in Nat
  BY FileType DEF Basics
<1>2. ASSUME NEW j \in 2..Len(records) + 2 PROVE j \in 2..Len(file.lines) /\ file.lines[j] # Blank
  <2>1. j \in 2..Len(file.lines)
    BY <1>1
  <2>2. CASE j = Len(records) + 2
    BY <2>1, <2>2
  <2>3. CASE j # Len(records) + 2
    <3>1. j - 1 \in 1..Len(records) /\ (j - 1) + 1 = j
      BY <1>1, <2>3
    <3>2. records[j - 1] = file.lines[j] /\ records[j - 1] \in Entry
      BY <1>1, <3>1, ElementOfSeq DEF Following, Recorded
    <3> QED BY <2>1, <3>2, LineAssumption
  <2> QED BY <2>2, <2>3
<1>3. ASSUME NEW i \in 2..Len(records) + 2 PROVE i \in Content
  <2>1. \A j \in 2..i : j \in 2..Len(records) + 2
    BY <1>1
  <2> QED BY <1>2, <2>1 DEF Content
<1> QED BY <1>3

(* What the loop reads from a well-formed file is an empty line or a       *)
(* flight for which there is memory.                                       *)
LEMMA WellFormedLine ==
  ASSUME Basics, file # NoFile, WellFormed, Following \/ NoLine \/ Stuck, GetLine, line' # Blank
  PROVE  line' # Garbled /\ Len(records) < MaxRecords
<1>1. file.terminated
  BY DEF WellFormed
<1>2. Following
  BY <1>1 DEF NoLine, Stuck, GetLine, stream
<1>3. rest # <<>>
  BY <1>2 DEF Following, GetLine
<1>4. Len(records) + 2 \in 1..Len(file.lines) /\ line' = file.lines[Len(records) + 2]
  BY <1>2, <1>3, LineFollows
<1>5. 2..Len(records) + 2 \subseteq Content
  BY <1>2, <1>4, LineIsContent
<1>6. Len(records) \in Nat /\ Len(file.lines) \in Nat
  BY FileType DEF Basics
<1>7. line' # Garbled
  <2>1. Len(records) + 2 \in Content
    BY <1>5, <1>6
  <2> QED BY <1>4, <2>1, LineAssumption DEF WellFormed
<1>8. Len(records) < MaxRecords
  <2>1. Content \subseteq 2..Len(file.lines)
    BY DEF Content
  <2>2. IsFiniteSet(2..Len(file.lines))
    BY <1>6, FS_Interval
  <2>3. IsFiniteSet(Content)
    BY <2>1, <2>2, FS_Subset
  <2>4. Cardinality(2..Len(records) + 2) <= Cardinality(Content)
    BY <1>5, <2>3, FS_Subset
  <2>5. Cardinality(2..Len(records) + 2) = Len(records) + 1
    <3>1. \A b \in Int : Cardinality(2..b) = IF 2 > b THEN 0 ELSE b - 2 + 1
      BY FS_Interval
    <3>2. Len(records) + 2 \in Int
      BY <1>6
    <3> QED BY <1>6, <3>1, <3>2
  <2>6. Cardinality(Content) \in Nat /\ Cardinality(Content) <= MaxRecords
    BY MaxRecordsAssumption DEF WellFormed
  <2> QED BY <1>6, <2>4, <2>5, <2>6, MaxRecordsAssumption
<1> QED BY <1>7, <1>8

(* The ids of a well-formed file are positions, and there is a record.     *)
LEMMA WellFormedRecords ==
  ASSUME Basics, file # NoFile, WellFormed, Loaded
  PROVE  IdsArePositions /\ records # <<>>
<1>1. Content = 2..Len(records) + 1 /\ Cardinality(Content) = Len(records)
  BY ContentLoaded
<1>2. records \in Seq(Entry) /\ Len(records) \in Nat
  BY DEF Basics
<1>3. ASSUME NEW p \in 1..Len(records) PROVE records[p].id = p
  <2>1. p + 1 \in Content /\ (p + 1) - 1 = p
    BY <1>1, <1>2
  <2>2. records[p] = file.lines[p + 1]
    BY DEF Loaded, Recorded
  <2> QED BY <2>1, <2>2 DEF WellFormed
<1>4. Len(records) # 0
  BY <1>1, <1>2 DEF WellFormed
<1> QED BY <1>3, <1>4 DEF IdsArePositions

Accepted == WellFormed => phase \notin {"terminated", "undefined"}

LEMMA AcceptedKept ==
  ASSUME Basics, RangeInv, LoadInv, IndexInv, Accepted, [Next]_vars
  PROVE  Accepted'
<1>1. file' = file
  BY DEF vars, Next, OpenFile, ReadHeader, LoadLine, MemoryExhausted, InitAirportRange, IndexRecord,
         IndexDone, SortDepartures, SortArrivals, SortPastEnd
<1>2. SUFFICES ASSUME WellFormed, file # NoFile, phase \notin {"terminated", "undefined"}
               PROVE  phase' \notin {"terminated", "undefined"}
  BY <1>1 DEF Accepted, WellFormed, Content
<1>3. CASE LoadLine
  <2>1. GetLine /\ (Following \/ NoLine \/ Stuck)
    BY <1>3 DEF LoadLine, LoadInv
  <2>2. line' # Blank => line' # Garbled
    BY <1>2, <2>1, WellFormedLine
  <2> QED BY <1>3, <2>2, LineAssumption DEF LoadLine
<1>4. CASE MemoryExhausted
  <2>1. GetLine /\ (Following \/ NoLine \/ Stuck) /\ Len(records) = MaxRecords
    BY <1>4 DEF MemoryExhausted, LoadInv
  <2>2. line' = Blank
    BY <1>2, <2>1, WellFormedLine, MaxRecordsAssumption
  <2> QED BY <1>4, <2>2 DEF MemoryExhausted
<1>5. ASSUME SortPastEnd PROVE FALSE
  <2>1. phase \in {"sort from", "sort to"} /\ phase \in Indexing
    BY <1>5 DEF SortPastEnd, Indexing
  <2>2. Loaded /\ cursor \in range.min..range.max
    BY <2>1 DEF LoadInv, RangeInv
  <2>3. IdsArePositions
    BY <1>2, <2>2, WellFormedRecords
  <2>4. /\ Bucket(from_index.elements[cursor], cursor, Departs, Len(records))
        /\ Bucket(to_index.elements[cursor], cursor, Arrives, Len(records))
    BY <2>1, <2>2, <2>3 DEF IndexInv, Fills
  <2>5. ~ReadsPastEnd(from_index.elements[cursor]) /\ ~ReadsPastEnd(to_index.elements[cursor])
    BY <2>4 DEF ReadsPastEnd, Bucket
  <2> QED BY <1>5, <2>5 DEF SortPastEnd
<1>6. CASE UNCHANGED vars
  BY <1>2, <1>6 DEF vars
<1>7. CASE OpenFile \/ ReadHeader \/ InitAirportRange \/ IndexRecord \/ IndexDone
           \/ SortDepartures \/ SortArrivals
  BY <1>2, <1>7 DEF OpenFile, ReadHeader, InitAirportRange, IndexRecord, IndexDone,
                    SortDepartures, SortArrivals, NextAirport
<1> QED BY <1>3, <1>4, <1>5, <1>6, <1>7 DEF Next

(* A well-formed file never makes the program end, no record past the end  *)
(* is read in sorting, and there is a first record for InitAirportRange to *)
(* read: what LoadsIfWellFormed says, without that the end is reached.     *)
THEOREM WellFormedIsAccepted ==
  Spec => [](WellFormed => /\ phase \notin {"terminated", "undefined"}
                           /\ phase = "range" => records # <<>>)
<1>1. Init => Accepted
  BY DEF Init, Accepted
<1>2. Basics /\ RangeInv /\ LoadInv /\ IndexInv /\ Accepted /\ [Next]_vars => Accepted'
  BY AcceptedKept
<1>3. Basics /\ LoadInv /\ Accepted =>
        (WellFormed => /\ phase \notin {"terminated", "undefined"}
                       /\ phase = "range" => records # <<>>)
  <2> SUFFICES ASSUME Basics, LoadInv, WellFormed, phase = "range" PROVE records # <<>>
    BY DEF Accepted
  <2>1. file # NoFile /\ Loaded
    BY DEF WellFormed, LoadInv
  <2> QED BY <2>1, WellFormedRecords
<1> QED BY <1>1, <1>2, <1>3, TypeInvariant, LoadInvariant, IndexInvariant, PTL DEF Spec
=============================================================================
