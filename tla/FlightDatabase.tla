---------------------------- MODULE FlightDatabase ----------------------------
(***************************************************************************)
(* The construction of FlightDatabase, which happens before main runs: the *)
(* data file is read line by line, the range of airports is computed, and  *)
(* every record is entered into two indices, by its departure and by its   *)
(* arrival, which are then sorted.                                         *)
(*                                                                         *)
(* FlightGraph describes the graph by the set of flights loaded.  Here it  *)
(* is shown that the lookups on the indices give just that, provided that  *)
(* the ids in the file are the positions of its lines.                     *)
(***************************************************************************)
EXTENDS NodeContainer, FiniteSets

CONSTANTS
  Airport, Time, Flight, record,    \* as in FlightGraph
  Files,        \* the data files considered, NoFile among them or not
  NoFile,       \* there is no file
  Blank,        \* an empty line
  Garbled,      \* a line ParseRecord cannot parse; the header is one
  NoRange,      \* airport_range has not been computed yet
  MaxRecords    \* records that fit into memory

(* A line with a flight; each such line stands for a flight of its own, if *)
(* need be one with the same fields as another.                            *)
Entry == [id : Nat, flight : Flight]
Line == Entry \cup {Blank, Garbled}

(* `terminated' tells whether the last line ends in a newline. *)
File == [lines : Seq(Line), terminated : BOOLEAN]

ASSUME RecordAssumption ==
  record \in [Flight -> [airport_from : Airport, airport_to : Airport,
                         datetime_from : Time, datetime_to : Time, price : Nat]]
ASSUME DomainAssumption == Airport \subseteq Int /\ Time \subseteq Int
ASSUME LineAssumption == Blank \notin Entry /\ Garbled \notin Entry /\ Blank # Garbled
ASSUME FilesAssumption ==
  \A file \in Files \ {NoFile} :
    /\ file \in File
    /\ ~file.terminated => file.lines # <<>> /\ file.lines[Len(file.lines)] # Blank
    /\ \A i, j \in 1..Len(file.lines) :
         file.lines[i] \in Entry /\ file.lines[j] \in Entry /\ i # j =>
           file.lines[i].flight # file.lines[j].flight
ASSUME MaxRecordsAssumption == MaxRecords \in Nat

VARIABLES
  file,         \* the data file
  phase,        \* how far the construction is
  rest,         \* the lines std::getline has not consumed
  good,         \* the stream's state: end of file not met
  line,         \* the string that std::getline reads into
  records,      \* FlightDatabase::records
  range,        \* airport_range
  from_index,   \* airport_from_bucket_index
  to_index,     \* airport_to_bucket_index
  cursor        \* where the loop over records or airports is

stream == <<rest, good, line>>
indices == <<from_index, to_index>>
vars == <<file, phase, stream, records, range, indices, cursor>>

(* "terminated": an exception left a constructor during static             *)
(* initialisation.  "undefined": a record past the end was read; nothing   *)
(* is said of what follows.                                                *)
Phases == {"open", "header", "load", "range", "index", "sort from", "sort to",
           "ready", "terminated", "undefined"}

AirportBounds == [min : Airport, max : Airport]

TypeOK ==
  /\ file \in File \cup {NoFile}
  /\ phase \in Phases
  /\ rest \in Seq(Line) /\ good \in BOOLEAN /\ line \in Line
  /\ records \in Seq(Entry)
  /\ range \in AirportBounds \cup {NoRange}
  /\ range # NoRange =>
       \A c \in {from_index, to_index} :
         /\ c.min = range.min /\ c.max = range.max
         /\ \A a \in range.min..range.max :
              c.elements[a] \in Seq(Nat) /\ c.datetimes[a] \in Seq(Time)
  /\ cursor \in Int

NoIndex == Container(1, 0)

Init ==
  /\ file \in Files
  /\ phase = "open"
  /\ rest = <<>> /\ good = TRUE /\ line = Blank
  /\ records = <<>>
  /\ range = NoRange
  /\ from_index = NoIndex /\ to_index = NoIndex
  /\ cursor = 1

-----------------------------------------------------------------------------
(* LoadDatabase *)

OpenFile ==
  /\ phase = "open"
  /\ IF file = NoFile
     THEN phase' = "terminated" /\ UNCHANGED rest
     ELSE phase' = "header" /\ rest' = file.lines
  /\ UNCHANGED <<file, good, line, records, range, indices, cursor>>

(* Faulty variant: the string is not cleared at the end of the file. *)
LineKept ==
  IF rest = <<>>
  THEN good' = FALSE /\ UNCHANGED <<line, rest>>
  ELSE /\ line' = Head(rest)
       /\ rest' = Tail(rest)
       /\ good' = (Len(rest) > 1 \/ file.terminated)

(* std::getline.  It does nothing to the string once the end of the file   *)
(* has been met, and meets it in reading a line that has no newline.       *)
GetLine ==
  IF ~good THEN UNCHANGED stream
  ELSE IF rest = <<>> THEN line' = Blank /\ good' = FALSE /\ UNCHANGED rest
  ELSE /\ line' = Head(rest)
       /\ rest' = Tail(rest)
       /\ good' = (Len(rest) > 1 \/ file.terminated)

(* Faulty variant: two lines are skipped.                                  *)
TwoLinesRead ==
  /\ phase = "header"
  /\ phase' = "load"
  /\ rest' = SubSeq(rest, 3, Len(rest))
  /\ UNCHANGED <<file, good, line, records, range, indices, cursor>>

ReadHeader ==
  /\ phase = "header"
  /\ GetLine
  /\ phase' = "load"
  /\ UNCHANGED <<file, records, range, indices, cursor>>

(* One turn of the loop: an empty line ends it, a line that cannot be      *)
(* parsed ends the program.                                                *)
LoadLine ==
  /\ phase = "load"
  /\ Len(records) < MaxRecords
  /\ GetLine
  /\ CASE line' = Blank -> phase' = "range" /\ UNCHANGED records
       [] line' = Garbled -> phase' = "terminated" /\ UNCHANGED records
       [] OTHER -> records' = Append(records, line') /\ UNCHANGED phase
  /\ UNCHANGED <<file, range, indices, cursor>>

(* push_back finds no memory. *)
MemoryExhausted ==
  /\ phase = "load"
  /\ Len(records) = MaxRecords
  /\ GetLine
  /\ IF line' = Blank THEN phase' = "range" ELSE phase' = "terminated"
  /\ UNCHANGED <<file, records, range, indices, cursor>>

-----------------------------------------------------------------------------
(* InitAirportRange and InitAirportBucketIndex *)

(* QueryRecordById and the comparators take an id for a position. *)
Row(id) == record[records[id].flight]

AirportsIn(rs) ==
  UNION {{record[rs[p].flight].airport_from, record[rs[p].flight].airport_to} : p \in 1..Len(rs)}

(* Lowest and highest airport of all records.  Without any, the first      *)
(* record is read all the same, from memory that holds anything.           *)
AirportRange ==
  LET S == AirportsIn(records)
  IN  IF S = {} THEN {r \in AirportBounds : r.min = r.max}
      ELSE {r \in AirportBounds : /\ r.min \in S /\ r.max \in S
                          /\ \A a \in S : r.min <= a /\ a <= r.max}

InitAirportRange ==
  /\ phase = "range"
  /\ range' \in AirportRange
  /\ from_index' = Container(range'.min, range'.max)
  /\ to_index' = Container(range'.min, range'.max)
  /\ phase' = "index"
  /\ UNCHANGED <<file, stream, records, cursor>>

ArrivalEntered(r) ==
  Added(to_index, record[r.flight].airport_to, record[r.flight].datetime_to, r.id)

(* Add never throws: the range is that of all records. *)
IndexRecord ==
  /\ phase = "index"
  /\ cursor <= Len(records)
  /\ LET r == records[cursor] IN
     /\ from_index' = Added(from_index, record[r.flight].airport_from,
                            record[r.flight].datetime_from, r.id)
     /\ to_index' = ArrivalEntered(r)
  /\ cursor' = cursor + 1
  /\ UNCHANGED <<file, phase, stream, records, range>>

IndexDone ==
  /\ phase = "index"
  /\ cursor > Len(records)
  /\ phase' = "sort from"
  /\ cursor' = range.min
  /\ UNCHANGED <<file, stream, records, range, indices>>

(* Faulty variant: the comparator has the records the wrong way round. *)
DepartsAfter(a, b) == Row(a).datetime_from > Row(b).datetime_from

(* The comparators of the two indices, on ids. *)
DepartsBefore(a, b) ==
  \/ Row(a).datetime_from < Row(b).datetime_from
  \/ Row(a).datetime_from = Row(b).datetime_from /\ Row(a).airport_to < Row(b).airport_to

ArrivesBefore(a, b) ==
  \/ Row(a).datetime_to < Row(b).datetime_to
  \/ Row(a).datetime_to = Row(b).datetime_to /\ Row(a).airport_from < Row(b).airport_from

(* The comparator is called for two records or more; then it reads every   *)
(* one of them.                                                            *)
ReadsPastEnd(bucket) ==
  Len(bucket) > 1 /\ \E i \in 1..Len(bucket) : bucket[i] \notin 1..Len(records)

(* The loop over airports goes on, or the next phase begins. *)
NextAirport(next) ==
  IF cursor < range.max
  THEN cursor' = cursor + 1 /\ UNCHANGED phase
  ELSE cursor' = range.min /\ phase' = next

(* Sort, one airport a step.  std::sort leaves ids that are equal in the   *)
(* comparator in any order.                                                *)
SortDepartures ==
  /\ phase = "sort from"
  /\ LET bucket == from_index.elements[cursor] IN
     /\ ~ReadsPastEnd(bucket)
     /\ \E p \in Arrangements(Len(bucket)) :
          /\ \A i, j \in 1..Len(bucket) : i < j => ~DepartsBefore(bucket[p[j]], bucket[p[i]])
          /\ from_index' = Rearranged(from_index, cursor, p)
  /\ NextAirport("sort to")
  /\ UNCHANGED <<file, stream, records, range, to_index>>

SortArrivals ==
  /\ phase = "sort to"
  /\ LET bucket == to_index.elements[cursor] IN
     /\ ~ReadsPastEnd(bucket)
     /\ \E p \in Arrangements(Len(bucket)) :
          /\ \A i, j \in 1..Len(bucket) : i < j => ~ArrivesBefore(bucket[p[j]], bucket[p[i]])
          /\ to_index' = Rearranged(to_index, cursor, p)
  /\ NextAirport("ready")
  /\ UNCHANGED <<file, stream, records, range, from_index>>

(* A comparator reads a record past the end. *)
SortPastEnd ==
  /\ \/ phase = "sort from" /\ ReadsPastEnd(from_index.elements[cursor])
     \/ phase = "sort to" /\ ReadsPastEnd(to_index.elements[cursor])
  /\ phase' = "undefined"
  /\ UNCHANGED <<file, stream, records, range, indices, cursor>>

Next ==
  \/ OpenFile \/ ReadHeader \/ LoadLine \/ MemoryExhausted
  \/ InitAirportRange \/ IndexRecord \/ IndexDone
  \/ SortDepartures \/ SortArrivals \/ SortPastEnd

(* Static initialisation runs before anything else, on one thread. *)
Spec == Init /\ [][Next]_vars /\ WF_vars(Next)

-----------------------------------------------------------------------------
(* The lookups on a finished database *)

(* QueryRecordById *)
FlightOf(id) == records[id].flight

(* The loop of DiscreteChildrenOf: the places in the airport's departures. *)
EdgesFrom(n) ==
  LET ids == from_index.elements[n.airport]
  IN  {i \in 1..Len(ids) : ~(Row(ids[i]).datetime_from < n.no_sooner_than)}

(* The loop of QueryRecordByAirportsAndArrivalTime: the places it finds.   *)
RecordsFound(from, to) ==
  LET ids == from_index.elements[from.airport]
  IN  {i \in 1..Len(ids) : /\ Row(ids[i]).airport_to = to.airport
                           /\ Row(ids[i]).datetime_to = to.no_sooner_than}

-----------------------------------------------------------------------------
(***************************************************************************)
(* Properties                                                              *)
(***************************************************************************)

(* The lines of a file up to the first empty one, without the header.      *)
Content ==
  {i \in 2..Len(file.lines) : \A j \in 2..i : file.lines[j] # Blank}

(* What is loaded is the content of the file, each line once and in its    *)
(* place: nothing is skipped but what comes after an empty line.  A file   *)
(* whose last line has no newline is never loaded: that line is read over  *)
(* and over until memory is exhausted.                                     *)
RecordsAreLines ==
  phase \in {"range", "index", "sort from", "sort to", "ready"} =>
    /\ Len(records) = Cardinality(Content)
    /\ \A i \in 1..Len(records) : records[i] = file.lines[i + 1]
    /\ file.terminated \/ \E i \in 2..Len(file.lines) : file.lines[i] = Blank

(* A file that is well-formed is loaded to the end: it has a flight, ends  *)
(* in a newline or an empty line, and its ids are the positions of its     *)
(* lines.                                                                  *)
WellFormed ==
  /\ file # NoFile
  /\ file.terminated
  /\ Cardinality(Content) \in 1..MaxRecords
  /\ \A i \in Content : file.lines[i] \in Entry /\ file.lines[i].id = i - 1

LoadsIfWellFormed == WellFormed ~> (phase = "ready")

-----------------------------------------------------------------------------
(* The finished database gives the searches the graph of FlightGraph. *)

Graph == INSTANCE FlightGraph WITH
  db <- {records[p].flight : p \in 1..Len(records)},
  Databases <- SUBSET Flight,
  IntMax <- 2147483647

(* What FlightGraph takes for granted: ids are positions. *)
IdsArePositions == \A p \in 1..Len(records) : records[p].id = p

Built == phase = "ready" /\ IdsArePositions /\ records # <<>>

(* The loop over an airport's departures finds the edges of the graph,     *)
(* each once, in the order that the searches rely on.                      *)
EdgesMatch(n) ==
  LET ids == from_index.elements[n.airport]
      found == EdgesFrom(n)
  IN  /\ {FlightOf(ids[i]) : i \in found} = Graph!DiscreteChildrenOf(n)
      /\ \A i, j \in found : i < j =>
           /\ FlightOf(ids[i]) # FlightOf(ids[j])
           /\ ~Graph!Before(FlightOf(ids[j]), FlightOf(ids[i]))

RangeMatches == \A a \in Airport : Holds(from_index, a) <=> Graph!Within(a)

ArrivalsMatch(a) ==
  LET ids == to_index.elements[a]
  IN  {Graph!Arrival(FlightOf(ids[i])) : i \in 1..Len(ids)} = Graph!ArrivalsAt(a)

RecordsMatch(m, n) ==
  LET ids == from_index.elements[m.airport]
      found == RecordsFound(m, n)
  IN  /\ {FlightOf(ids[i]) : i \in found} = Graph!RecordsBetween(m, n)
      /\ Cardinality(found) = Cardinality(Graph!RecordsBetween(m, n))

(* What a finished database answers is what FlightGraph says: which        *)
(* airports are in range; the edges, in the order that the searches rely   *)
(* on; the arrivals that SyncAirportStatus loops over; and the records     *)
(* that ConvertPath finds for a step of a path, hence whether it throws.   *)
LookupsMatchGraph ==
  Built =>
    /\ RangeMatches
    /\ \A a \in Airport : Holds(to_index, a) => ArrivalsMatch(a)
    /\ \A n \in Graph!Node : Holds(from_index, n.airport) => EdgesMatch(n)
    /\ \A m, n \in Graph!Node : Holds(from_index, m.airport) => RecordsMatch(m, n)
=============================================================================
