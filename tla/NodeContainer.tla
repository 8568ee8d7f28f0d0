---------------------------- MODULE NodeContainer ----------------------------
(***************************************************************************)
(* AbstractFlightGraphNodeContainer: elements kept by airport.  Each       *)
(* airport of a range has two parallel vectors, one of elements and one of *)
(* their times; an element and its time stand at the same place.  The      *)
(* database keeps its two indices in such containers (of record ids), and  *)
(* a graph its pool (of nodes).                                            *)
(***************************************************************************)
EXTENDS Integers, Sequences

(* An empty container for the airports lo..hi. *)
Container(lo, hi) ==
  [min |-> lo, max |-> hi,
   elements |-> [a \in lo..hi |-> <<>>],
   datetimes |-> [a \in lo..hi |-> <<>>]]

(* WithinOrThrow, the first thing Add and both Get do. *)
Holds(c, a) == c.min <= a /\ a <= c.max

(* Faulty variant: element and time are swapped. *)
Swapped(c, a, t, e) ==
  [c EXCEPT !.elements[a] = Append(@, t), !.datetimes[a] = Append(@, e)]

Added(c, a, t, e) ==
  [c EXCEPT !.elements[a] = Append(@, e), !.datetimes[a] = Append(@, t)]

(* Get(airport, datetime) looks at all times.  It throws if it finds the   *)
(* time twice.                                                             *)
Slots(c, a, t) == {i \in 1..Len(c.datetimes[a]) : c.datetimes[a][i] = t}

NonUnique(c, a, t) == \E i, j \in Slots(c, a, t) : i # j

Found(c, a, t) == {c.elements[a][i] : i \in Slots(c, a, t)}

(* Sort, on one airport: both vectors are rearranged by the permutation p. *)
Rearranged(c, a, p) ==
  [c EXCEPT !.elements[a] = [i \in 1..Len(@) |-> @[p[i]]],
            !.datetimes[a] = [i \in 1..Len(@) |-> @[p[i]]]]

(* The permutations of the numbers 1..n. *)
Arrangements(n) == {p \in [1..n -> 1..n] : \A i, j \in 1..n : p[i] = p[j] => i = j}
=============================================================================
