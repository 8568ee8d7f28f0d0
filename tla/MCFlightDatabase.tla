--------------------------- MODULE MCFlightDatabase ---------------------------
(* Small instances of FlightDatabase. *)
EXTENDS FlightDatabase

F(a, b, t, u) == [airport_from |-> a, airport_to |-> b,
                  datetime_from |-> 10 + t, datetime_to |-> 10 + u, price |-> 1]

(* Flights 1 and 2 are equal; 1, 3 and 4 leave one airport, two of them at *)
(* one time; 3 and 5 land together.                                        *)
MCRecord == << F(1,2,1,2), F(1,2,1,2), F(1,3,1,2), F(1,2,0,1), F(2,3,0,2) >>

MCFlight == 1..Len(MCRecord)

(* Up to three lines: flights with ids, an empty line, a garbled one. *)
Choices(n) ==
  {s \in [1..n -> MCFlight \cup {Blank, Garbled}] :
     \A i, j \in 1..n : s[i] \in MCFlight /\ s[j] \in MCFlight /\ i # j => s[i] # s[j]}

(* The ids are the positions, are in reverse, repeat, or leave a gap. *)
Ids(n) ==
  {[i \in 1..n |-> i], [i \in 1..n |-> n + 1 - i], [i \in 1..n |-> 1], [i \in 1..n |-> i + 1]}

MCFiles ==
  {NoFile} \cup
  {[lines |-> l, terminated |-> t] : t \in BOOLEAN, l \in {<<Garbled>>}} \cup
  {[lines |-> <<>>, terminated |-> TRUE]} \cup
  {f \in UNION {{[lines |-> <<Garbled>> \o
                     [i \in 1..n |-> IF s[i] \in MCFlight THEN [id |-> ids[i], flight |-> s[i]]
                                     ELSE s[i]],
                  terminated |-> t] :
                   s \in Choices(n), ids \in Ids(n), t \in BOOLEAN} : n \in 1..3} :
     f.terminated \/ f.lines[Len(f.lines)] # Blank}
=============================================================================
