---------------------------- MODULE CommandLoop -----------------------------
(***************************************************************************)
(* main: reads lines, takes a command and its arguments off each, calls    *)
(* the planner and prints what it answers.                                 *)
(*                                                                         *)
(* A line is a sequence of lexemes: numbers, words and the three           *)
(* separators the code looks for.  A date and time is the five numbers     *)
(* that ParseDateTime finds, in their order.  Of what is printed only the  *)
(* kind is kept.                                                           *)
(***************************************************************************)
EXTENDS Integers, Sequences, FiniteSets

CONSTANTS
  Number,       \* lexemes that std::stoi converts
  Word,         \* lexemes that are neither numbers nor commands nor separators
  Requests,     \* commands that a user may mean: an operation and its arguments
  Inputs        \* what may be typed: the lines, and whether the last one has its newline

VARIABLES
  input,        \* all that is typed: never changes
  read,         \* the number of lines read
  query,        \* what is left of the line in hand
  operation,    \* the command
  arguments,    \* the arguments that were read
  phase,
  printed       \* the answer to each line dealt with, and the call it made

vars == <<input, read, query, operation, arguments, phase, printed>>

Space == " "
Slash == "/"
Colon == ":"

(* The commands and what they read.  No other word starts a call. *)
Signature ==
  LET from == <<"int", "datetime">>
      pair == <<"int", "int">>
      between == pair \o <<"datetime", "datetime">>
  IN  [dfs |-> from, bfs |-> from, connectivity |-> pair,
       all_paths |-> between, minimum_cost_path |-> between, shortest_path |-> between]

Commands == DOMAIN Signature

Separator == {Space, Slash, Colon}
Lexeme == Number \cup Word \cup Commands \cup Separator

(* getline on a finished file gives an empty line, and only then eof() is  *)
(* true; so one more line is read if the last one has its newline.         *)
LineCount == Len(input.lines) + IF input.terminated \/ input.lines = <<>> THEN 1 ELSE 0
Line(k) == IF k <= Len(input.lines) THEN input.lines[k] ELSE <<>>

(* A command that is meant comes with what it reads: a number for an       *)
(* airport, five for a date and time.                                      *)
ASSUME RequestAssumption ==
  \A c \in Requests :
    /\ c \in [operation : Commands, arguments : Seq(Seq(Number))]
    /\ Len(c.arguments) = Len(Signature[c.operation])
    /\ \A k \in DOMAIN c.arguments :
         Len(c.arguments[k]) = IF Signature[c.operation][k] = "int" THEN 1 ELSE 5

ASSUME InputAssumption ==
  Inputs \subseteq [lines : Seq(Seq(Lexeme)), terminated : BOOLEAN]

Init ==
  /\ input \in Inputs
  /\ read = 0 /\ query = <<>> /\ operation = <<>> /\ arguments = <<>>
  /\ phase = "prompt" /\ printed = <<>>

-----------------------------------------------------------------------------
First(places) == CHOOSE i \in places : \A j \in places : i <= j

(* s.find(sep), counted from 1; 0 is npos. *)
Find == [sep \in Separator |-> [s \in Seq(Lexeme) |->
           LET places == {i \in 1..Len(s) : s[i] = sep}
           IN  IF places = {} THEN 0 ELSE First(places)]]

(* s.substr(0, s.find(sep)) *)
Upto(s, sep) == IF Find[sep][s] = 0 THEN s ELSE SubSeq(s, 1, Find[sep][s] - 1)

(* Faulty variant: the separator is left in place. *)
From(s, sep) == IF Find[sep][s] = 0 THEN s ELSE SubSeq(s, Find[sep][s], Len(s))

(* s.substr(s.find(sep) + 1): after npos it is the whole string again. *)
After(s, sep) == SubSeq(s, Find[sep][s] + 1, Len(s))

(* std::stoi: the number a string begins with, after any spaces; without   *)
(* one it throws.                                                          *)
Throws == "throws"

ASSUME NumberAssumption ==
  Number \cap (Separator \cup Commands \cup {Throws}) = {}

Stoi == [s \in Seq(Lexeme) |->
           LET text == {i \in 1..Len(s) : s[i] # Space}
           IN  IF text # {} /\ s[First(text)] \in Number THEN s[First(text)] ELSE Throws]

ParseDateTime(s) ==
  LET afterMonth == After(s, Slash)
      afterDay == After(afterMonth, Slash)
      afterYear == After(afterDay, Space)
  IN  <<Stoi[Upto(s, Slash)], Stoi[Upto(afterMonth, Slash)], Stoi[Upto(afterDay, Space)],
        Stoi[Upto(afterYear, Colon)], Stoi[After(afterYear, Colon)]>>

(* ReadInt and ReadDateTime: the numbers they find on the line s, and the  *)
(* line that they leave.                                                   *)
Numbers(kind, s) ==
  IF kind = "int" THEN <<Stoi[Upto(s, Space)]>>
  ELSE ParseDateTime(Upto(s, Space) \o <<Space>> \o Upto(After(s, Space), Space))

Rest(kind, s) == IF kind = "int" THEN After(s, Space) ELSE After(After(s, Space), Space)

-----------------------------------------------------------------------------
NoCall == <<>>

(* Prints and goes back to the loop's condition, cin.eof(). *)
Answer(kind, call) ==
  /\ printed' = Append(printed, [said |-> kind, call |-> call])
  /\ phase' = IF read' = LineCount THEN "left" ELSE "prompt"

(* getline, the command and the dispatch on it. *)
ReadLine ==
  /\ phase = "prompt"
  /\ read' = read + 1
  /\ LET line == Line(read') IN
     /\ operation' = Upto(line, Space)
     /\ query' = After(line, Space)
  /\ arguments' = <<>>
  /\ CASE operation' = <<"exit">> -> phase' = "left" /\ UNCHANGED printed
       [] \E c \in Commands : operation' = <<c>> -> phase' = "reading" /\ UNCHANGED printed
       [] operation' = <<>> -> Answer("nothing", NoCall)
       [] OTHER -> Answer("unknown operation", NoCall)
  /\ UNCHANGED input

Command == operation[1]
Missing == Len(arguments) < Len(Signature[Command])

(* Faulty variant: what is thrown leaves the loop. *)
CatchOutside(call) == phase' = "left" /\ UNCHANGED printed

(* The handler is inside the loop. *)
Catch(call) == Answer("error", call)

ReadArgument ==
  /\ phase = "reading" /\ Missing
  /\ UNCHANGED <<input, read, operation>>
  /\ LET kind == Signature[Command][Len(arguments) + 1] IN
     /\ query' = Rest(kind, query)
     /\ \E found \in {Numbers(kind, query)} :
          IF \E i \in DOMAIN found : found[i] = Throws
          THEN Catch(NoCall) /\ UNCHANGED arguments
          ELSE arguments' = Append(arguments, found) /\ UNCHANGED <<phase, printed>>

Call == [operation |-> Command, arguments |-> arguments]

(* The planner's function may throw; where it does not, main prints what   *)
(* it answers.                                                             *)
CallPlanner ==
  /\ phase = "reading" /\ ~Missing
  /\ UNCHANGED <<input, read, query, operation, arguments>>
  /\ \/ Catch(Call)
     \/ Answer(IF Command \in {"dfs", "bfs"} THEN "airports" ELSE "paths", Call)
     \/ Command \in {"minimum_cost_path", "shortest_path"} /\ Answer("no path", Call)

(* The way from an airport to itself has no flights, and PrintPath reads   *)
(* the first one: undefined, and the model stops here.                     *)
PrintEmptyPath ==
  /\ phase = "reading" /\ ~Missing
  /\ Command \notin {"dfs", "bfs"} /\ arguments[1] = arguments[2]
  /\ phase' = "undefined"
  /\ UNCHANGED <<input, read, query, operation, arguments, printed>>

Next == ReadLine \/ ReadArgument \/ CallPlanner \/ PrintEmptyPath

(* The loop is straight-line code of one thread, and all is typed already. *)
Spec == Init /\ [][Next]_vars /\ WF_vars(Next)

-----------------------------------------------------------------------------
(***************************************************************************)
(* Properties                                                              *)
(***************************************************************************)

(* A command as the README writes it: an airport is a number, a date and   *)
(* time reads month/day/year hour:minute, and one space comes before each. *)
Typed(n) ==
  IF Len(n) = 1 THEN <<Space, n[1]>>
  ELSE <<Space, n[1], Slash, n[2], Slash, n[3], Space, n[4], Colon, n[5]>>

Written(c, k) == IF k <= Len(c.arguments) THEN Typed(c.arguments[k]) ELSE <<>>
TypedCommand(c) ==
  <<c.operation>> \o (Written(c, 1) \o (Written(c, 2) \o (Written(c, 3) \o Written(c, 4))))

(* The words of a line are what stands between its spaces. *)
Begins(s, c) == s # <<>> /\ s[1] = c /\ (Len(s) = 1 \/ s[2] = Space)
WordAt(s, i) == 1 + Cardinality({j \in 1..(i - 1) : s[j] = Space})
WordCount(s) == WordAt(s, Len(s) + 1)

(* Word k of the line begins with x.  For main, what comes after the last  *)
(* word is the last word, again and again.                                 *)
BeginsWord(s, k, x) ==
  \E i \in 2..Len(s) :
    /\ s[i] = x /\ s[i - 1] = Space
    /\ WordAt(s, i) = IF k <= WordCount(s) THEN k ELSE WordCount(s)

(* What is called is what was typed: the planner gets the command that the *)
(* line begins with; an airport is the number that the word in its place   *)
(* begins with; and no number is made up or left over from another line,   *)
(* also where the line is cut off or garbled.  A line written as the       *)
(* README has it makes that very call.                                     *)
RunsWhatWasTyped ==
  \A k \in 1..Len(printed) :
    LET line == Line(k)  call == printed[k].call IN
    /\ call # NoCall =>
         /\ Begins(line, call.operation)
         /\ \A i \in DOMAIN call.arguments :
              /\ \A j \in DOMAIN call.arguments[i] :
                   \E e \in DOMAIN line : line[e] = call.arguments[i][j]
              /\ Signature[call.operation][i] = "int" =>
                   BeginsWord(line, i + 1, call.arguments[i][1])
    /\ \A c \in Requests : line = TypedCommand(c) => call = c

(* What is answered: every line before the first exit. *)
Due ==
  LET exits == {k \in 1..LineCount : Begins(Line(k), "exit")}
  IN  IF exits = {} THEN LineCount ELSE First(exits) - 1

(* Whatever is typed, the loop ends, with the first exit or the end of     *)
(* what is typed, and has dealt with every line before, one after another: *)
(* no error keeps a later command from being run.  Only a question for the *)
(* way from an airport to itself may end otherwise; a line cut off after   *)
(* its first airport asks that question too.                               *)
EveryLineAnswered ==
  <>(\/ phase = "left" /\ Len(printed) = Due
     \/ phase = "undefined" /\ arguments[1] = arguments[2])
=============================================================================
