--------------------------- MODULE MCCommandLoop ----------------------------
(* Lines as the README writes them, the same cut off anywhere, and some    *)
(* with a mistake, each alone or followed by more.                         *)
EXTENDS CommandLoop

MCNumber == {"1", "2", "5", "6", "12", "20", "2017"}
MCWord == {"exit", "help", "x"}

Lunch == <<"5", "6", "2017", "12", "20">>
Evening == <<"6", "5", "2017", "20", "12">>

Request(op, args) == [operation |-> op, arguments |-> args]
Tours == {Request(op, <<<<"1">>, Lunch>>) : op \in {"dfs", "bfs"}}
Changes == {Request("connectivity", <<<<"1">>, <<to>>>>) : to \in {"1", "2"}}
Ways == {Request(op, <<<<"1">>, <<to>>, Lunch, Evening>>) :
           op \in {"all_paths", "minimum_cost_path", "shortest_path"}, to \in {"1", "2"}}
MCRequests == Tours \cup Changes \cup Ways

Whole == {TypedCommand(c) : c \in MCRequests}
CutOff == UNION {{SubSeq(s, 1, k) : k \in 0..(Len(s) - 1)} : s \in Whole}

Mistaken ==
  {<<" ">> \o s : s \in Whole}
    \cup {s \o <<" ", "1">> : s \in Whole}
    \cup {<<"exit">>, <<"exit", " ", "1">>, <<"1">>, <<"help">>, <<"help", " ", "1">>,
          <<"dfs", " ", " ", "1", " ", "5", "/", "6", "/", "2017", " ", "12", ":", "20">>,
          <<"dfs", " ", "1", "x", " ", "5", "/", "6", "/", "2017", " ", "12", ":", "20">>,
          <<"dfs", " ", "1", " ", "5", "/", "6", " ", "12", ":", "20">>,
          <<"dfs", " ", "1", " ", "5", " ", "6", "/", "2017">>,
          <<"dfs", " ", "1", " ", "x", "/", "6", "/", "2017", " ", "12", ":", "20">>,
          <<"connectivity", " ", "x", " ", "1">>}

Followed == {<<>>} \cup {<<s>> : s \in {<<>>, <<"exit">>, <<"help">>}}
  \cup {<<TypedCommand(c), <<"exit">>, TypedCommand(c)>> : c \in Tours \cup Changes}

MCInputs == [lines : {<<>>} \cup {<<s>> \o more : s \in Whole \cup CutOff \cup Mistaken, more \in Followed},
             terminated : BOOLEAN]
=============================================================================
