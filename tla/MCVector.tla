------------------------------ MODULE MCVector ------------------------------
(* One vector that grows to twice its size twice, and a short one. *)
EXTENDS Vector

MCVectors == {"v", "w"}
MCMaxCapacity == [u \in MCVectors |-> IF u = "v" THEN 4 ELSE 2]
=============================================================================
