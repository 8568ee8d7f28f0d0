----------------------------- MODULE Containers -----------------------------
(***************************************************************************)
(* What List and Vector promise: each container holds a sequence of        *)
(* values, and each operation changes the sequence of one container as its *)
(* name says.  Places are counted from 1; what is inserted at place i      *)
(* stands before the element that was the i-th.                            *)
(***************************************************************************)
EXTENDS Integers, Sequences

VARIABLE contents     \* the sequence that each container holds

Insert(c, i, s) ==
  contents' = [contents EXCEPT ![c] = SubSeq(@, 1, i - 1) \o s \o SubSeq(@, i, Len(@))]

(* The elements from place i up to, and without, place j. *)
Remove(c, i, j) ==
  contents' = [contents EXCEPT ![c] = SubSeq(@, 1, i - 1) \o SubSeq(@, j, Len(@))]

Assign(c, s) == contents' = [contents EXCEPT ![c] = s]

Update(c, i, x) == contents' = [contents EXCEPT ![c] = [@ EXCEPT ![i] = x]]

PushBack(c, x) == Insert(c, Len(contents[c]) + 1, <<x>>)
PushFront(c, x) == Insert(c, 1, <<x>>)
PopBack(c) == Remove(c, Len(contents[c]), Len(contents[c]) + 1)
PopFront(c) == Remove(c, 1, 2)

Swap(c, d) == contents' = [contents EXCEPT ![c] = contents[d], ![d] = contents[c]]
=============================================================================
