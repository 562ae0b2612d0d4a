------------------------------ MODULE Sublists ------------------------------
(***************************************************************************)
(* What the code does with lists in many places: the list comprehension    *)
(* [x for x in s if x in S], by which the window, the middlewares and the  *)
(* updater drop what was evicted, seen, pushed or is a repetition; the     *)
(* slice s[:n]; and sorted(S), for keys that tell all elements of S apart. *)
(***************************************************************************)
EXTENDS Integers, Sequences, SequencesExt, FiniteSets, FiniteSetsExt

Keep(s, S) ==
  FoldLeft(LAMBDA kept, x : IF x \in S THEN Append(kept, x) ELSE kept, <<>>, s)

First(n, s) == SubSeq(s, 1, Min({n, Len(s)}))

(* The i-th element is the one with i - 1 elements before it.              *)
Sorted(S, Before(_, _)) ==
  [i \in 1..Cardinality(S) |->
     CHOOSE x \in S : Cardinality({y \in S : Before(y, x)}) = i - 1]
=============================================================================
