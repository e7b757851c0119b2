----------------------------- MODULE Selections ------------------------------
(***************************************************************************)
(* The elements of a sequence at some of its places, in their order: what  *)
(* a loop over a slice keeps that appends some of its elements to another. *)
(* Like SelectSeq of module Sequences, written so that it can be reasoned  *)
(* about (module SelectionsProofs).                                        *)
(***************************************************************************)
EXTENDS Integers, Sequences

ElementsAt(s, places) ==
    LET upTo[n \in 0..Len(s)] ==
          IF n = 0 THEN <<>>
          ELSE IF n \in places THEN Append(upTo[n - 1], s[n]) ELSE upTo[n - 1]
    IN upTo[Len(s)]

\* Those elements that pass a test.
Those(s, Test(_)) == ElementsAt(s, {i \in DOMAIN s : Test(s[i])})
==============================================================================
