------------------------------- MODULE Arrays -------------------------------
(* What Array.filter of the renderer, a comprehension of the engine and a     *)
(* loop with `continue` leave of a list.                                      *)
EXTENDS Naturals, Sequences, FiniteSets

(* The elements of s at the positions S, in their order. *)
Filtered(s, S) ==
    [k \in 1..Cardinality(S) |->
       s[CHOOSE i \in S : Cardinality({j \in S : j < i}) = k - 1]]

=============================================================================
