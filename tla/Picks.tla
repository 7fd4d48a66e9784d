--------------------------------- MODULE Picks ---------------------------------
(***************************************************************************)
(* Subsequences: what is left of a sequence when the elements at some      *)
(* positions are kept and the others dropped.                              *)
(***************************************************************************)
EXTENDS Naturals, Sequences

\* The elements of s at the positions in K, of the first n elements, for each n.
PickUpto(s, K) ==
    LET upto[n \in 0..Len(s)] ==
            IF n = 0 THEN <<>>
            ELSE IF n \in K THEN Append(upto[n - 1], s[n]) ELSE upto[n - 1]
    IN upto

\* The elements of s at the positions in K.
Pick(s, K) == PickUpto(s, K)[Len(s)]
=============================================================================
