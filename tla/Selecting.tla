------------------------------ MODULE Selecting ------------------------------
(***************************************************************************)
(* A list comprehension with a condition: the elements of a list that are   *)
(* in a set, in their order.                                                *)
(***************************************************************************)
EXTENDS Integers, Sequences

Only(s, T) ==
  LET first[n \in 0 .. Len(s)] ==
        IF n = 0 THEN <<>>
        ELSE IF s[n] \in T THEN Append(first[n - 1], s[n]) ELSE first[n - 1]
  IN  first[Len(s)]
=============================================================================
