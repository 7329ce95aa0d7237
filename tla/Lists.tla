-------------------------------- MODULE Lists --------------------------------
(***************************************************************************)
(* Filtering a list, as the code's comprehensions do ([x for x in s if x   *)
(* in K]), and summing one. Recursive functions on the list's prefixes, so *)
(* that what they return can be proved for lists of any length             *)
(* (ListsProofs).                                                          *)
(***************************************************************************)
EXTENDS Naturals, Sequences

\* The members of K in s, in the order they have there.
Keep(s, K) ==
  LET kept[n \in 0 .. Len(s)] ==
        IF n = 0 THEN <<>>
        ELSE IF s[n] \in K THEN Append(kept[n - 1], s[n]) ELSE kept[n - 1]
  IN  kept[Len(s)]

\* The sum of a list of numbers.
Total(sizes) ==
  LET sum[n \in 0 .. Len(sizes)] == IF n = 0 THEN 0 ELSE sum[n - 1] + sizes[n]
  IN  sum[Len(sizes)]
=============================================================================
