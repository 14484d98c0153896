------------------------------- MODULE Totals -------------------------------
(* Lengths added up: the sounds of a chapter (Mastering), the lines of a       *)
(* section and the bytes of a text (Manuscript).                               *)
EXTENDS Naturals, Sequences

Sum(lengths) ==
    LET sum[i \in 0..Len(lengths)] == IF i = 0 THEN 0 ELSE sum[i - 1] + lengths[i]
    IN  sum[Len(lengths)]
=============================================================================
