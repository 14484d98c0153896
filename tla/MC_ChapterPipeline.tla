-------------------------- MODULE MC_ChapterPipeline --------------------------
(* Instances of ChapterPipeline for TLC. *)
EXTENDS ChapterPipeline, TLC

CONSTANTS w1, w2, t1, t2, d1, d2

SharedDisk == [w \in Workers |-> d1]
OwnDisks == [w \in Workers |-> IF w = w1 THEN d1 ELSE d2]
FirstTwice == [c \in Chapters |-> IF c = 1 THEN 2 ELSE 1]
ThreeEach == [c \in Chapters |-> 3]
Interchangeable == Permutations({t1, t2})

=============================================================================
