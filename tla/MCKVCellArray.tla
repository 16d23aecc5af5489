--------------------------- MODULE MCKVCellArray ---------------------------
(* Model-checking instance of KVCellArray: two cells, two sequences that    *)
(* are interchangeable, three positions.                                    *)
EXTENDS KVCellArray, TLC

CONSTANTS s1, s2

MCDeltas == {-2, -1, 1}
SeqSymmetry == Permutations(Seqs)
=============================================================================
