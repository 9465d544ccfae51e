----------------------- MODULE MCCrossFileTransaction -----------------------
(* Two files and two contents: a batch may name one file, both, or one      *)
(* twice, and may write what the file already held.                         *)
EXTENDS CrossFileTransaction
CONSTANTS fileA, fileB, v1, v2, w1

MCFile == {fileA, fileB}
MCContent == {v1, v2}
MCWriter == {w1}
MCSymmetry == Permutations(MCContent)
=============================================================================
