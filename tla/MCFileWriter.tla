---------------------------- MODULE MCFileWriter ----------------------------
(***************************************************************************)
(* FileWriter for TLC: the targets are interchangeable.                    *)
(***************************************************************************)
EXTENDS FileWriter, TLC

Symmetry == Permutations(Paths)
=============================================================================
