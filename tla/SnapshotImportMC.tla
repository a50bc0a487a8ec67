-------------------------- MODULE SnapshotImportMC --------------------------
(* Small instances of SnapshotImport.                                      *)
EXTENDS SnapshotImport, TLC

CONSTANTS p1, p2, s1, s2, original

Symmetric == Permutations(Proc)
=============================================================================
