-------------------------- MODULE ScannerControlMC --------------------------
(***************************************************************************)
(* Instances of ScannerControl for TLC.                                    *)
(***************************************************************************)
EXTENDS ScannerControl, TLC

CONSTANTS h1, h2

ShortChain ==
    << [handle |-> h1, burnt |-> FALSE], [handle |-> h2, burnt |-> FALSE] >>

OneBlock == << [handle |-> h1, burnt |-> FALSE] >>
(* The ticks differ in name alone. *)
TickSymmetry == Permutations(Tick)
=============================================================================
