---------------------------- MODULE MCInformQueue ----------------------------
(***************************************************************************)
(* TLC instance of InformQueue.  Traps are interchangeable, so runs without *)
(* liveness use symmetry.                                                  *)
(***************************************************************************)
EXTENDS InformQueue, TLC

CONSTANTS t1, t2

TrapSymmetry == Permutations(Traps)
=============================================================================
