------------------------------- MODULE MCStore -------------------------------
(***************************************************************************)
(* Commands and captures are interchangeable.                              *)
(***************************************************************************)
EXTENDS Store, TLC

MCSymmetry == Permutations(Command) \cup Permutations(Capture)
=============================================================================
