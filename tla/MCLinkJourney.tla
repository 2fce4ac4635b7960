---------------------------- MODULE MCLinkJourney ----------------------------
(***************************************************************************)
(* Small instances of LinkJourney for TLC.                                 *)
(***************************************************************************)
EXTENDS LinkJourney, TLC

Symmetry == Permutations(Links) \cup Permutations(Handlers)
=============================================================================
