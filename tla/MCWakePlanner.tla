---------------------------- MODULE MCWakePlanner ---------------------------
(***************************************************************************)
(* An instance of WakePlanner for TLC.                                     *)
(***************************************************************************)
EXTENDS WakePlanner

FairSpec == Spec /\ Fairness
=============================================================================
