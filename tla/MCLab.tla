------------------------------- MODULE MCLab --------------------------------
(* Instances of Lab for TLC.                                                 *)
EXTENDS Lab, TLC

MCLadder == <<"tcp", "tcp">>

(* Job ids and configurations have no meaning of their own.                  *)
MCSymmetry == Permutations(Slots) \cup Permutations(Configs)
=============================================================================
