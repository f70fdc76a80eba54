--------------------------- MODULE MCCorrections ---------------------------
(* Instances of Corrections for TLC.                                       *)
EXTENDS Corrections, TLC

(* Decision keys and worker threads are interchangeable; corrections are   *)
(* not, since some are oversize.                                           *)
MCSymmetry == Permutations(Deciders) \union Permutations(Keys)
=============================================================================
