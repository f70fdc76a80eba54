--------------------------- MODULE MCServiceJobs ---------------------------
(* Instances of ServiceJobs for TLC.                                       *)
EXTENDS ServiceJobs, TLC

MCMemory == {"story_memory"}
MCTypes == {"relationships", "administrator"}
MCOperationType == [o \in Operations |-> "player_correction"]

(* Processes are interchangeable.                                          *)
MCSymmetry == Permutations(Processes)
=============================================================================
