------------------------------ MODULE JobOrder ------------------------------
(***************************************************************************)
(* What the background jobs of one RP Party promise to whoever reads what  *)
(* they write, without saying how: every committed turn queues one job of  *)
(* each kind, the jobs of a kind write at most once each, and a job writes *)
(* and ends only when the jobs of its kind for earlier turns are over.  A  *)
(* write may come after the end of its job: a handler whose job a recovery *)
(* has given to another one is still at work.                              *)
(* ServiceJobs.tla implements it with claims, retries and recoveries, and  *)
(* StoryMemory.tla, which has jobs of one kind only, relies on no more.    *)
(***************************************************************************)
EXTENDS Naturals

CONSTANTS
  Kinds      \* the kinds of jobs a turn queues

VARIABLES
  queued,    \* the turns with jobs are 1..queued
  over,      \* for each kind, the turns whose job has ended
  written    \* for each kind, the turns whose job has written to the Party

orderVars == <<queued, over, written>>

Init ==
  /\ queued = 0
  /\ over = [k \in Kinds |-> {}]
  /\ written = [k \in Kinds |-> {}]

(* A turn, with its jobs.                                                  *)
Commit ==
  /\ queued' = queued + 1
  /\ UNCHANGED <<over, written>>

(* The job of turn v has its turn.                                         *)
Free(k, v) == v \in 1..queued /\ 1..(v - 1) \subseteq over[k]

Write(k, v) ==
  /\ Free(k, v)
  /\ v \notin written[k]
  /\ written' = [written EXCEPT ![k] = @ \union {v}]
  /\ UNCHANGED <<queued, over>>

End(k, v) ==
  /\ Free(k, v)
  /\ v \notin over[k]
  /\ over' = [over EXCEPT ![k] = @ \union {v}]
  /\ UNCHANGED <<queued, written>>

Next == Commit \/ \E k \in Kinds, v \in 1..queued : Write(k, v) \/ End(k, v)

Spec == Init /\ [][Next]_orderVars
=============================================================================
