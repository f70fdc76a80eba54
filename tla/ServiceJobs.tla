---------------------------- MODULE ServiceJobs ----------------------------
(***************************************************************************)
(* The background jobs of one RP Party: every committed turn queues one    *)
(* job of each automatic type, a player queues operations, and the two     *)
(* worker loops of each gateway process (rp/runner.py) claim jobs, call    *)
(* their handler (rp/mechanics.py) and complete, fail or release them in   *)
(* SQLite (rp/turn_engine.py).  A process may die at any point, be stopped *)
(* where its loops wait, and be started while another one runs on the same *)
(* database.                                                               *)
(*                                                                         *)
(* Abstractions.  A claim token is the loop that drew it: a loop has one   *)
(* job at a time, so it never holds two tokens of one job.  Jobs of equal  *)
(* priority are claimed in any order.  What a handler produces is counted, *)
(* not described; of story memory only the chain of snapshots is kept, and *)
(* two model calls never return the same prose.                            *)
(*                                                                         *)
(* A definition marked "mutant" is a wrong variant of the definition after *)
(* it that bears its purpose; the specification uses none of them.  Put in *)
(* its place it makes one property fail, which shows that the property can.*)
(***************************************************************************)
EXTENDS Naturals, FiniteSets

CONSTANTS
  Processes,     \* gateway processes on the database
  Types,         \* job types queued by every committed turn
  Operations,    \* idempotency keys of player operations
  OperationType, \* the job type of each: player_lore or player_correction
  None,          \* no loop, no job, no operation
  MaxAttempts,   \* RP_JOB_MAX_ATTEMPTS
  MaxVersion     \* bound on the turns of the Party, for TLC

AutomaticTypes == {"relationships", "runtime_lore", "story_memory", "administrator"}
PlayerTypes == {"player_lore", "player_correction"}

ASSUME TypesAssumption == Types \subseteq AutomaticTypes
ASSUME OperationsAssumption ==
  None \notin Operations /\ OperationType \in [Operations -> PlayerTypes]
ASSUME AttemptsAssumption == MaxAttempts \in Nat \ {0}
ASSUME VersionAssumption == MaxVersion \in Nat

Roles == {"service", "administrator"}
Loops == Processes \X Roles
Automatic == [type : Types, source : 1..MaxVersion, op : {None}]
Player == UNION {[type : {OperationType[o]}, source : 1..MaxVersion, op : {o}]
                   : o \in Operations}
Jobs == Automatic \union Player

ASSUME LoopsAssumption == None \notin Loops /\ None \notin Jobs

VARIABLES
  version,   \* rp_parties.current_version
  status,    \* of each job of rp_service_jobs and rp_administrator_jobs
  attempts,  \* its attempts
  owner,     \* the loop whose claim_token it carries, None for NULL
  result,    \* its result_json is set
  effects,   \* how often its handler wrote to the Party
  pc,        \* where each loop is
  work,      \* the job it has claimed
  base       \* the story-memory revision its handler started from

jobVars == <<status, attempts, owner, result>>
loopVars == <<pc, work, base>>
vars == <<version, jobVars, effects, loopVars>>

Statuses == {"absent", "pending", "running", "succeeded", "failed"}
Points == {"down", "idle", "claimed", "calling", "recording", "completing", "failing"}
RoleOf(j) == IF j.type = "administrator" THEN "administrator" ELSE "service"

Init ==
  /\ version = 0
  /\ status = [j \in Jobs |-> "absent"]
  /\ attempts = [j \in Jobs |-> 0]
  /\ owner = [j \in Jobs |-> None]
  /\ result = [j \in Jobs |-> FALSE]
  /\ effects = [j \in Jobs |-> 0]
  /\ pc = [l \in Loops |-> "down"]
  /\ work = [l \in Loops |-> None]
  /\ base = [l \in Loops |-> 0]
-----------------------------------------------------------------------------
(* A turn is committed; _enqueue_post_turn_work in the same transaction.   *)
CommitTurn ==
  /\ version < MaxVersion
  /\ version' = version + 1
  /\ status' = [j \in Jobs |->
       IF j.op = None /\ j.source = version + 1 THEN "pending" ELSE status[j]]
  /\ UNCHANGED <<attempts, owner, result, effects, loopVars>>

(* enqueue_player_operation: about a committed turn, once per key.         *)
Enqueue(o) ==
  /\ \A j \in Jobs : j.op = o => status[j] = "absent"
  /\ \E j \in Jobs : /\ j.op = o
                     /\ j.source <= version
                     /\ status' = [status EXCEPT ![j] = "pending"]
  /\ UNCHANGED <<version, attempts, owner, result, effects, loopVars>>
-----------------------------------------------------------------------------
StartWithoutRecovery(p) ==                                               \* mutant
  /\ \A r \in Roles : pc[<<p, r>>] = "down"
  /\ pc' = [l \in Loops |-> IF l[1] = p THEN "idle" ELSE pc[l]]
  /\ UNCHANGED <<version, jobVars, effects, work, base>>

(* RPRunner.start: recover_interrupted_work for every job that runs, also  *)
(* one of another process, then the loops.                                 *)
Start(p) ==
  /\ \A r \in Roles : pc[<<p, r>>] = "down"
  /\ pc' = [l \in Loops |-> IF l[1] = p THEN "idle" ELSE pc[l]]
  /\ status' = [j \in Jobs |-> IF status[j] = "running" THEN "pending" ELSE status[j]]
  /\ owner' = [j \in Jobs |-> None]
  /\ UNCHANGED <<version, attempts, result, effects, work, base>>

Leave(p) ==
  /\ pc' = [l \in Loops |-> IF l[1] = p THEN "down" ELSE pc[l]]
  /\ work' = [l \in Loops |-> IF l[1] = p THEN None ELSE work[l]]
  /\ base' = [l \in Loops |-> IF l[1] = p THEN 0 ELSE base[l]]

Crash(p) ==
  /\ \A r \in Roles : pc[<<p, r>>] # "down"
  /\ Leave(p)
  /\ UNCHANGED <<version, jobVars, effects>>

(* _owned_running_job: the job still carries the token of this loop.       *)
Owns(l) ==
  /\ work[l] # None
  /\ status[work[l]] = "running"
  /\ owner[work[l]] = l

(* RPRunner.stop cancels both loops where they wait: asleep, or in a model *)
(* call, whose job they release.                                           *)
Stop(p) ==
  /\ \A r \in Roles : pc[<<p, r>>] \in {"idle", "calling"}
  /\ Leave(p)
  /\ LET released == {work[l] : l \in {k \in Loops : k[1] = p /\ Owns(k)}}
     IN  /\ status' = [j \in Jobs |-> IF j \in released THEN "pending" ELSE status[j]]
         /\ owner' = [j \in Jobs |-> IF j \in released THEN None ELSE owner[j]]
  /\ UNCHANGED <<version, attempts, result, effects>>
-----------------------------------------------------------------------------
(* claim_service_job and claim_administrator_job.                          *)
Active == {"pending", "running"}
Earlier(i, j) == i.type = j.type /\ i.source < j.source
CandidatesPastRetries(role) ==                                           \* mutant
  {j \in Jobs : /\ RoleOf(j) = role
                /\ status[j] = "pending"
                /\ attempts[j] < MaxAttempts
                /\ \A i \in Jobs : Earlier(i, j) => status[i] # "running"}
Candidates(role) ==
  {j \in Jobs : /\ RoleOf(j) = role
                /\ status[j] = "pending"
                /\ attempts[j] < MaxAttempts
                /\ \A i \in Jobs : Earlier(i, j) => status[i] \notin Active}
Rank(j) ==
  CASE j.type \in PlayerTypes -> 0
    [] j.type = "relationships" -> 1
    [] j.type = "runtime_lore" -> 2
    [] j.type = "story_memory" -> 3
    [] j.type = "administrator" -> 0

ClaimCounts(l) ==                                                        \* mutant
  /\ pc[l] = "idle"
  /\ \E j \in Candidates(l[2]) :
       /\ status' = [status EXCEPT ![j] = "running"]
       /\ attempts' = [attempts EXCEPT ![j] = @ + 1]
       /\ owner' = [owner EXCEPT ![j] = l]
       /\ work' = [work EXCEPT ![l] = j]
  /\ pc' = [pc EXCEPT ![l] = "claimed"]
  /\ UNCHANGED <<version, result, effects, base>>

Claim(l) ==
  /\ pc[l] = "idle"
  /\ \E j \in Candidates(l[2]) :
       /\ \A i \in Candidates(l[2]) : Rank(j) <= Rank(i)
       /\ status' = [status EXCEPT ![j] = "running"]
       /\ owner' = [owner EXCEPT ![j] = l]
       /\ work' = [work EXCEPT ![l] = j]
  /\ pc' = [pc EXCEPT ![l] = "claimed"]
  /\ UNCHANGED <<version, attempts, result, effects, base>>

(* The handler up to its model call.  A job with a result needs only its   *)
(* completion; a memory update that is already appended, only its result.  *)
Appended(j) == j.type = "story_memory" /\ effects[j] > 0
Revision == Cardinality({j \in Jobs : Appended(j)})

Begin(l) ==
  /\ pc[l] = "claimed"
  /\ pc' = [pc EXCEPT ![l] = IF result[work[l]] THEN "completing"
                             ELSE IF Appended(work[l]) THEN "recording"
                             ELSE "calling"]
  /\ base' = [base EXCEPT ![l] = IF work[l].type = "story_memory" THEN Revision ELSE 0]
  /\ UNCHANGED <<version, jobVars, effects, work>>

(* The job is no longer this loop's (RPBackgroundJobConflict): dropped.    *)
Drop(l) ==
  /\ pc' = [pc EXCEPT ![l] = "idle"]
  /\ work' = [work EXCEPT ![l] = None]
  /\ base' = [base EXCEPT ![l] = 0]

(* persist_relationship_result, persist_runtime_lore_result,               *)
(* persist_player_correction_result, create_administrator_proposal: what   *)
(* the model produced, if anything, and the result in one transaction.     *)
(* record_service_job_result and record_administrator_no_proposal for a    *)
(* handler that has nothing to write (a Lore draft, a memory not due).     *)
Writes(j) == IF j.type \in {"story_memory", "player_lore"} THEN {0} ELSE {0, 1}

PersistUnfenced(l) ==                                                    \* mutant
  /\ pc[l] \in {"calling", "recording"}
  /\ result' = [result EXCEPT ![work[l]] = TRUE]
  /\ \E n \in Writes(work[l]) : effects' = [effects EXCEPT ![work[l]] = @ + n]
  /\ pc' = [pc EXCEPT ![l] = "completing"]
  /\ UNCHANGED <<version, status, attempts, owner, work, base>>

Persist(l) ==
  /\ pc[l] \in {"calling", "recording"}
  /\ IF Owns(l)
     THEN /\ IF result[work[l]]
             THEN UNCHANGED <<result, effects>>
             ELSE /\ result' = [result EXCEPT ![work[l]] = TRUE]
                  /\ \E n \in Writes(work[l]) :
                       effects' = [effects EXCEPT ![work[l]] = @ + n]
          /\ pc' = [pc EXCEPT ![l] = "completing"]
          /\ UNCHANGED <<work, base>>
     ELSE Drop(l) /\ UNCHANGED <<result, effects>>
  /\ UNCHANGED <<version, status, attempts, owner>>

(* append_story_memory: by update_id and base snapshot, whoever owns the   *)
(* job; another snapshot of the update or of the base is a failure.        *)
AppendMemory(l) ==
  /\ pc[l] = "calling"
  /\ work[l].type = "story_memory"
  /\ IF ~Appended(work[l]) /\ Revision = base[l]
     THEN /\ effects' = [effects EXCEPT ![work[l]] = @ + 1]
          /\ pc' = [pc EXCEPT ![l] = "recording"]
     ELSE pc' = [pc EXCEPT ![l] = "failing"] /\ UNCHANGED effects
  /\ UNCHANGED <<version, jobVars, work, base>>

(* complete_service_job, complete_administrator_job.                       *)
Complete(l) ==
  /\ pc[l] = "completing"
  /\ IF Owns(l)
     THEN /\ status' = [status EXCEPT ![work[l]] = "succeeded"]
          /\ owner' = [owner EXCEPT ![work[l]] = None]
     ELSE UNCHANGED <<status, owner>>
  /\ Drop(l)
  /\ UNCHANGED <<version, attempts, result, effects>>

(* An exception of the handler or of the completion.                       *)
Raise(l) ==
  /\ pc[l] \in {"claimed", "calling", "recording", "completing"}
  /\ pc' = [pc EXCEPT ![l] = "failing"]
  /\ UNCHANGED <<version, jobVars, effects, work, base>>

FailStaysPending(l, retryable) ==                                        \* mutant
  /\ IF Owns(l)
     THEN /\ attempts' = [attempts EXCEPT ![work[l]] = @ + 1]
          /\ status' = [status EXCEPT ![work[l]] =
               IF retryable THEN "pending" ELSE "failed"]
          /\ owner' = [owner EXCEPT ![work[l]] = None]
     ELSE UNCHANGED <<attempts, status, owner>>
  /\ Drop(l)
  /\ UNCHANGED <<version, result, effects>>

(* fail_service_job, fail_administrator_job.                               *)
Fail(l, retryable) ==
  /\ IF Owns(l)
     THEN LET j == work[l]
          IN  /\ attempts' = [attempts EXCEPT ![j] = @ + 1]
              /\ status' = [status EXCEPT ![j] =
                   IF ~retryable \/ attempts[j] + 1 >= MaxAttempts
                   THEN "failed" ELSE "pending"]
              /\ owner' = [owner EXCEPT ![j] = None]
     ELSE UNCHANGED <<attempts, status, owner>>
  /\ Drop(l)
  /\ UNCHANGED <<version, result, effects>>

FailRetryable(l) == pc[l] = "failing" /\ Fail(l, TRUE)

(* The answer of the model is refused (RPModelOutputRejected).             *)
RejectOutput(l) == pc[l] = "calling" /\ Fail(l, FALSE)

LoopStep(l) ==
  \/ Claim(l)
  \/ Begin(l)
  \/ Persist(l)
  \/ AppendMemory(l)
  \/ Complete(l)
  \/ Raise(l)
  \/ FailRetryable(l)
  \/ RejectOutput(l)

Next ==
  \/ CommitTurn
  \/ \E o \in Operations : Enqueue(o)
  \/ \E p \in Processes : Start(p) \/ Crash(p) \/ Stop(p)
  \/ \E l \in Loops : LoopStep(l)

Spec == Init /\ [][Next]_vars

(* A started loop runs, model calls end (the clients carry timeouts), a    *)
(* dead container is started again, and at some time the processes stop    *)
(* dying and being stopped.                                                *)
Fairness ==
  /\ \A p \in Processes : WF_vars(Start(p))
  /\ \A l \in Loops : WF_vars(LoopStep(l))
  /\ <>[][\A p \in Processes : ~Crash(p) /\ ~Stop(p)]_vars
FairSpec == Spec /\ Fairness
-----------------------------------------------------------------------------
TypeOK ==
  /\ version \in 0..MaxVersion
  /\ status \in [Jobs -> Statuses]
  /\ attempts \in [Jobs -> 0..MaxAttempts]
  /\ owner \in [Jobs -> Loops \union {None}]
  /\ result \in [Jobs -> BOOLEAN]
  /\ effects \in [Jobs -> Nat]
  /\ pc \in [Loops -> Points]
  /\ work \in [Loops -> Jobs \union {None}]
  /\ base \in [Loops -> Nat]

(* What a job writes to the Party it writes once, whatever crashes,        *)
(* retries and second processes do, and a job has succeeded only with its  *)
(* result recorded.                                                        *)
EffectsOnce ==
  \A j \in Jobs : /\ effects[j] <= 1
                  /\ effects[j] = 1 => result[j] \/ j.type = "story_memory"
                  /\ status[j] = "succeeded" => result[j]

(* No job is stuck: one that waits may be claimed once the earlier ones    *)
(* are over, one that runs is in the hands of a loop or of a process that  *)
(* will recover it when it starts.                                         *)
NoneStuck ==
  \A j \in Jobs :
    /\ status[j] = "pending" => attempts[j] < MaxAttempts /\ owner[j] = None
    /\ status[j] = "running" =>
         owner[j] \in Loops /\ (work[owner[j]] = j \/ pc[owner[j]] = "down")

(* An automatic job writes to the Party only when the jobs of its type for *)
(* earlier turns are over.  (Not so operations: a player may queue one     *)
(* about an old turn while one about a later turn runs.)                   *)
InOrder ==
  [][\A i, j \in Automatic : Earlier(i, j) /\ effects'[j] # effects[j] =>
       status[i] \notin Active]_vars

(* The automatic jobs, seen as those of JobOrder.                          *)
JobOf(t, v) == [type |-> t, source |-> v, op |-> None]
Order == INSTANCE JobOrder WITH
           Kinds <- Types,
           queued <- version,
           over <- [t \in Types |->
                      {v \in 1..MaxVersion :
                         status[JobOf(t, v)] \in {"succeeded", "failed"}}],
           written <- [t \in Types |-> {v \in 1..MaxVersion : effects[JobOf(t, v)] > 0}]

(* Claims, retries, recoveries and a second process are nothing but        *)
(* JobOrder to a reader of the Party: the automatic jobs of a type write   *)
(* once each, a job writes, ends and stays ended only when those of its    *)
(* type for earlier turns are over, and a loop that has lost its job still *)
(* writes in that order.                                                   *)
ImplementsOrder == Order!Spec

(* Every queued job is over at some time.                                  *)
JobsSettle ==
  \A j \in Jobs : status[j] \in Active ~> status[j] \in {"succeeded", "failed"}
=============================================================================
