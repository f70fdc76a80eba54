------------------------- MODULE ServiceJobsProofs -------------------------
(* Proofs about module ServiceJobs, for any processes, operations, turns    *)
(* and attempts.                                                            *)
EXTENDS ServiceJobs, FiniteSetTheorems, TLAPS

\* Automatic jobs are queued with their turn; what a row carries besides its
\* status goes with it.
Queued ==
  \A j \in Jobs :
    /\ j \in Automatic => (status[j] = "absent" <=> j.source > version)
    /\ status[j] = "absent" => attempts[j] = 0
    /\ status[j] \in Active => attempts[j] < MaxAttempts
    /\ status[j] # "running" => owner[j] = None

\* A loop has a job from its claim to its end, and completes one with a result.
LoopSound(l) ==
  /\ work[l] = None <=> pc[l] \in {"down", "idle"}
  /\ pc[l] = "completing" => result[work[l]]
LoopsSound == \A l \in Loops : LoopSound(l)

\* A loop never starts, and never is left with, a job whose predecessors may
\* still run: not even when it has lost the job.
InTurn(j) ==
  /\ j.source <= version
  /\ \A i \in Automatic : Earlier(i, j) => status[i] \notin Active
TakenInTurn == \A l \in Loops : work[l] \in Automatic => InTurn(work[l])

IInv == TypeOK /\ Queued /\ LoopsSound /\ EffectsOnce /\ NoneStuck /\ TakenInTurn

\* The step property of InOrder.
OrderedStep ==
  \A i, j \in Automatic : Earlier(i, j) /\ effects'[j] # effects[j] => status[i] \notin Active

-----------------------------------------------------------------------------
(* Jobs and loops.                                                         *)

LEMMA JobFacts ==
  /\ None \notin Jobs /\ None \notin Loops /\ Automatic \subseteq Jobs
  /\ \A j \in Jobs : j \in Automatic <=> j.op = None
  /\ \A j \in Jobs : j.source \in 1..MaxVersion
  /\ \A o \in Operations : o # None
<1>1. \A j \in Automatic : j.op = None /\ j.source \in 1..MaxVersion
  BY DEF Automatic
<1>2. \A j \in Player : j.op # None /\ j.source \in 1..MaxVersion
  BY OperationsAssumption DEF Player
<1> QED BY <1>1, <1>2, LoopsAssumption, OperationsAssumption DEF Jobs

(* The revision of a memory is a number: only automatic jobs append to it. *)
LEMMA RevisionFacts == Revision \in Nat
<1> DEFINE A == {j \in Jobs : Appended(j)}
           f == [j \in A |-> j.source]
<1>1. IsFiniteSet(1..MaxVersion)
  BY FS_Interval, VersionAssumption
<1>2. \A j \in A : j = [type |-> "story_memory", source |-> j.source, op |-> None]
  <2>1. SUFFICES ASSUME NEW j \in Jobs, Appended(j)
                 PROVE  j = [type |-> "story_memory", source |-> j.source, op |-> None]
    OBVIOUS
  <2>2. j.type = "story_memory"
    BY <2>1 DEF Appended
  <2>3. j \notin Player
    BY <2>2, OperationsAssumption DEF Player, PlayerTypes
  <2>4. j \in Automatic
    BY <2>1, <2>3 DEF Jobs
  <2> QED BY <2>2, <2>4 DEF Automatic
<1>3. f \in Injection(A, 1..MaxVersion)
  <2>1. f \in [A -> 1..MaxVersion]
    BY JobFacts
  <2>2. ASSUME NEW i \in A, NEW j \in A, f[i] = f[j]
        PROVE  i = j
    <3>1. i.source = j.source
      BY <2>2
    <3> QED BY <1>2, <3>1
  <2> QED BY <2>1, <2>2 DEF Injection, IsInjective
<1>4. IsFiniteSet(A)
  BY <1>1, <1>3, FS_Injection
<1> QED BY <1>4, FS_CardinalityType DEF Revision

(* A loop that owns its job has one, and it runs.                          *)
LEMMA OwnsFacts ==
  ASSUME IInv, NEW l \in Loops, Owns(l)
  PROVE  /\ work[l] \in Jobs /\ status[work[l]] = "running" /\ owner[work[l]] = l
         /\ attempts[work[l]] < MaxAttempts
BY DEF IInv, TypeOK, Owns, Queued, Active

LEMMA InitInv == Init => IInv
<1> SUFFICES ASSUME Init PROVE IInv
  OBVIOUS
<1>1. TypeOK
  BY VersionAssumption, AttemptsAssumption DEF Init, TypeOK, Statuses, Points
<1>2. Queued
  BY JobFacts, VersionAssumption DEF Init, Queued, Active
<1>3. LoopsSound /\ TakenInTurn
  BY JobFacts DEF Init, LoopsSound, LoopSound, TakenInTurn
<1>4. EffectsOnce /\ NoneStuck
  BY DEF Init, EffectsOnce, NoneStuck
<1> QED BY <1>1, <1>2, <1>3, <1>4 DEF IInv

-----------------------------------------------------------------------------
(* Turns and operations.                                                   *)

LEMMA CommitStep ==
  ASSUME IInv, CommitTurn
  PROVE  IInv' /\ OrderedStep
<1> USE DEF CommitTurn, loopVars
<1>1. TypeOK'
  <2>1. version' \in 0..MaxVersion
    BY VersionAssumption DEF IInv, TypeOK
  <2>2. status' \in [Jobs -> Statuses]
    BY DEF IInv, TypeOK, Statuses
  <2> QED BY <2>1, <2>2 DEF IInv, TypeOK
<1>2. \A j \in Jobs : j \in Automatic /\ j.source = version + 1 => status[j] = "absent"
  BY JobFacts, VersionAssumption DEF IInv, TypeOK, Queued
<1>3. \A j \in Jobs : status'[j] = IF j \in Automatic /\ j.source = version + 1
                                   THEN "pending" ELSE status[j]
  BY JobFacts
<1>4. Queued'
  <2> SUFFICES ASSUME NEW j \in Jobs
               PROVE  /\ j \in Automatic => (status'[j] = "absent" <=> j.source > version')
                      /\ status'[j] = "absent" => attempts[j] = 0
                      /\ status'[j] \in Active => attempts[j] < MaxAttempts
                      /\ status'[j] # "running" => owner[j] = None
    BY DEF Queued
  <2>1. j.source \in Nat /\ version \in Nat
    BY JobFacts, VersionAssumption DEF IInv, TypeOK
  <2> QED BY <1>2, <1>3, <2>1, AttemptsAssumption DEF IInv, Queued, Active
<1>5. LoopsSound'
  BY DEF IInv, LoopsSound, LoopSound
<1>6. EffectsOnce' /\ NoneStuck'
  BY <1>2, <1>3, <1>4 DEF IInv, EffectsOnce, NoneStuck, Queued, Active
<1>7. TakenInTurn'
  <2> SUFFICES ASSUME NEW l \in Loops, work[l] \in Automatic
               PROVE  InTurn(work[l])'
    BY DEF TakenInTurn
  <2>1. work[l] \in Jobs /\ work[l].source \in Nat /\ version \in Nat
    BY JobFacts, VersionAssumption DEF IInv, TypeOK
  <2>2. InTurn(work[l])
    BY DEF IInv, TakenInTurn
  <2>3. ASSUME NEW i \in Automatic, Earlier(i, work[l])
        PROVE  status'[i] \notin Active
    <3>1. i \in Jobs /\ i.source \in Nat
      BY JobFacts
    <3>2. i.source # version + 1
      BY <2>1, <2>2, <2>3, <3>1 DEF InTurn, Earlier
    <3> QED BY <1>3, <2>2, <2>3, <3>1, <3>2 DEF InTurn
  <2> QED BY <2>1, <2>2, <2>3 DEF InTurn, Earlier
<1>8. OrderedStep
  BY JobFacts DEF OrderedStep
<1> QED BY <1>1, <1>4, <1>5, <1>6, <1>7, <1>8 DEF IInv

LEMMA EnqueueStep ==
  ASSUME IInv, NEW o \in Operations, Enqueue(o)
  PROVE  IInv' /\ OrderedStep
<1> USE DEF Enqueue, loopVars
<1>1. PICK k \in Jobs : /\ k.op = o
                        /\ status' = [status EXCEPT ![k] = "pending"]
  OBVIOUS
<1>2. k \notin Automatic /\ status[k] = "absent"
  BY <1>1, JobFacts
<1>3. TypeOK'
  BY <1>1 DEF IInv, TypeOK, Statuses
<1>4. \A j \in Jobs : status'[j] = IF j = k THEN "pending" ELSE status[j]
  BY <1>1 DEF IInv, TypeOK
<1>5. Queued'
  BY <1>2, <1>4, AttemptsAssumption DEF IInv, Queued, Active
<1>6. LoopsSound'
  BY DEF IInv, LoopsSound, LoopSound
<1>7. EffectsOnce' /\ NoneStuck'
  BY <1>2, <1>4, <1>5 DEF IInv, EffectsOnce, NoneStuck, Queued, Active
<1>8. TakenInTurn'
  BY <1>2, <1>4, JobFacts DEF IInv, TakenInTurn, InTurn, Earlier
<1>9. OrderedStep
  BY JobFacts DEF OrderedStep
<1> QED BY <1>3, <1>5, <1>6, <1>7, <1>8, <1>9 DEF IInv

-----------------------------------------------------------------------------
(* Processes.                                                              *)

(* A process starts: what ran is queued again, for whom it may concern.    *)
LEMMA StartStep ==
  ASSUME IInv, NEW p \in Processes, Start(p)
  PROVE  IInv' /\ OrderedStep
<1> USE DEF Start
<1>1. TypeOK'
  BY DEF IInv, TypeOK, Statuses, Points
<1>2. \A j \in Jobs : /\ status'[j] = IF status[j] = "running" THEN "pending" ELSE status[j]
                      /\ owner'[j] = None
  OBVIOUS
<1>3. Queued'
  BY <1>2 DEF IInv, Queued, Active
<1>4. \A l \in Loops : IF l[1] = p THEN pc[l] = "down" /\ pc'[l] = "idle" ELSE pc'[l] = pc[l]
  BY DEF Loops, Roles
<1>5. LoopsSound'
  BY <1>4 DEF IInv, LoopsSound, LoopSound
<1>6. EffectsOnce' /\ NoneStuck'
  BY <1>2, <1>3 DEF IInv, EffectsOnce, NoneStuck, Queued, Active
<1>7. TakenInTurn'
  BY <1>2, JobFacts DEF IInv, TakenInTurn, InTurn, Earlier, Active
<1>8. OrderedStep
  BY JobFacts DEF OrderedStep
<1> QED BY <1>1, <1>3, <1>5, <1>6, <1>7, <1>8 DEF IInv

(* A process is gone, dead or stopped: its loops have no job.              *)
LEMMA LeaveStep ==
  ASSUME IInv, NEW p \in Processes, Crash(p) \/ Stop(p)
  PROVE  IInv' /\ OrderedStep
<1> DEFINE released == IF Crash(p) THEN {}
                       ELSE {work[l] : l \in {k \in Loops : k[1] = p /\ Owns(k)}}
<1>1. /\ Leave(p)
      /\ UNCHANGED <<version, attempts, result, effects>>
  BY DEF Crash, Stop, jobVars
<1>2. released \subseteq {j \in Jobs : status[j] = "running"}
  BY OwnsFacts
<1>3. /\ status' \in [Jobs -> Statuses] /\ owner' \in [Jobs -> Loops \union {None}]
      /\ \A j \in Jobs : /\ status'[j] = IF j \in released THEN "pending" ELSE status[j]
                         /\ owner'[j] = IF j \in released THEN None ELSE owner[j]
  <2>1. CASE Crash(p)
    BY <2>1 DEF Crash, jobVars, IInv, TypeOK
  <2>2. CASE ~Crash(p)
    <3>1. /\ status' = [j \in Jobs |-> IF j \in released THEN "pending" ELSE status[j]]
          /\ owner' = [j \in Jobs |-> IF j \in released THEN None ELSE owner[j]]
      BY <2>2 DEF Stop
    <3> HIDE DEF released
    <3> QED BY <3>1 DEF IInv, TypeOK, Statuses
  <2> QED BY <2>1, <2>2
<1> HIDE DEF released
<1>4. \A l \in Loops :
        IF l[1] = p THEN pc'[l] = "down" /\ work'[l] = None
        ELSE pc'[l] = pc[l] /\ work'[l] = work[l]
  BY <1>1 DEF Leave
<1>5. TypeOK'
  <2>1. /\ pc' \in [Loops -> Points] /\ work' \in [Loops -> Jobs \union {None}]
        /\ base' \in [Loops -> Nat]
    BY <1>1 DEF Leave, IInv, TypeOK, Points
  <2> QED BY <1>1, <1>3, <2>1 DEF IInv, TypeOK
<1>6. Queued'
  BY <1>1, <1>2, <1>3 DEF IInv, Queued, Active
<1>7. LoopsSound'
  BY <1>1, <1>4 DEF IInv, LoopsSound, LoopSound
<1>8. EffectsOnce'
  BY <1>1, <1>3 DEF IInv, EffectsOnce
<1>9. NoneStuck'
  <2> SUFFICES ASSUME NEW j \in Jobs
               PROVE  /\ status'[j] = "pending" => attempts'[j] < MaxAttempts /\ owner'[j] = None
                      /\ status'[j] = "running" =>
                           owner'[j] \in Loops /\ (work'[owner'[j]] = j \/ pc'[owner'[j]] = "down")
    BY DEF NoneStuck
  <2>1. CASE j \in released
    BY <1>1, <1>2, <1>3, <2>1 DEF IInv, Queued, Active
  <2>2. CASE j \notin released
    BY <1>1, <1>3, <1>4, <2>2 DEF IInv, NoneStuck
  <2> QED BY <2>1, <2>2
<1>10. TakenInTurn'
  <2> SUFFICES ASSUME NEW l \in Loops, work'[l] \in Automatic
               PROVE  InTurn(work[l])'
    BY DEF TakenInTurn
  <2>1. work'[l] = work[l]
    BY <1>4, JobFacts
  <2>2. InTurn(work[l])
    BY <2>1 DEF IInv, TakenInTurn
  <2>3. \A i \in Automatic : status'[i] \in Active => status[i] \in Active
    BY <1>2, <1>3, JobFacts DEF Active
  <2> QED BY <1>1, <2>1, <2>2, <2>3 DEF InTurn, Earlier
<1>11. OrderedStep
  BY <1>1, JobFacts DEF OrderedStep
<1> QED BY <1>5, <1>6, <1>7, <1>8, <1>9, <1>10, <1>11 DEF IInv

-----------------------------------------------------------------------------
(* The steps of a loop.                                                    *)

LEMMA ClaimStep ==
  ASSUME IInv, NEW l \in Loops, Claim(l)
  PROVE  IInv' /\ OrderedStep
<1> USE DEF Claim
<1>1. PICK k \in Candidates(l[2]) :
        /\ status' = [status EXCEPT ![k] = "running"]
        /\ owner' = [owner EXCEPT ![k] = l]
        /\ work' = [work EXCEPT ![l] = k]
  OBVIOUS
<1>2. /\ k \in Jobs /\ status[k] = "pending" /\ attempts[k] < MaxAttempts
      /\ \A i \in Jobs : Earlier(i, k) => status[i] \notin Active
  BY DEF Candidates
<1>3. pc[l] = "idle" /\ pc' = [pc EXCEPT ![l] = "claimed"]
  OBVIOUS
<1>4. UNCHANGED <<version, attempts, result, effects, base>>
  OBVIOUS
<1> HIDE DEF Claim
<1>5. TypeOK'
  BY <1>1, <1>2, <1>3, <1>4 DEF IInv, TypeOK, Statuses, Points
<1>6. /\ \A j \in Jobs : /\ status'[j] = (IF j = k THEN "running" ELSE status[j])
                         /\ owner'[j] = (IF j = k THEN l ELSE owner[j])
      /\ \A m \in Loops : /\ work'[m] = (IF m = l THEN k ELSE work[m])
                          /\ pc'[m] = (IF m = l THEN "claimed" ELSE pc[m])
  BY <1>1, <1>2, <1>3 DEF IInv, TypeOK
<1>7. Queued'
  BY <1>2, <1>4, <1>6 DEF IInv, Queued, Active
<1>8. LoopsSound'
  BY <1>2, <1>4, <1>6, JobFacts DEF IInv, LoopsSound, LoopSound
<1>9. EffectsOnce'
  BY <1>4, <1>6 DEF IInv, EffectsOnce
<1>10. NoneStuck'
  <2> SUFFICES ASSUME NEW j \in Jobs
               PROVE  /\ status'[j] = "pending" => attempts'[j] < MaxAttempts /\ owner'[j] = None
                      /\ status'[j] = "running" =>
                           owner'[j] \in Loops /\ (work'[owner'[j]] = j \/ pc'[owner'[j]] = "down")
    BY DEF NoneStuck
  <2>1. CASE j = k
    BY <1>6, <2>1
  <2>2. CASE j # k
    <3>1. status[j] = "running" => owner[j] # l
      BY <1>3, JobFacts DEF IInv, NoneStuck, LoopsSound, LoopSound
    <3> QED BY <1>4, <1>6, <2>2, <3>1 DEF IInv, NoneStuck
  <2> QED BY <2>1, <2>2
<1>11. TakenInTurn'
  <2> SUFFICES ASSUME NEW m \in Loops, work'[m] \in Automatic
               PROVE  InTurn(work[m])'
    BY DEF TakenInTurn
  <2>1. /\ version' = version
        /\ \A i \in Automatic : status'[i] \in Active <=> status[i] \in Active
    BY <1>2, <1>4, <1>6, JobFacts DEF Active
  <2>2. CASE m = l
    <3>1. work'[m] = k
      BY <1>6, <2>2
    <3>2. InTurn(k)
      <4>1. k.source <= version
        BY <1>2, <3>1, JobFacts, VersionAssumption DEF IInv, TypeOK, Queued
      <4> QED BY <1>2, <4>1, JobFacts DEF InTurn
    <3> QED BY <2>1, <3>1, <3>2 DEF InTurn, Earlier
  <2>3. CASE m # l
    <3>1. work'[m] = work[m] /\ InTurn(work[m])
      BY <1>6, <2>3 DEF IInv, TakenInTurn
    <3> QED BY <2>1, <3>1 DEF InTurn, Earlier
  <2> QED BY <2>2, <2>3
<1>12. OrderedStep
  BY <1>4 DEF OrderedStep
<1> QED BY <1>5, <1>7, <1>8, <1>9, <1>10, <1>11, <1>12 DEF IInv

(* A loop that only moves on with its job, and changes no job, is as sound *)
(* as it was.                                                              *)
LEMMA MoveStep ==
  ASSUME IInv, NEW l \in Loops, NEW p \in Points \ {"down", "idle"},
         pc[l] \notin {"down", "idle"}, pc' = [pc EXCEPT ![l] = p],
         p = "completing" => result[work[l]],
         base' \in [Loops -> Nat],
         UNCHANGED <<version, jobVars, effects, work>>
  PROVE  IInv' /\ OrderedStep
<1>1. TypeOK'
  BY DEF IInv, TypeOK, jobVars
<1>2. \A m \in Loops : pc'[m] = IF m = l THEN p ELSE pc[m]
  BY DEF IInv, TypeOK
<1>3. Queued' /\ EffectsOnce' /\ TakenInTurn'
  BY DEF IInv, Queued, EffectsOnce, TakenInTurn, InTurn, jobVars
<1>4. LoopsSound'
  BY <1>2 DEF IInv, LoopsSound, LoopSound, jobVars
<1>5. NoneStuck'
  BY <1>2 DEF IInv, NoneStuck, jobVars
<1>6. OrderedStep
  BY DEF OrderedStep
<1> QED BY <1>1, <1>3, <1>4, <1>5, <1>6 DEF IInv

LEMMA BeginStep ==
  ASSUME IInv, NEW l \in Loops, Begin(l)
  PROVE  IInv' /\ OrderedStep
<1> DEFINE p == IF result[work[l]] THEN "completing"
                ELSE IF Appended(work[l]) THEN "recording" ELSE "calling"
<1>1. /\ pc[l] = "claimed" /\ pc' = [pc EXCEPT ![l] = p]
      /\ UNCHANGED <<version, jobVars, effects, work>>
  BY DEF Begin
<1>2. base' \in [Loops -> Nat]
  <2>1. base' = [base EXCEPT ![l] = IF work[l].type = "story_memory" THEN Revision ELSE 0]
    BY DEF Begin
  <2> QED BY <2>1, RevisionFacts DEF IInv, TypeOK
<1>3. /\ p \in Points \ {"down", "idle"}
      /\ p = "completing" => result[work[l]]
  BY DEF Points
<1> HIDE DEF p
<1> QED BY <1>1, <1>2, <1>3, MoveStep

LEMMA RaiseStep ==
  ASSUME IInv, NEW l \in Loops, Raise(l)
  PROVE  IInv' /\ OrderedStep
<1>1. /\ pc[l] \notin {"down", "idle"} /\ pc' = [pc EXCEPT ![l] = "failing"]
      /\ UNCHANGED <<version, jobVars, effects, work>>
      /\ base' \in [Loops -> Nat] /\ "failing" \in Points \ {"down", "idle"}
  BY DEF Raise, IInv, TypeOK, Points
<1> QED BY <1>1, MoveStep

(* A loop that lets go of its job, which does not run for it any more.     *)
LEMMA DropStep ==
  ASSUME IInv, NEW l \in Loops, Drop(l), pc[l] \notin {"down", "idle"},
         status' \in [Jobs -> Statuses], attempts' \in [Jobs -> 0..MaxAttempts],
         owner' \in [Jobs -> Loops \union {None}],
         UNCHANGED <<version, result, effects>>,
         ~Owns(l) => UNCHANGED <<status, attempts, owner>>,
         Owns(l) =>
           /\ \A j \in Jobs \ {work[l]} :
                status'[j] = status[j] /\ attempts'[j] = attempts[j] /\ owner'[j] = owner[j]
           /\ owner'[work[l]] = None
           /\ \/ status'[work[l]] = "pending" /\ attempts'[work[l]] < MaxAttempts
              \/ status'[work[l]] = "failed"
              \/ status'[work[l]] = "succeeded" /\ result[work[l]]
  PROVE  IInv' /\ OrderedStep
<1>1. TypeOK'
  <2>1. /\ pc' \in [Loops -> Points] /\ work' \in [Loops -> Jobs \union {None}]
        /\ base' \in [Loops -> Nat]
    BY DEF Drop, IInv, TypeOK, Points
  <2> QED BY <2>1 DEF IInv, TypeOK
<1>2. \A m \in Loops : /\ work'[m] = (IF m = l THEN None ELSE work[m])
                       /\ pc'[m] = (IF m = l THEN "idle" ELSE pc[m])
  BY DEF Drop, IInv, TypeOK
<1>3. \A j \in Jobs : ~(Owns(l) /\ j = work[l]) =>
        status'[j] = status[j] /\ attempts'[j] = attempts[j] /\ owner'[j] = owner[j]
  OBVIOUS
<1>4. Queued'
  <2> SUFFICES ASSUME NEW j \in Jobs
               PROVE  /\ j \in Automatic => (status'[j] = "absent" <=> j.source > version')
                      /\ status'[j] = "absent" => attempts'[j] = 0
                      /\ status'[j] \in Active => attempts'[j] < MaxAttempts
                      /\ status'[j] # "running" => owner'[j] = None
    BY DEF Queued
  <2>1. CASE Owns(l) /\ j = work[l]
    BY <2>1, OwnsFacts DEF IInv, Queued, Active
  <2>2. CASE ~(Owns(l) /\ j = work[l])
    BY <1>3, <2>2 DEF IInv, Queued, Active
  <2> QED BY <2>1, <2>2
<1>5. LoopsSound'
  BY <1>2 DEF IInv, LoopsSound, LoopSound
<1>6. EffectsOnce'
  <2> SUFFICES ASSUME NEW j \in Jobs
               PROVE  /\ effects'[j] <= 1
                      /\ effects'[j] = 1 => result'[j] \/ j.type = "story_memory"
                      /\ status'[j] = "succeeded" => result'[j]
    BY DEF EffectsOnce
  <2>1. CASE Owns(l) /\ j = work[l]
    BY <2>1 DEF IInv, EffectsOnce
  <2>2. CASE ~(Owns(l) /\ j = work[l])
    BY <1>3, <2>2 DEF IInv, EffectsOnce
  <2> QED BY <2>1, <2>2
<1>7. NoneStuck'
  <2> SUFFICES ASSUME NEW j \in Jobs
               PROVE  /\ status'[j] = "pending" => attempts'[j] < MaxAttempts /\ owner'[j] = None
                      /\ status'[j] = "running" =>
                           owner'[j] \in Loops /\ (work'[owner'[j]] = j \/ pc'[owner'[j]] = "down")
    BY DEF NoneStuck
  <2>1. CASE Owns(l) /\ j = work[l]
    BY <2>1
  <2>2. CASE ~(Owns(l) /\ j = work[l])
    <3>1. status[j] = "running" => owner[j] # l
      BY <2>2, JobFacts DEF IInv, NoneStuck, Owns
    <3> QED BY <1>2, <1>3, <2>2, <3>1 DEF IInv, NoneStuck
  <2> QED BY <2>1, <2>2
<1>8. TakenInTurn'
  <2> SUFFICES ASSUME NEW m \in Loops, work'[m] \in Automatic
               PROVE  InTurn(work[m])'
    BY DEF TakenInTurn
  <2>1. work'[m] = work[m] /\ InTurn(work[m])
    BY <1>2, JobFacts DEF IInv, TakenInTurn
  <2>2. \A i \in Automatic : status'[i] \in Active => status[i] \in Active
    BY <1>3, OwnsFacts, JobFacts DEF Active
  <2> QED BY <2>1, <2>2 DEF InTurn, Earlier
<1>9. OrderedStep
  BY DEF OrderedStep
<1> QED BY <1>1, <1>4, <1>5, <1>6, <1>7, <1>8, <1>9 DEF IInv

LEMMA CompleteStep ==
  ASSUME IInv, NEW l \in Loops, Complete(l)
  PROVE  IInv' /\ OrderedStep
<1>1. /\ Drop(l) /\ pc[l] = "completing"
      /\ UNCHANGED <<version, attempts, result, effects>>
  BY DEF Complete
<1>2. CASE Owns(l)
  <2>1. work[l] \in Jobs /\ result[work[l]]
    BY <1>1, <1>2, OwnsFacts DEF IInv, LoopsSound, LoopSound
  <2>2. /\ status' = [status EXCEPT ![work[l]] = "succeeded"]
        /\ owner' = [owner EXCEPT ![work[l]] = None]
    BY <1>2 DEF Complete
  <2>3. /\ status' \in [Jobs -> Statuses] /\ owner' \in [Jobs -> Loops \union {None}]
        /\ attempts' \in [Jobs -> 0..MaxAttempts]
        /\ \A j \in Jobs \ {work[l]} : status'[j] = status[j] /\ owner'[j] = owner[j]
        /\ status'[work[l]] = "succeeded" /\ owner'[work[l]] = None
    BY <1>1, <2>1, <2>2 DEF IInv, TypeOK, Statuses
  <2> QED BY <1>1, <1>2, <2>1, <2>3, DropStep
<1>3. CASE ~Owns(l)
  <2>1. UNCHANGED <<status, attempts, owner>>
    BY <1>1, <1>3 DEF Complete
  <2>2. /\ status' \in [Jobs -> Statuses] /\ owner' \in [Jobs -> Loops \union {None}]
        /\ attempts' \in [Jobs -> 0..MaxAttempts]
    BY <2>1 DEF IInv, TypeOK
  <2> QED BY <1>1, <1>3, <2>1, <2>2, DropStep
<1> QED BY <1>2, <1>3

LEMMA FailStep ==
  ASSUME IInv, NEW l \in Loops, NEW r \in BOOLEAN, Fail(l, r), pc[l] \notin {"down", "idle"}
  PROVE  IInv' /\ OrderedStep
<1>1. Drop(l) /\ UNCHANGED <<version, result, effects>>
  BY DEF Fail
<1>2. CASE Owns(l)
  <2> DEFINE n == attempts[work[l]] + 1
             s == IF ~r \/ n >= MaxAttempts THEN "failed" ELSE "pending"
  <2>1. /\ work[l] \in Jobs /\ attempts[work[l]] \in 0..MaxAttempts
        /\ attempts[work[l]] < MaxAttempts
    BY <1>2, OwnsFacts DEF IInv, TypeOK
  <2>2. /\ attempts' = [attempts EXCEPT ![work[l]] = @ + 1]
        /\ status' = [status EXCEPT ![work[l]] = s]
        /\ owner' = [owner EXCEPT ![work[l]] = None]
    BY <1>2 DEF Fail
  <2>3. n \in 0..MaxAttempts /\ s \in Statuses /\ ((s = "pending" /\ n < MaxAttempts) \/ s = "failed")
    BY <2>1, AttemptsAssumption DEF Statuses
  <2>4. attempts' = [attempts EXCEPT ![work[l]] = n]
    BY <2>1, <2>2 DEF IInv, TypeOK
  <2> HIDE DEF n, s
  <2>5. /\ status' \in [Jobs -> Statuses] /\ owner' \in [Jobs -> Loops \union {None}]
        /\ attempts' \in [Jobs -> 0..MaxAttempts]
        /\ \A j \in Jobs \ {work[l]} :
             status'[j] = status[j] /\ attempts'[j] = attempts[j] /\ owner'[j] = owner[j]
        /\ status'[work[l]] = s /\ attempts'[work[l]] = n /\ owner'[work[l]] = None
    BY <2>1, <2>2, <2>3, <2>4 DEF IInv, TypeOK
  <2> QED BY <1>1, <1>2, <2>1, <2>3, <2>5, DropStep
<1>3. CASE ~Owns(l)
  <2>1. UNCHANGED <<status, attempts, owner>>
    BY <1>3 DEF Fail
  <2>2. /\ status' \in [Jobs -> Statuses] /\ owner' \in [Jobs -> Loops \union {None}]
        /\ attempts' \in [Jobs -> 0..MaxAttempts]
    BY <2>1 DEF IInv, TypeOK
  <2> QED BY <1>1, <1>3, <2>1, <2>2, DropStep
<1> QED BY <1>2, <1>3

LEMMA PersistStep ==
  ASSUME IInv, NEW l \in Loops, Persist(l)
  PROVE  IInv' /\ OrderedStep
<1>1. /\ pc[l] \in {"calling", "recording"}
      /\ UNCHANGED <<version, status, attempts, owner>>
  BY DEF Persist
<1>2. CASE ~Owns(l)
  <2>1. Drop(l) /\ UNCHANGED <<result, effects>>
    BY <1>2 DEF Persist
  <2>2. /\ status' \in [Jobs -> Statuses] /\ owner' \in [Jobs -> Loops \union {None}]
        /\ attempts' \in [Jobs -> 0..MaxAttempts]
    BY <1>1 DEF IInv, TypeOK
  <2> QED BY <1>1, <1>2, <2>1, <2>2, DropStep
<1>3. CASE Owns(l)
  <2>1. /\ pc' = [pc EXCEPT ![l] = "completing"] /\ UNCHANGED <<work, base>>
        /\ work[l] \in Jobs
    BY <1>3, OwnsFacts DEF Persist
  <2>2. CASE result[work[l]]
    <3>1. UNCHANGED <<version, jobVars, effects, work>> /\ base' \in [Loops -> Nat]
      BY <1>1, <1>3, <2>1, <2>2 DEF Persist, jobVars, IInv, TypeOK
    <3>2. "completing" \in Points \ {"down", "idle"} /\ pc[l] \notin {"down", "idle"}
      BY <1>1 DEF Points
    <3> QED BY <2>1, <2>2, <3>1, <3>2, MoveStep
  <2>3. CASE ~result[work[l]]
    <3>1. PICK n \in Writes(work[l]) : effects' = [effects EXCEPT ![work[l]] = @ + n]
      BY <1>3, <2>3 DEF Persist
    <3>2. result' = [result EXCEPT ![work[l]] = TRUE]
      BY <1>3, <2>3 DEF Persist
    <3>3. n \in {0, 1} /\ (work[l].type = "story_memory" => n = 0)
      BY DEF Writes
    <3>4. /\ result'[work[l]]
          /\ \A j \in Jobs : /\ result[j] => result'[j]
                             /\ effects'[j] = (IF j = work[l] THEN effects[j] + n ELSE effects[j])
          /\ \A m \in Loops : pc'[m] = (IF m = l THEN "completing" ELSE pc[m])
      BY <2>1, <3>1, <3>2, <3>3 DEF IInv, TypeOK
    <3>5. effects[work[l]] \in Nat
          /\ (work[l].type # "story_memory" => effects[work[l]] = 0)
      BY <2>1, <2>3 DEF IInv, TypeOK, EffectsOnce
    <3>6. TypeOK'
      <4>1. /\ result' \in [Jobs -> BOOLEAN] /\ pc' \in [Loops -> Points]
        BY <2>1, <3>2 DEF IInv, TypeOK, Points
      <4>2. effects' \in [Jobs -> Nat]
        BY <2>1, <3>1, <3>3, <3>5 DEF IInv, TypeOK
      <4> QED BY <1>1, <2>1, <4>1, <4>2 DEF IInv, TypeOK
    <3>7. Queued' /\ NoneStuck' /\ TakenInTurn'
      BY <1>1, <2>1, <3>4 DEF IInv, Queued, NoneStuck, TakenInTurn, InTurn
    <3>8. LoopsSound'
      <4> SUFFICES ASSUME NEW m \in Loops
                   PROVE  LoopSound(m)'
        BY DEF LoopsSound
      <4>1. work[m] \in Jobs \union {None} /\ LoopSound(m)
        BY DEF IInv, TypeOK, LoopsSound
      <4>2. CASE m = l
        BY <2>1, <3>4, <4>2, JobFacts DEF LoopSound
      <4>3. CASE m # l
        BY <2>1, <3>4, <4>1, <4>3 DEF LoopSound
      <4> QED BY <4>2, <4>3
    <3>9. EffectsOnce'
      <4> SUFFICES ASSUME NEW j \in Jobs
                   PROVE  /\ effects'[j] <= 1
                          /\ effects'[j] = 1 => result'[j] \/ j.type = "story_memory"
                          /\ status'[j] = "succeeded" => result'[j]
        BY DEF EffectsOnce
      <4>1. /\ effects[j] <= 1
            /\ effects[j] = 1 => result[j] \/ j.type = "story_memory"
            /\ status[j] = "succeeded" => result[j]
        BY DEF IInv, EffectsOnce
      <4>2. CASE j = work[l]
        BY <3>3, <3>4, <3>5, <4>1, <4>2
      <4>3. CASE j # work[l]
        BY <1>1, <3>4, <4>1, <4>3
      <4> QED BY <4>2, <4>3
    <3>10. OrderedStep
      <4> SUFFICES ASSUME NEW i \in Automatic, NEW j \in Automatic, Earlier(i, j),
                          effects'[j] # effects[j]
                   PROVE  status[i] \notin Active
        BY DEF OrderedStep
      <4>1. j = work[l]
        BY <3>4, JobFacts
      <4> QED BY <4>1 DEF IInv, TakenInTurn, InTurn
    <3> QED BY <3>6, <3>7, <3>8, <3>9, <3>10 DEF IInv
  <2> QED BY <2>2, <2>3
<1> QED BY <1>2, <1>3

LEMMA AppendStep ==
  ASSUME IInv, NEW l \in Loops, AppendMemory(l)
  PROVE  IInv' /\ OrderedStep
<1>1. /\ pc[l] = "calling" /\ work[l].type = "story_memory"
      /\ UNCHANGED <<version, jobVars, work, base>>
  BY DEF AppendMemory
<1>2. work[l] \in Jobs
  BY <1>1 DEF IInv, TypeOK, LoopsSound, LoopSound
<1>3. CASE ~(~Appended(work[l]) /\ Revision = base[l])
  <2>1. pc' = [pc EXCEPT ![l] = "failing"] /\ UNCHANGED effects
    BY <1>3 DEF AppendMemory
  <2>2. /\ base' \in [Loops -> Nat] /\ "failing" \in Points \ {"down", "idle"}
        /\ pc[l] \notin {"down", "idle"}
    BY <1>1 DEF IInv, TypeOK, Points
  <2> QED BY <1>1, <2>1, <2>2, MoveStep
<1>4. CASE ~Appended(work[l]) /\ Revision = base[l]
  <2>1. /\ effects' = [effects EXCEPT ![work[l]] = @ + 1]
        /\ pc' = [pc EXCEPT ![l] = "recording"]
    BY <1>4 DEF AppendMemory
  <2>2. effects[work[l]] = 0
    BY <1>1, <1>2, <1>4 DEF IInv, TypeOK, Appended
  <2>3. /\ \A j \in Jobs : effects'[j] = IF j = work[l] THEN 1 ELSE effects[j]
        /\ effects' \in [Jobs -> Nat]
    BY <1>2, <2>1, <2>2 DEF IInv, TypeOK
  <2>4. /\ \A m \in Loops : pc'[m] = IF m = l THEN "recording" ELSE pc[m]
        /\ pc' \in [Loops -> Points]
    BY <2>1 DEF IInv, TypeOK, Points
  <2>5. TypeOK'
    BY <1>1, <2>3, <2>4 DEF IInv, TypeOK, jobVars
  <2>6. Queued' /\ TakenInTurn'
    BY <1>1 DEF IInv, Queued, TakenInTurn, InTurn, jobVars
  <2>7. LoopsSound' /\ NoneStuck'
    BY <1>1, <2>4 DEF IInv, LoopsSound, LoopSound, NoneStuck, jobVars
  <2>8. EffectsOnce'
    BY <1>1, <2>3 DEF IInv, EffectsOnce, jobVars
  <2>9. OrderedStep
    <3> SUFFICES ASSUME NEW i \in Automatic, NEW j \in Automatic, Earlier(i, j),
                        effects'[j] # effects[j]
                 PROVE  status[i] \notin Active
      BY DEF OrderedStep
    <3>1. j = work[l]
      BY <2>3, JobFacts
    <3> QED BY <3>1 DEF IInv, TakenInTurn, InTurn
  <2> QED BY <2>5, <2>6, <2>7, <2>8, <2>9 DEF IInv
<1> QED BY <1>3, <1>4

-----------------------------------------------------------------------------
(* The whole.                                                              *)

LEMMA LoopStepInv ==
  ASSUME IInv, NEW l \in Loops, LoopStep(l)
  PROVE  IInv' /\ OrderedStep
<1>1. CASE Claim(l)
  BY <1>1, ClaimStep
<1>2. CASE Begin(l)
  BY <1>2, BeginStep
<1>3. CASE Persist(l)
  BY <1>3, PersistStep
<1>4. CASE AppendMemory(l)
  BY <1>4, AppendStep
<1>5. CASE Complete(l)
  BY <1>5, CompleteStep
<1>6. CASE Raise(l)
  BY <1>6, RaiseStep
<1>7. CASE FailRetryable(l)
  <2>1. Fail(l, TRUE) /\ pc[l] \notin {"down", "idle"}
    BY <1>7 DEF FailRetryable
  <2> QED BY <2>1, FailStep
<1>8. CASE RejectOutput(l)
  <2>1. Fail(l, FALSE) /\ pc[l] \notin {"down", "idle"}
    BY <1>8 DEF RejectOutput
  <2> QED BY <2>1, FailStep
<1> QED BY <1>1, <1>2, <1>3, <1>4, <1>5, <1>6, <1>7, <1>8 DEF LoopStep

LEMMA NextInv ==
  ASSUME IInv, [Next]_vars
  PROVE  IInv' /\ OrderedStep
<1>1. CASE CommitTurn
  BY <1>1, CommitStep
<1>2. CASE \E o \in Operations : Enqueue(o)
  BY <1>2, EnqueueStep
<1>3. CASE \E p \in Processes : Start(p)
  BY <1>3, StartStep
<1>4. CASE \E p \in Processes : Crash(p) \/ Stop(p)
  BY <1>4, LeaveStep
<1>5. CASE \E l \in Loops : LoopStep(l)
  BY <1>5, LoopStepInv
<1>6. CASE UNCHANGED vars
  <2>1. IInv'
    BY <1>6 DEF vars, jobVars, loopVars, IInv, TypeOK, Queued, LoopsSound, LoopSound,
                EffectsOnce, NoneStuck, TakenInTurn, InTurn
  <2>2. OrderedStep
    BY <1>6 DEF vars, OrderedStep
  <2> QED BY <2>1, <2>2
<1> QED BY <1>1, <1>2, <1>3, <1>4, <1>5, <1>6 DEF Next

(* The rows of rp_service_jobs and rp_administrator_jobs and the loops of  *)
(* rp/runner.py agree in every reachable state.                            *)
THEOREM Invariant == Spec => []IInv
BY InitInv, NextInv, PTL DEF Spec

(* Every column keeps its type; in particular no job is tried more often   *)
(* than RP_JOB_MAX_ATTEMPTS allows.                                        *)
THEOREM TypeCorrect == Spec => []TypeOK
<1>1. IInv => TypeOK
  BY DEF IInv
<1> QED BY <1>1, Invariant, PTL

(* A job writes to the Party at most once, and succeeds only with its      *)
(* result recorded, however many processes recover, claim and lose it.     *)
THEOREM WrittenOnce == Spec => []EffectsOnce
<1>1. IInv => EffectsOnce
  BY DEF IInv
<1> QED BY <1>1, Invariant, PTL

(* No job is left that nobody can ever claim, finish or recover.           *)
THEOREM NeverStuck == Spec => []NoneStuck
<1>1. IInv => NoneStuck
  BY DEF IInv
<1> QED BY <1>1, Invariant, PTL

(* What automatic jobs write, they write in the order of their turns, also *)
(* a memory update that its loop appends after it has lost the job.        *)
THEOREM WrittenInOrder == Spec => InOrder
<1>1. IInv /\ [Next]_vars => [OrderedStep]_vars
  BY NextInv
<1>2. InOrder <=> [][OrderedStep]_vars
  BY PTL DEF InOrder, OrderedStep
<1> QED BY <1>1, <1>2, Invariant, PTL DEF Spec

-----------------------------------------------------------------------------
(* Refinement: the automatic jobs do what JobOrder allows.                 *)

\* The abstract state.
Ended(j) == status[j] \in {"succeeded", "failed"}
Over == [t \in Types |-> {v \in 1..MaxVersion : Ended(JobOf(t, v))}]
Written == [t \in Types |-> {v \in 1..MaxVersion : effects[JobOf(t, v)] > 0}]

(* An automatic job is named by its type and its turn.                     *)
LEMMA NamedJobs ==
  /\ \A t \in Types, v \in 1..MaxVersion :
       JobOf(t, v) \in Automatic /\ JobOf(t, v).type = t /\ JobOf(t, v).source = v
  /\ \A j \in Automatic :
       j.type \in Types /\ j.source \in 1..MaxVersion /\ j = JobOf(j.type, j.source)
BY DEF Automatic, JobOf

(* A job in turn is free: its predecessors are queued, and none is active. *)
LEMMA FreeInTurn ==
  ASSUME IInv, NEW j \in Automatic, InTurn(j)
  PROVE  Order!Free(j.type, j.source)
<1>1. j.type \in Types /\ j.source \in 1..MaxVersion /\ version \in 0..MaxVersion
      /\ j.source <= version
  BY NamedJobs DEF IInv, TypeOK, InTurn
<1>2. ASSUME NEW u \in 1..(j.source - 1)
      PROVE  u \in Over[j.type]
  <2> DEFINE i == JobOf(j.type, u)
  <2>1. u \in 1..MaxVersion /\ u < j.source /\ ~(u > version)
    BY <1>1, VersionAssumption
  <2>2. i \in Automatic /\ i.type = j.type /\ i.source = u
    BY <1>1, <2>1, NamedJobs
  <2> HIDE DEF i
  <2>3. i \in Jobs /\ status[i] # "absent" /\ status[i] \notin Active
    BY <2>1, <2>2, JobFacts DEF IInv, Queued, InTurn, Earlier
  <2>4. Ended(i)
    BY <2>3 DEF IInv, TypeOK, Statuses, Active, Ended
  <2> QED BY <1>1, <2>1, <2>4 DEF Over, i
<1>3. j.source \in 1..version
  BY <1>1, VersionAssumption
<1> QED BY <1>2, <1>3 DEF Order!Free, Over, Ended

(* A step that ends no automatic job and writes for none is a stutter.     *)
LEMMA NoJobMoves ==
  ASSUME \A j \in Automatic : (Ended(j)' <=> Ended(j)) /\ effects'[j] = effects[j]
  PROVE  Over' = Over /\ Written' = Written
<1>1. \A t \in Types, v \in 1..MaxVersion :
        /\ Ended(JobOf(t, v))' <=> Ended(JobOf(t, v))
        /\ effects'[JobOf(t, v)] = effects[JobOf(t, v)]
  BY NamedJobs DEF JobOf
<1> QED BY <1>1 DEF Over, Written, JobOf

(* A job ends.                                                             *)
LEMMA EndsInOrder ==
  ASSUME IInv, NEW j \in Automatic, InTurn(j), ~Ended(j),
         \A i \in Automatic : Ended(i)' <=> (i = j \/ Ended(i)),
         UNCHANGED <<version, effects>>
  PROVE  Order!Next
<1>1. j.type \in Types /\ j.source \in 1..MaxVersion /\ j = JobOf(j.type, j.source)
  BY NamedJobs
<1>2. Order!Free(j.type, j.source) /\ j.source \in 1..version
  BY FreeInTurn DEF Order!Free
<1>3. Over' = [Over EXCEPT ![j.type] = @ \union {j.source}] /\ j.source \notin Over[j.type]
  <2>1. \A t \in Types, v \in 1..MaxVersion :
          Ended(JobOf(t, v))' <=> ((t = j.type /\ v = j.source) \/ Ended(JobOf(t, v)))
    BY <1>1, NamedJobs DEF JobOf
  <2>2. \A t \in Types : Over'[t] = IF t = j.type THEN Over[t] \union {j.source} ELSE Over[t]
    BY <1>1, <2>1 DEF Over, JobOf
  <2> QED BY <1>1, <2>2 DEF Over
<1>4. Written' = Written
  BY DEF Written, JobOf
<1>5. Order!End(j.type, j.source)
  BY <1>2, <1>3, <1>4 DEF Order!End, Over, Written, Ended
<1> QED BY <1>1, <1>2, <1>5 DEF Order!Next

(* A job writes for the first time.                                        *)
LEMMA WritesInOrder ==
  ASSUME IInv, NEW j \in Automatic, InTurn(j), effects[j] = 0, effects'[j] = 1,
         \A i \in Automatic \ {j} : effects'[i] = effects[i],
         UNCHANGED <<version, status>>
  PROVE  Order!Next
<1>1. j.type \in Types /\ j.source \in 1..MaxVersion /\ j = JobOf(j.type, j.source)
  BY NamedJobs
<1>2. Order!Free(j.type, j.source) /\ j.source \in 1..version
  BY FreeInTurn DEF Order!Free
<1>3. Written' = [Written EXCEPT ![j.type] = @ \union {j.source}]
      /\ j.source \notin Written[j.type]
  <2>1. \A t \in Types, v \in 1..MaxVersion :
          (effects'[JobOf(t, v)] > 0)
            <=> ((t = j.type /\ v = j.source) \/ effects[JobOf(t, v)] > 0)
    BY <1>1, NamedJobs DEF JobOf
  <2>2. \A t \in Types :
          Written'[t] = IF t = j.type THEN Written[t] \union {j.source} ELSE Written[t]
    BY <1>1, <2>1 DEF Written, JobOf
  <2>3. ~(effects[JobOf(j.type, j.source)] > 0)
    BY <1>1
  <2>4. j.source \notin Written[j.type]
    BY <1>1, <2>3 DEF Written
  <2>5. Written' = [t \in Types |-> Written'[t]] /\ Written = [t \in Types |-> Written[t]]
    BY DEF Written
  <2> HIDE DEF Written
  <2> QED BY <1>1, <2>2, <2>4, <2>5
<1>4. Over' = Over
  BY DEF Over, Ended, JobOf
<1>5. Order!Write(j.type, j.source)
  BY <1>2, <1>3, <1>4 DEF Order!Write, Over, Written, Ended
<1> QED BY <1>1, <1>2, <1>5 DEF Order!Next

(* A loop lets go of its job: it has ended the job or not.                 *)
LEMMA DropInOrder ==
  ASSUME IInv, NEW l \in Loops, UNCHANGED <<version, effects>>,
         ~Owns(l) => UNCHANGED status,
         Owns(l) => \E s : status' = [status EXCEPT ![work[l]] = s]
  PROVE  [Order!Next]_(Order!orderVars)
<1>0. \A i \in Jobs : ~(Owns(l) /\ i = work[l]) => status'[i] = status[i]
  BY DEF IInv, TypeOK
<1>1. CASE Owns(l) /\ work[l] \in Automatic /\ status'[work[l]] \in {"succeeded", "failed"}
  <2>1. InTurn(work[l]) /\ ~Ended(work[l])
    BY <1>1, OwnsFacts DEF IInv, TakenInTurn, Ended
  <2>2. \A i \in Automatic : Ended(i)' <=> (i = work[l] \/ Ended(i))
    BY <1>0, <1>1, JobFacts DEF Ended
  <2>3. PICK j \in Automatic : j = work[l]
    BY <1>1
  <2> QED BY <2>1, <2>2, <2>3, EndsInOrder
<1>2. CASE ~(Owns(l) /\ work[l] \in Automatic /\ status'[work[l]] \in {"succeeded", "failed"})
  <2>1. \A j \in Automatic : Ended(j)' <=> Ended(j)
    <3> SUFFICES ASSUME NEW j \in Automatic
                 PROVE  Ended(j)' <=> Ended(j)
      OBVIOUS
    <3>1. CASE Owns(l) /\ j = work[l]
      BY <1>2, <3>1, OwnsFacts DEF Ended
    <3>2. CASE ~(Owns(l) /\ j = work[l])
      BY <1>0, <3>2, JobFacts DEF Ended
    <3> QED BY <3>1, <3>2
  <2>2. Over' = Over /\ Written' = Written
    BY <2>1, NoJobMoves
  <2> QED BY <2>2 DEF Order!orderVars, Over, Written, Ended
<1> QED BY <1>1, <1>2

(* A step of a loop: Persist and AppendMemory write, Complete and Fail end.*)
LEMMA LoopStepInOrder ==
  ASSUME IInv, NEW l \in Loops, LoopStep(l)
  PROVE  [Order!Next]_(Order!orderVars)
<1>1. ASSUME UNCHANGED <<version, effects>>, \A j \in Automatic : Ended(j)' <=> Ended(j)
      PROVE  [Order!Next]_(Order!orderVars)
  <2>1. Over' = Over /\ Written' = Written
    BY <1>1, NoJobMoves
  <2> QED BY <1>1, <2>1 DEF Order!orderVars, Over, Written, Ended
<1>2. CASE Claim(l)
  <2>1. PICK k \in Jobs : status[k] = "pending" /\ status' = [status EXCEPT ![k] = "running"]
    BY <1>2 DEF Claim, Candidates
  <2>2. \A j \in Automatic : Ended(j)' <=> Ended(j)
    BY <2>1, JobFacts DEF IInv, TypeOK, Ended
  <2> QED BY <1>1, <1>2, <2>2 DEF Claim
<1>3. CASE Begin(l) \/ Raise(l)
  BY <1>1, <1>3 DEF Begin, Raise, jobVars, Ended
<1>4. CASE Persist(l)
  <2>1. UNCHANGED <<version, status>>
    BY <1>4 DEF Persist
  <2>2. CASE UNCHANGED effects
    BY <1>1, <2>1, <2>2 DEF Ended
  <2>3. CASE effects' # effects
    <3>1. Owns(l) /\ work[l] \in Jobs /\ ~result[work[l]]
      BY <1>4, <2>3, OwnsFacts DEF Persist
    <3>2. PICK n \in {0, 1} : /\ effects' = [effects EXCEPT ![work[l]] = @ + n]
                              /\ work[l].type = "story_memory" => n = 0
      BY <1>4, <2>3 DEF Persist, Writes
    <3>3. n = 1
      BY <2>3, <3>1, <3>2 DEF IInv, TypeOK
    <3>4. effects[work[l]] = 0
      BY <3>1, <3>2, <3>3 DEF IInv, TypeOK, EffectsOnce
    <3>5. \A i \in Jobs : effects'[i] = IF i = work[l] THEN 1 ELSE effects[i]
      BY <3>1, <3>2, <3>3, <3>4 DEF IInv, TypeOK
    <3>6. CASE work[l] \in Automatic
      <4>1. PICK j \in Automatic : j = work[l]
        BY <3>6
      <4>2. InTurn(j)
        BY <4>1 DEF IInv, TakenInTurn
      <4> QED BY <2>1, <3>4, <3>5, <4>1, <4>2, WritesInOrder, JobFacts
    <3>7. CASE work[l] \notin Automatic
      <4>1. \A j \in Automatic : (Ended(j)' <=> Ended(j)) /\ effects'[j] = effects[j]
        BY <2>1, <3>5, <3>7, JobFacts DEF Ended
      <4>2. Over' = Over /\ Written' = Written
        BY <4>1, NoJobMoves
      <4> QED BY <2>1, <4>2 DEF Order!orderVars, Over, Written, Ended
    <3> QED BY <3>6, <3>7
  <2> QED BY <2>2, <2>3
<1>5. CASE AppendMemory(l)
  <2>1. UNCHANGED <<version, status>> /\ pc[l] = "calling" /\ work[l].type = "story_memory"
    BY <1>5 DEF AppendMemory, jobVars
  <2>2. CASE UNCHANGED effects
    BY <1>1, <2>1, <2>2 DEF Ended
  <2>3. CASE effects' # effects
    <3>1. ~Appended(work[l]) /\ effects' = [effects EXCEPT ![work[l]] = @ + 1]
      BY <1>5, <2>3 DEF AppendMemory
    <3>2. work[l] \in Jobs
      BY <2>1 DEF IInv, TypeOK, LoopsSound, LoopSound
    <3>3. effects[work[l]] = 0
      BY <2>1, <3>1, <3>2 DEF IInv, TypeOK, Appended
    <3>4. \A i \in Jobs : effects'[i] = IF i = work[l] THEN 1 ELSE effects[i]
      BY <3>1, <3>2, <3>3 DEF IInv, TypeOK
    <3>5. work[l] \in Automatic
      BY <2>1, <3>2, OperationsAssumption DEF Jobs, Player, PlayerTypes
    <3>6. PICK j \in Automatic : j = work[l]
      BY <3>5
    <3>7. InTurn(j)
      BY <3>6 DEF IInv, TakenInTurn
    <3> QED BY <2>1, <3>3, <3>4, <3>6, <3>7, WritesInOrder, JobFacts
  <2> QED BY <2>2, <2>3
<1>6. CASE Complete(l)
  BY <1>6, DropInOrder DEF Complete
<1>7. CASE FailRetryable(l) \/ RejectOutput(l)
  <2>1. PICK r \in BOOLEAN : Fail(l, r)
    BY <1>7 DEF FailRetryable, RejectOutput
  <2>2. UNCHANGED <<version, effects>> /\ (~Owns(l) => UNCHANGED status)
    BY <2>1 DEF Fail
  <2>3. Owns(l) => \E s : status' = [status EXCEPT ![work[l]] = s]
    BY <2>1 DEF Fail
  <2> QED BY <2>2, <2>3, DropInOrder
<1> QED BY <1>2, <1>3, <1>4, <1>5, <1>6, <1>7 DEF LoopStep

(* Every step is a step of JobOrder or none.                               *)
LEMMA StepInOrder ==
  ASSUME IInv, [Next]_vars
  PROVE  [Order!Next]_(Order!orderVars)
<1>1. ASSUME UNCHANGED <<version, effects>>, \A j \in Automatic : Ended(j)' <=> Ended(j)
      PROVE  [Order!Next]_(Order!orderVars)
  <2>1. Over' = Over /\ Written' = Written
    BY <1>1, NoJobMoves
  <2> QED BY <1>1, <2>1 DEF Order!orderVars, Over, Written, Ended
<1>2. CASE CommitTurn
  <2>1. version' = version + 1 /\ effects' = effects
    BY <1>2 DEF CommitTurn
  <2>2. \A j \in Automatic : Ended(j)' <=> Ended(j)
    <3> SUFFICES ASSUME NEW j \in Automatic
                 PROVE  Ended(j)' <=> Ended(j)
      OBVIOUS
    <3>1. j.source = version + 1 => status[j] = "absent"
      BY JobFacts, VersionAssumption DEF IInv, TypeOK, Queued
    <3>2. status'[j] = IF j.source = version + 1 THEN "pending" ELSE status[j]
      BY <1>2, JobFacts DEF CommitTurn
    <3> QED BY <3>1, <3>2 DEF Ended
  <2>3. Over' = Over /\ Written' = Written
    BY <2>1, <2>2, NoJobMoves
  <2> QED BY <2>1, <2>3 DEF Order!Next, Order!Commit, Over, Written, Ended
<1>3. CASE \E o \in Operations : Enqueue(o)
  <2>1. PICK o \in Operations : Enqueue(o)
    BY <1>3
  <2>2. PICK k \in Jobs : k.op = o /\ status' = [status EXCEPT ![k] = "pending"]
    BY <2>1 DEF Enqueue
  <2>3. \A j \in Automatic : Ended(j)' <=> Ended(j)
    BY <2>2, JobFacts DEF IInv, TypeOK, Ended
  <2> QED BY <1>1, <2>1, <2>3 DEF Enqueue
<1>4. CASE \E p \in Processes : Start(p)
  <2>1. \A j \in Automatic : Ended(j)' <=> Ended(j)
    BY <1>4, JobFacts DEF Start, Ended
  <2> QED BY <1>1, <1>4, <2>1 DEF Start
<1>5. CASE \E p \in Processes : Crash(p)
  BY <1>1, <1>5 DEF Crash, jobVars, Ended
<1>6. CASE \E p \in Processes : Stop(p)
  <2>1. PICK p \in Processes : Stop(p)
    BY <1>6
  <2> DEFINE released == {work[l] : l \in {k \in Loops : k[1] = p /\ Owns(k)}}
  <2>2. \A j \in released : status[j] = "running"
    BY OwnsFacts
  <2>3. \A j \in Jobs : status'[j] = IF j \in released THEN "pending" ELSE status[j]
    BY <2>1 DEF Stop
  <2> HIDE DEF released
  <2>4. \A j \in Automatic : Ended(j)' <=> Ended(j)
    BY <2>2, <2>3, JobFacts DEF Ended
  <2> QED BY <1>1, <2>1, <2>4 DEF Stop
<1>7. CASE \E l \in Loops : LoopStep(l)
  BY <1>7, LoopStepInOrder
<1>8. CASE UNCHANGED vars
  BY <1>1, <1>8 DEF vars, jobVars, Ended
<1> QED BY <1>2, <1>3, <1>4, <1>5, <1>6, <1>7, <1>8 DEF Next

(* To a reader of the Party the claims, retries and recoveries of any      *)
(* number of processes are JobOrder: the automatic jobs of a type write    *)
(* once each, and in the order of their turns.                             *)
THEOREM JobsInOrder == Spec => ImplementsOrder
<1>1. Init => Order!Init
  <2> SUFFICES ASSUME Init PROVE Order!Init
    OBVIOUS
  <2>1. \A t \in Types, v \in 1..MaxVersion :
          status[JobOf(t, v)] = "absent" /\ effects[JobOf(t, v)] = 0
    BY NamedJobs, JobFacts DEF Init
  <2> QED BY <2>1 DEF Init, Order!Init
<1>2. IInv /\ [Next]_vars => [Order!Next]_(Order!orderVars)
  BY StepInOrder
<1> QED BY <1>1, <1>2, Invariant, PTL DEF Spec, ImplementsOrder, Order!Spec
=============================================================================
