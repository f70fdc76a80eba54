------------------------------ MODULE LabProofs ------------------------------
(* Proofs about module Lab, for any job slots, load width, ladder,             *)
(* configurations and number of killed controllers: no load is left running   *)
(* unmentioned, the record of the path is true, and so are the receipts.       *)
EXTENDS Lab, TLAPS

\* The job runs, or will go past its first look without seeing a stop, only if
\* its second look ends it.
Live(s) == child[s] = "alive" \/ run[s] \in {"requested", "checked"}
Harmless == {s \in Slots : Live(s) => Doomed(s)}

\* A child belongs to a run, and so does a .cancel file that somebody may still
\* read; a stop that has touched it is seen until the run is over, and one that
\* is confirmed has ended the job.
SlotSound(s) ==
    /\ child[s] # "none" => run[s] \in {"spawned", "marked", "waiting"}
    /\ cancel[s] => run[s] \notin Over
    /\ stopper[s] \in {"touched", "done"} /\ run[s] \notin Over => cancel[s]
    /\ stopper[s] = "done" => s \in Harmless
    /\ local[s] = "zero" => run[s] \in Over
SlotsSound == \A s \in Slots : SlotSound(s)

\* One invocation at a time, and what it holds while it is at work.
Control ==
    /\ wpc # "idle" <=> lock = "window"
    /\ mpc # "idle" <=> lock = "matrix"
    /\ cpc \in {"record", "promote", "verify", "failed"} <=> lock = "install"
    /\ cpc \in {"inspect", "load", "pause", "judge"} <=> lock = "capacity"
    /\ xpc # "idle" <=> wpc = "measure" \/ cpc = "load"
    /\ job # "none" <=> mpc \in {"watch", "stop"}

\* stop_jobs leaves nothing behind that it does not report.
StopsSound ==
    /\ xpc = "idle" => jobs = <<>>
    /\ xpc = "stop" => at >= 1
    /\ xpc = "back" => at > Len(jobs)
    /\ xpc \in {"stop", "back"} =>
         \A i \in DOMAIN jobs : i < at => jobs[i] \in Harmless \/ unconf

\* Which path an invocation has seen, for as long as it relies on it.
PathKept ==
    /\ candidate # "none" <=> lock = "install"
    /\ cpc \in {"promote", "verify", "failed"} => switch.status # "INSTALLED"
    /\ candidate \in {"direct", "ngfw"} => managed
    /\ cpc = "verify" => endpoints = candidate
    /\ wpc \in {"baseline", "measure"} \/ lock = "matrix" => Topology
    /\ cpc \in {"load", "pause", "judge"} => endpoints = "direct"
    /\ cpc \in {"pause", "judge"} => ~unconf

\* A window that may still be recorded as completed has been seen to recover.
WindowSound ==
    /\ wpc = "normalize" => ~unconf /\ streak < 2
    /\ wout = "COMPLETED" /\ wpc \in {"after", "close"} => wrec = "RECOVERED" /\ ~unconf

Kept(i) == \E r \in rows :
    r.step = i \/ (r.step < i /\ Ladder[r.step] = Ladder[i] /\ r.status = "STOP")

StopIsLast(r) ==
    r.status = "STOP" =>
        \A q \in rows : Ladder[q.step] = Ladder[r.step] =>
            q.step < r.step \/ (q.step = r.step /\ q.attempt <= r.attempt)

FirstWarned(i) == [step |-> i, attempt |-> 1, status |-> "WARN"]

\* The rows so far, and what the stage of the current step says about them.
RowsSound ==
    /\ \A i \in DOMAIN Ladder : i < step => Kept(i)
    /\ \A k \in Kinds : k \in stopped <=>
         \E r \in rows : r.status = "STOP" /\ Ladder[r.step] = k
    /\ \A r \in rows : r.step <= step
    /\ \A r \in rows : StopIsLast(r)
    /\ \A r \in rows : r.attempt = 2 => FirstWarned(r.step) \in rows
StageSound ==
    /\ mpc \in {"idle", "start"} => step = 1 /\ attempt = 1 /\ rows = {} /\ stopped = {}
    /\ mpc \in {"step", "watch", "stop"} =>
         /\ attempt = 2 => FirstWarned(step) \in rows
         /\ \A r \in rows : r.step = step => attempt = 2 /\ r = FirstWarned(step)
    /\ mpc \in {"watch", "stop"} => step <= Len(Ladder) /\ Ladder[step] \notin stopped
    /\ mpc = "idling" =>
         /\ step <= Len(Ladder)
         /\ Row(pend) \in rows
         /\ attempt = 1 => \A r \in rows : r.step = step => r = Row(pend)
    /\ mpc = "finish" => step > Len(Ladder)

IInv ==
    /\ TypeOK /\ SlotsSound /\ Control /\ StopsSound /\ NoSilentLeftover
    /\ PathTruth /\ PathKept /\ WindowSound /\ RowsSound /\ StageSound

-----------------------------------------------------------------------------
(* What the steps do to jobs: a job that is harmless stays so until its slot  *)
(* is launched again.                                                          *)

JobsSound == JobsTypeOK /\ SlotsSound

LEMMA PopenKeeps ==
    ASSUME JobsSound, NEW s \in Slots, Popen(s)
    PROVE  JobsSound' /\ Harmless \ {s} \subseteq Harmless'
<1> USE DEF JobsSound
<1>1. JobsTypeOK'
  BY DEF JobsTypeOK, Popen
<1>2. ASSUME NEW t \in Slots
      PROVE  SlotSound(t)' /\ (t \in Harmless /\ t # s => t \in Harmless')
  <2>1. child'[t] = child[t] /\ cancel'[t] = cancel[t] /\ run[s] \in Over /\ SlotSound(t)
    BY DEF Popen, Unused, SlotsSound
  <2>2. CASE t = s
    <3>1. child[s] = "none"
      BY <2>1, <2>2 DEF SlotSound, Over, JobsTypeOK
    <3>2. local'[s] = "running" /\ run'[s] = "requested" /\ stopper'[s] = "idle"
      BY DEF Popen, JobsTypeOK
    <3>3. QED BY <2>1, <2>2, <3>1, <3>2 DEF SlotSound
  <2>3. CASE t # s
    <3>1. local'[t] = local[t] /\ run'[t] = run[t] /\ stopper'[t] = stopper[t]
      BY <2>3 DEF Popen, JobsTypeOK
    <3>2. QED BY <2>1, <3>1 DEF SlotSound, Harmless, Live, Doomed
  <2>4. QED BY <2>2, <2>3
<1>3. QED BY <1>1, <1>2 DEF SlotsSound, Harmless

LEMMA ForgetKeeps ==
    ASSUME JobsSound,
           NEW stops \in [Slots -> {"idle", "called", "touched", "done", "lost"}],
           \A s \in Slots : stops[s] \in {stopper[s], "lost"},
           Forget(stops)
    PROVE  JobsSound' /\ Harmless \subseteq Harmless'
<1> USE DEF JobsSound
<1>1. JobsTypeOK'
  BY DEF JobsTypeOK, Forget, Over, Marked
<1>2. ASSUME NEW t \in Slots
      PROVE  SlotSound(t)' /\ (t \in Harmless => t \in Harmless')
  <2>1. /\ child'[t] = child[t] /\ cancel'[t] = cancel[t] /\ local'[t] = "none"
        /\ run'[t] = IF run[t] \in Over THEN "none" ELSE run[t]
        /\ stopper'[t] \in {stopper[t], "idle"}
        /\ stopper'[t] # "done"
        /\ SlotSound(t)
    BY DEF Forget, SlotsSound
  <2>2. run'[t] \in Over <=> run[t] \in Over
    BY <2>1 DEF Over
  <2>3. QED BY <2>1, <2>2 DEF SlotSound, Harmless, Live, Doomed, Over
<1>3. QED BY <1>1, <1>2 DEF SlotsSound, Harmless

LEMMA RecreateKeeps ==
    ASSUME JobsSound, NEW mode \in Modes, Recreate(mode)
    PROVE  JobsSound' /\ Harmless' = Slots
<1> USE DEF JobsSound
<1>1. JobsTypeOK'
  BY DEF JobsTypeOK, Recreate, Over, Marked
<1>2. ASSUME NEW t \in Slots
      PROVE  SlotSound(t)' /\ t \in Harmless'
  <2>1. child'[t] = "none" /\ ~cancel'[t] /\ run'[t] \in Over
    BY DEF Recreate, Over
  <2>2. QED BY <2>1 DEF SlotSound, Harmless, Live, Over
<1>3. QED BY <1>1, <1>2 DEF SlotsSound, Harmless

\* The scripts in the container and the ends of the docker exec clients.
LEMMA JobsNextKeeps ==
    ASSUME JobsSound, JobsNext
    PROVE  JobsSound' /\ Harmless \subseteq Harmless'
<1> USE DEF JobsSound
<1>1. PICK s \in Slots :
         \/ JobStep(s) \/ ChildEnds(s)
         \/ ClientEnds(s) \/ ExecLost(s) \/ StopTouch(s) \/ StopKill(s)
  BY DEF JobsNext
<1>2. SlotSound(s)
  BY DEF SlotsSound
<1>3. JobsTypeOK' /\ (\A t \in Slots \ {s} :
         /\ child'[t] = child[t] /\ cancel'[t] = cancel[t] /\ local'[t] = local[t]
         /\ run'[t] = run[t] /\ stopper'[t] = stopper[t])
  <2>1. CASE RunStart(s) \/ RunSpawn(s) \/ RunMark(s) \/ RunLook(s) \/ RunWait(s)
    <3>1. CASE RunStart(s)
      BY <3>1 DEF RunStart, Exits, Told, JobsTypeOK, Over, Marked
    <3>2. CASE RunSpawn(s) \/ RunMark(s)
      BY <3>2 DEF RunSpawn, RunMark, JobsTypeOK, Over, Marked
    <3>3. CASE RunLook(s)
      BY <3>3 DEF RunLook, Exits, Told, JobsTypeOK, Over, Marked
    <3>4. CASE RunWait(s)
      BY <3>4 DEF RunWait, Exits, Told, JobsTypeOK, Over, Marked
    <3>5. QED BY <2>1, <3>1, <3>2, <3>3, <3>4
  <2>2. CASE ChildEnds(s)
    BY <2>2 DEF ChildEnds, JobsTypeOK
  <2>3. CASE ClientEnds(s)
    BY <2>3 DEF ClientEnds, JobsTypeOK
  <2>4. CASE ExecLost(s)
    BY <2>4 DEF ExecLost, Told, JobsTypeOK, Over, Marked
  <2>5. CASE StopTouch(s)
    <3>1. (run[s] \notin Over) \in BOOLEAN
      OBVIOUS
    <3>2. QED BY <2>5, <3>1 DEF StopTouch, JobsTypeOK
  <2>6. CASE StopKill(s)
    BY <2>6 DEF StopKill, Told, JobsTypeOK
  <2>7. QED BY <1>1, <2>1, <2>2, <2>3, <2>4, <2>5, <2>6 DEF JobStep
<1>4. SlotSound(s)' /\ (s \in Harmless => s \in Harmless')
  <2> USE <1>2 DEF JobsTypeOK, SlotSound, Harmless, Live, Doomed
  <2>1. CASE RunStart(s)
    BY <2>1 DEF RunStart, Exits, Told, Over
  <2>2. CASE RunSpawn(s)
    BY <2>2 DEF RunSpawn, Over
  <2>3. CASE RunMark(s)
    BY <2>3 DEF RunMark, Over
  <2>4. CASE RunLook(s)
    BY <2>4 DEF RunLook, Exits, Told, Over
  <2>5. CASE RunWait(s)
    BY <2>5 DEF RunWait, Exits, Told, Over
  <2>6. CASE ChildEnds(s)
    BY <2>6 DEF ChildEnds, Over
  <2>7. CASE ClientEnds(s)
    BY <2>7 DEF ClientEnds, Over
  <2>8. CASE ExecLost(s)
    BY <2>8 DEF ExecLost, Told, Over
  <2>9. CASE StopTouch(s)
    <3>1. /\ run' = run /\ child' = child /\ local' = local
          /\ stopper'[s] = "touched" /\ (cancel'[s] <=> run[s] \notin Over)
      BY <2>9 DEF StopTouch
    <3>2. QED BY <3>1 DEF Over
  <2>10. CASE StopKill(s)
    BY <2>10 DEF StopKill, Told, Over, Marked
  <2>11. QED BY <1>1, <2>1, <2>2, <2>3, <2>4, <2>5, <2>6, <2>7, <2>8, <2>9, <2>10
             DEF JobStep
<1>5. ASSUME NEW t \in Slots, t # s
      PROVE  SlotSound(t)' /\ (t \in Harmless => t \in Harmless')
  BY <1>3, <1>5 DEF SlotsSound, SlotSound, Harmless, Live, Doomed
<1>6. QED BY <1>3, <1>4, <1>5 DEF SlotsSound, Harmless

\* The host asks for a stop, takes its answer, or gives it up.
StopAsked(s) ==
    /\ stopper' \in {[stopper EXCEPT ![s] = "called"], [stopper EXCEPT ![s] = "idle"],
                     [stopper EXCEPT ![s] = "lost"], stopper}
    /\ local' \in {local, [local EXCEPT ![s] = "bad"]}
    /\ UNCHANGED <<endpoints, run, child, cancel>>

LEMMA StopAskedKeeps ==
    ASSUME JobsSound, NEW s \in Slots, StopAsked(s)
    PROVE  JobsSound' /\ Harmless \subseteq Harmless'
<1> USE DEF JobsSound
<1>1. JobsTypeOK'
  BY DEF JobsTypeOK, StopAsked
<1>2. ASSUME NEW t \in Slots
      PROVE  SlotSound(t)' /\ (t \in Harmless => t \in Harmless')
  <2>1. /\ stopper'[t] \in {stopper[t], "called", "idle", "lost"}
        /\ local'[t] \in {local[t], "bad"}
        /\ SlotSound(t)
    BY DEF StopAsked, JobsTypeOK, SlotsSound
  <2>2. QED BY <2>1 DEF StopAsked, SlotSound, Harmless, Live, Doomed
<1>3. QED BY <1>1, <1>2 DEF SlotsSound, Harmless

LEMMA JobsFrame ==
    ASSUME JobsSound, UNCHANGED jobVars
    PROVE  JobsSound' /\ Harmless' = Harmless
BY DEF jobVars, JobsSound, JobsTypeOK, SlotsSound, SlotSound, Harmless, Live, Doomed

\* All that a controller or a script ever does to jobs: nothing, a step in the
\* container, a launch of a job it owns, a stop, to forget, to replace them all.
Stoppers == [Slots -> {"idle", "called", "touched", "done", "lost"}]
JobsMove ==
    \/ UNCHANGED jobVars
    \/ JobsNext
    \/ \E s \in Slots : Popen(s) /\ s \in Owned' /\ xpc \notin {"stop", "back"}
    \/ \E s \in Slots : StopAsked(s)
    \/ \E stops \in Stoppers :
          (\A s \in Slots : stops[s] \in {stopper[s], "lost"}) /\ Forget(stops)
    \/ \E mode \in Modes : Recreate(mode)

\* What every step does to the jobs of before: all that were harmless still
\* are, or all but one that is launched and owned.
Launched(s) ==
    /\ Harmless \ {s} \subseteq Harmless'
    /\ s \in Owned' /\ xpc \notin {"stop", "back"}
JobsKept ==
    JobsSound' /\ (Harmless \subseteq Harmless' \/ \E s \in Slots : Launched(s))

LEMMA MoveKeeps ==
    ASSUME JobsSound, JobsMove
    PROVE  JobsKept
<1>1. CASE UNCHANGED jobVars
  BY <1>1, JobsFrame DEF JobsKept
<1>2. CASE JobsNext
  BY <1>2, JobsNextKeeps DEF JobsKept
<1>3. CASE \E s \in Slots : Popen(s) /\ s \in Owned' /\ xpc \notin {"stop", "back"}
  BY <1>3, PopenKeeps DEF JobsKept, Launched
<1>4. CASE \E s \in Slots : StopAsked(s)
  BY <1>4, StopAskedKeeps DEF JobsKept
<1>5. CASE \E stops \in Stoppers :
             (\A s \in Slots : stops[s] \in {stopper[s], "lost"}) /\ Forget(stops)
  BY <1>5, ForgetKeeps DEF JobsKept, Stoppers
<1>6. CASE \E mode \in Modes : Recreate(mode)
  BY <1>6, RecreateKeeps DEF JobsKept, Harmless
<1>7. QED BY <1>1, <1>2, <1>3, <1>4, <1>5, <1>6 DEF JobsMove

LEMMA MatrixAlone ==
    ASSUME Control, EndpointsTypeOK, lock = "matrix"
    PROVE  xpc = "idle" /\ wpc = "idle" /\ cpc = "idle"
BY DEF Control, EndpointsTypeOK

LEMMA ExecJobs ==
    ASSUME IInv, ExecStep
    PROVE  JobsMove
<1> JobsSound
  BY DEF IInv, TypeOK, JobsSound
<1> jobs \in Seq(Slots)
  BY DEF IInv, TypeOK, ExecTypeOK
<1>1. CASE LaunchNext
  <2>1. PICK s \in Slots : Popen(s) /\ jobs' = Append(jobs, s)
    BY <1>1 DEF LaunchNext
  <2>2. s \in Owned'
    <3>1. Len(jobs) + 1 \in DOMAIN jobs' /\ jobs'[Len(jobs) + 1] = s
      BY <2>1
    <3>2. QED BY <3>1 DEF Owned
  <2>3. QED BY <1>1, <2>1, <2>2 DEF LaunchNext, JobsMove
<1>2. CASE LaunchFails \/ LaunchedAll \/ WatchFinds \/ WatchDone \/ WatchStops \/ StopsDone
  <2>1. UNCHANGED jobVars
    BY <1>2 DEF LaunchFails, LaunchedAll, WatchFinds, WatchDone, WatchStops, StopsDone, jobVars
  <2>2. QED BY <2>1 DEF JobsMove
<1>3. CASE StopCall \/ StopReturns \/ StopUnconfirmed
  <2>1. at \in DOMAIN jobs /\ jobs[at] \in Slots
    <3>1. xpc = "stop" /\ at <= Len(jobs)
      BY <1>3 DEF StopCall, StopReturns, StopUnconfirmed
    <3>2. at \in Nat /\ at >= 1
      BY <3>1, LabBounds DEF IInv, TypeOK, ExecTypeOK, StopsSound
    <3>3. QED BY <3>1, <3>2
  <2>2. StopAsked(jobs[at])
    <3>1. CASE StopCall
      BY <3>1 DEF StopCall, StopAsked
    <3>2. ASSUME NEW confirmed \in BOOLEAN, StopNext(confirmed)
          PROVE  local' \in {local, [local EXCEPT ![jobs[at]] = "bad"]}
      <4>1. local \in [Slots -> {"none", "running", "zero", "bad"}]
        BY DEF JobsSound, JobsTypeOK
      <4>2. CASE UNCHANGED local
        BY <4>2
      <4>3. CASE local' = [local EXCEPT ![jobs[at]] = IF @ = "running" THEN "bad" ELSE @]
        <5>1. CASE local[jobs[at]] = "running"
          BY <4>3, <5>1
        <5>2. CASE local[jobs[at]] # "running"
          BY <2>1, <4>1, <4>3, <5>2
        <5>3. QED BY <5>1, <5>2
      <4>4. QED BY <3>2, <4>2, <4>3 DEF StopNext
    <3>3. CASE StopReturns
      BY <3>2, <3>3 DEF StopReturns, StopAsked
    <3>4. CASE StopUnconfirmed
      BY <3>2, <3>4 DEF StopUnconfirmed, StopAsked
    <3>5. QED BY <1>3, <3>1, <3>3, <3>4
  <2>3. QED BY <2>1, <2>2 DEF JobsMove
<1>4. QED BY <1>1, <1>2, <1>3 DEF ExecStep

LEMMA ForgetStoppers ==
    ASSUME JobsSound, Forget(stopper)
    PROVE  JobsMove
<1>1. stopper \in Stoppers
  BY DEF JobsSound, JobsTypeOK, Stoppers
<1>2. QED BY <1>1 DEF JobsMove

LEMMA MatrixJobs ==
    ASSUME IInv, MatrixRuns
    PROVE  JobsMove
<1> JobsSound
  BY DEF IInv, TypeOK, JobsSound
<1>1. xpc = "idle" /\ MatrixStep /\ (mpc \in {"watch", "stop"} => job \in Slots)
  BY MatrixAlone DEF MatrixRuns, IInv, TypeOK, MatrixTypeOK, Control
<1>2. CASE MatrixStart \/ StepSkipped \/ Idles \/ LadderEnds
  <2>1. UNCHANGED jobVars
    BY <1>2 DEF MatrixStart, StepSkipped, Idles, LadderEnds
  <2>2. QED BY <2>1 DEF JobsMove
<1>3. CASE StepLaunches
  <2>1. CASE UNCHANGED jobVars
    BY <2>1 DEF JobsMove
  <2>2. CASE \E s \in Slots : Popen(s) /\ job' = s
    <3>1. PICK s \in Slots : Popen(s) /\ job' = s
      BY <2>2
    <3>2. s \in Owned'
      BY <3>1, SlotsAssumption DEF Owned
    <3>3. QED BY <1>1, <3>1, <3>2 DEF JobsMove
  <2>3. QED BY <1>3, <2>1, <2>2 DEF StepLaunches
<1>4. CASE WindowFinishes
  BY <1>4, ForgetStoppers DEF WindowFinishes
<1>5. CASE WindowBreaks
  <2>1. job \in Slots /\ StopAsked(job)
    BY <1>1, <1>5 DEF WindowBreaks, StopAsked
  <2>2. QED BY <2>1 DEF JobsMove
<1>6. CASE BrokenStops
  <2>1. CASE Forget(stopper)
    BY <2>1, ForgetStoppers
  <2>2. CASE Forget([stopper EXCEPT ![job] = "lost"])
    <3> DEFINE stops == [stopper EXCEPT ![job] = "lost"]
    <3>1. stops \in Stoppers
      BY DEF JobsSound, JobsTypeOK, Stoppers
    <3>2. \A s \in Slots : stops[s] \in {stopper[s], "lost"}
      BY DEF JobsSound, JobsTypeOK
    <3>3. QED BY <2>2, <3>1, <3>2 DEF JobsMove
  <2>3. QED BY <1>6, <2>1, <2>2 DEF BrokenStops
<1>7. QED BY <1>1, <1>2, <1>3, <1>4, <1>5, <1>6 DEF MatrixStep

LEMMA CallJobs ==
    ASSUME IInv, Collected \/ \E n \in 1..Width : Execute(n)
    PROVE  JobsMove
BY ForgetStoppers DEF IInv, TypeOK, JobsSound, Collected, Execute

LEMMA WindowJobs ==
    ASSUME IInv, WindowRuns
    PROVE  JobsMove
<1> JobsSound
  BY DEF IInv, TypeOK, JobsSound
<1>1. UNCHANGED jobVars \/ Collected \/ \E n \in 1..Width : Execute(n)
  BY DEF WindowRuns, WindowStep, WindowPreflight, WindowBaseline, WindowLoaded, WindowProof,
         WindowRecover, WindowNormalize, NormalizeFails, WindowAfter
<1>2. QED BY <1>1, CallJobs DEF JobsMove

LEMMA EndpointJobs ==
    ASSUME IInv, EndpointsRun
    PROVE  JobsMove
<1> JobsSound
  BY DEF IInv, TypeOK, JobsSound
<1>1. CASE InstallPromotes
  <2>1. candidate \in Modes /\ "broken" \in Modes
    BY <1>1 DEF InstallPromotes, IInv, TypeOK, EndpointsTypeOK, Control, PathKept, Modes
  <2>2. UNCHANGED jobVars \/ Recreate(candidate) \/ Recreate("broken")
    BY <1>1 DEF InstallPromotes
  <2>3. QED BY <2>1, <2>2 DEF JobsMove
<1>2. CASE ~InstallPromotes
  <2>1. UNCHANGED jobVars \/ Collected \/ \E n \in 1..Width : Execute(n)
    BY <1>2 DEF EndpointsRun, EndpointStep, InstallRecords, InstallVerifies, InstallFails,
         CapacityInspects, CapacityLoaded, CapacityRecovers, CapacityJudges
  <2>2. QED BY <2>1, CallJobs DEF JobsMove
<1>3. QED BY <1>1, <1>2

LEMMA StepMoves ==
    ASSUME IInv, [Next]_vars
    PROVE  JobsMove
<1> JobsSound
  BY DEF IInv, TypeOK, JobsSound
<1>1. CASE \/ OpenWindow \/ OpenMatrix \/ OpenCapacity \/ OpenInstall \/ Briefly
           \/ CloseWindow \/ CloseMatrix \/ UNCHANGED vars
  <2>1. UNCHANGED jobVars
    BY <1>1 DEF OpenWindow, OpenMatrix, OpenCapacity, Load, OpenInstall, InstallBegins,
         Briefly, CheckIsolation, CaptureAnchor, Finalize, CloseWindow, WindowClose,
         CloseMatrix, MatrixClose, vars
  <2>2. QED BY <2>1 DEF JobsMove
<1>2. CASE WindowRuns
  BY <1>2, WindowJobs
<1>3. CASE MatrixRuns
  BY <1>3, MatrixJobs
<1>4. CASE EndpointsRun
  BY <1>4, EndpointJobs
<1>5. CASE ExecutorRuns
  BY <1>5, ExecJobs DEF ExecutorRuns
<1>6. CASE JobsRun
  BY <1>6 DEF JobsRun, JobsMove
<1>7. CASE DockerRestarts
  <2>1. endpoints \in Modes /\ Recreate(endpoints)
    BY <1>7 DEF DockerRestarts, EndpointRestarts, JobsSound, JobsTypeOK
  <2>2. QED BY <2>1 DEF JobsMove
<1>8. CASE Crash
  BY <1>8, ForgetStoppers DEF Crash
<1>9. QED BY <1>1, <1>2, <1>3, <1>4, <1>5, <1>6, <1>7, <1>8 DEF Next

LEMMA StepJobs ==
    ASSUME IInv, [Next]_vars
    PROVE  JobsKept
BY StepMoves, MoveKeeps DEF IInv, TypeOK, JobsSound

-----------------------------------------------------------------------------
(* The ladder.                                                                 *)

LadderSoFar == MatrixTypeOK /\ RowsSound /\ StageSound

LEMMA LadderFrame ==
    ASSUME LadderSoFar, UNCHANGED <<mpc, step, attempt, job, pend, stopped, rows>>,
           mgap' \in BOOLEAN, mdisk' \in {"none", "running", "completed", "aborted"}
    PROVE  LadderSoFar'
BY DEF LadderSoFar, MatrixTypeOK, RowsSound, StageSound, Kept, StopIsLast, Row, FirstWarned

\* No step of a ladder has been taken.
LEMMA LadderEmpty ==
    ASSUME step' = 1, attempt' = 1, job' = "none", pend' = "PASS", stopped' = {}, rows' = {},
           mpc' \in {"idle", "start"},
           mgap' \in BOOLEAN, mdisk' \in {"none", "running", "completed", "aborted"}
    PROVE  LadderSoFar'
<1>1. Len(Ladder) \in Nat /\ DOMAIN Ladder = 1..Len(Ladder)
  BY LadderAssumption
<1>2. MatrixTypeOK'
  BY <1>1 DEF MatrixTypeOK, Statuses
<1>3. QED BY <1>1, <1>2 DEF LadderSoFar, RowsSound, StageSound

LEMMA WindowEndsKeeps ==
    ASSUME LadderSoFar, NEW status \in Statuses, WindowEnds(status),
           mpc \in {"step", "watch", "stop"}, step <= Len(Ladder), Ladder[step] \notin stopped,
           UNCHANGED <<step, attempt, mdisk>>, mgap' \in BOOLEAN
    PROVE  LadderSoFar'
<1>1. Len(Ladder) \in Nat /\ DOMAIN Ladder = 1..Len(Ladder)
  BY LadderAssumption
<1> DEFINE new == [step |-> step, attempt |-> attempt, status |-> status]
<1>2. /\ rows' = rows \cup {new}
      /\ new \in [step : DOMAIN Ladder, attempt : 1..2, status : Statuses]
      /\ step \in DOMAIN Ladder /\ Ladder[step] \in Kinds
      /\ rows \subseteq [step : DOMAIN Ladder, attempt : 1..2, status : Statuses]
  BY <1>1 DEF LadderSoFar, MatrixTypeOK, WindowEnds, Row, Kinds
<1>3. new.step = step /\ new.attempt = attempt /\ new.status = status
  OBVIOUS
<1>4. MatrixTypeOK'
  BY <1>2 DEF LadderSoFar, MatrixTypeOK, WindowEnds
<1> HIDE DEF new
<1>5. \A r \in rows : /\ r.step \in Nat /\ r.attempt \in 1..2 /\ r.step <= step
                      /\ r.step = step => r.attempt = 1 /\ r.status = "WARN"
  BY <1>1, <1>2 DEF LadderSoFar, RowsSound, StageSound, FirstWarned
<1>6. step \in Nat /\ attempt \in 1..2 /\ step' = step /\ attempt' = attempt
  BY <1>1, <1>2 DEF LadderSoFar, MatrixTypeOK
<1>7. RowsSound'
  <2>1. \A i \in DOMAIN Ladder : i < step' => Kept(i)'
    BY <1>2, <1>6 DEF LadderSoFar, RowsSound, Kept
  <2>2. \A k \in Kinds : k \in stopped' <=>
            \E r \in rows' : r.status = "STOP" /\ Ladder[r.step] = k
    BY <1>2, <1>3 DEF LadderSoFar, RowsSound, WindowEnds
  <2>3. \A r \in rows' : r.step <= step'
    BY <1>2, <1>3, <1>5, <1>6
  <2>4. ASSUME NEW r \in rows' PROVE StopIsLast(r)'
    <3>1. ASSUME r.status = "STOP", NEW q \in rows', Ladder[q.step] = Ladder[r.step]
          PROVE  q.step < r.step \/ (q.step = r.step /\ q.attempt <= r.attempt)
      <4>1. CASE r = new
        <5>1. CASE q = new
          BY <4>1, <5>1, <1>3, <1>6
        <5>2. CASE q \in rows
          BY <4>1, <5>2, <1>3, <1>5, <1>6
        <5>3. QED BY <5>1, <5>2, <1>2
      <4>2. CASE r \in rows
        <5>1. CASE q = new
          BY <3>1, <4>2, <5>1, <1>2, <1>3 DEF LadderSoFar, RowsSound
        <5>2. CASE q \in rows
          BY <3>1, <4>2, <5>2 DEF LadderSoFar, RowsSound, StopIsLast
        <5>3. QED BY <5>1, <5>2, <1>2
      <4>3. QED BY <4>1, <4>2, <1>2
    <3>2. QED BY <3>1 DEF StopIsLast
  <2>5. ASSUME NEW r \in rows', r.attempt = 2 PROVE FirstWarned(r.step) \in rows'
    BY <2>5, <1>2, <1>3 DEF LadderSoFar, RowsSound, StageSound
  <2>6. QED BY <2>1, <2>2, <2>3, <2>4, <2>5 DEF RowsSound, FirstWarned
<1>8. StageSound'
  <2>1. mpc' \in {"idling", "abort"}
    BY DEF WindowEnds
  <2>2. Row(pend)' = new
    BY <1>6 DEF Row, WindowEnds, new
  <2>3. attempt = 1 => \A r \in rows : r.step # step
    BY DEF LadderSoFar, StageSound
  <2>4. attempt = 1 => \A r \in rows' : r.step = step => r = new
    BY <1>2, <2>3
  <2>5. QED BY <1>2, <1>6, <2>1, <2>2, <2>4 DEF StageSound
<1>9. QED BY <1>4, <1>7, <1>8 DEF LadderSoFar

LEMMA LadderStep ==
    ASSUME LadderSoFar, MatrixStep, job # "none" <=> mpc \in {"watch", "stop"}
    PROVE  LadderSoFar'
<1>1. Len(Ladder) \in Nat /\ DOMAIN Ladder = 1..Len(Ladder)
  BY LadderAssumption
<1>2. step \in Nat /\ attempt \in {1, 2}
  BY <1>1 DEF LadderSoFar, MatrixTypeOK
<1>3. CASE MatrixStart
  BY <1>1, <1>3 DEF MatrixStart, LadderSoFar, MatrixTypeOK, RowsSound, StageSound,
                    Kept, StopIsLast, Row, FirstWarned
<1>4. CASE StepSkipped
  <2>1. /\ step \in 1..Len(Ladder) /\ Ladder[step] \in stopped
        /\ step' = step + 1 /\ attempt' = 1 /\ rows' = rows /\ stopped' = stopped
        /\ mpc = "step" /\ mpc' = "step" /\ UNCHANGED <<job, pend, mgap, mdisk>>
    BY <1>1, <1>2, <1>4 DEF StepSkipped, LadderSoFar, MatrixTypeOK
  <2>2. rows \subseteq [step : DOMAIN Ladder, attempt : 1..2, status : Statuses]
    BY DEF LadderSoFar, MatrixTypeOK
  <2>3. MatrixTypeOK'
    BY <1>1, <2>1 DEF LadderSoFar, MatrixTypeOK
  <2>4. Kept(step)
    <3>1. PICK r \in rows : r.status = "STOP" /\ Ladder[r.step] = Ladder[step]
      BY <1>1, <2>1 DEF LadderSoFar, RowsSound, Kinds
    <3>2. r.step <= step /\ r.step \in Nat
      BY <1>1, <2>2 DEF LadderSoFar, RowsSound
    <3>3. QED BY <1>2, <3>1, <3>2 DEF Kept
  <2>5. \A i \in DOMAIN Ladder : i < step' => Kept(i)'
    <3>1. ASSUME NEW i \in DOMAIN Ladder, i < step' PROVE Kept(i)
      BY <1>1, <1>2, <2>1, <2>4, <3>1 DEF LadderSoFar, RowsSound
    <3>2. QED BY <2>1, <3>1 DEF Kept
  <2>6. \A r \in rows : r.step \in Nat /\ r.step <= step /\ r.step <= step'
    BY <1>1, <1>2, <2>1, <2>2 DEF LadderSoFar, RowsSound
  <2>7. RowsSound'
    BY <2>1, <2>5, <2>6 DEF LadderSoFar, RowsSound, StopIsLast, FirstWarned
  <2>8. StageSound'
    BY <1>2, <2>1, <2>6 DEF StageSound
  <2>9. QED BY <2>3, <2>7, <2>8 DEF LadderSoFar
<1>5. CASE StepLaunches
  <2>1. mpc = "step" /\ step <= Len(Ladder) /\ Ladder[step] \notin stopped /\ UNCHANGED <<step, attempt, mgap, mdisk>>
    BY <1>5 DEF StepLaunches
  <2>2. CASE \E s \in Slots : Popen(s) /\ job' = s
    <3>1. job' \in Slots /\ mpc' = "watch" /\ UNCHANGED <<pend, stopped, rows>>
      BY <1>5, <2>2, SlotsAssumption, <2>1 DEF StepLaunches, WindowEnds
    <3>2. QED BY <2>1, <3>1 DEF LadderSoFar, MatrixTypeOK, RowsSound, StageSound,
                    Kept, StopIsLast, Row, FirstWarned
  <2>3. CASE \E status \in {"STOP", "GLOBAL_STOP"} : WindowEnds(status)
    <3>1. {"STOP", "GLOBAL_STOP"} \subseteq Statuses /\ mgap' \in BOOLEAN
      BY <2>1 DEF Statuses, LadderSoFar, MatrixTypeOK
    <3>2. QED BY <2>1, <2>3, <3>1, WindowEndsKeeps
  <2>4. QED BY <1>5, <2>2, <2>3 DEF StepLaunches
<1>6. CASE WindowFinishes
  BY <1>6, WindowEndsKeeps DEF WindowFinishes, LadderSoFar, MatrixTypeOK, StageSound
<1>7. CASE WindowBreaks
  BY <1>7 DEF WindowBreaks, LadderSoFar, MatrixTypeOK, RowsSound, StageSound,
              Kept, StopIsLast, Row, FirstWarned, Statuses
<1>8. CASE BrokenStops
  <2>1. mgap' \in BOOLEAN /\ pend \in Statuses /\ mpc = "stop"
    BY <1>8 DEF BrokenStops, LadderSoFar, MatrixTypeOK
  <2>2. QED BY <1>8, <2>1, WindowEndsKeeps DEF BrokenStops, LadderSoFar, StageSound
<1>9. CASE Idles
  <2>1. /\ mpc = "idling" /\ step \in 1..Len(Ladder) /\ Row(pend) \in rows
        /\ attempt = 1 => \A r \in rows : r.step = step => r = Row(pend)
    BY <1>1, <1>2, <1>9 DEF Idles, LadderSoFar, StageSound, MatrixTypeOK
  <2>2. /\ rows \subseteq [step : DOMAIN Ladder, attempt : 1..2, status : Statuses]
        /\ UNCHANGED <<job, pend, stopped, rows, mgap, mdisk>>
    BY <1>9 DEF Idles, LadderSoFar, MatrixTypeOK
  <2>3. Row(pend).step = step /\ (attempt = 1 /\ pend = "WARN" => Row(pend) = FirstWarned(step))
    BY DEF Row, FirstWarned
  <2>4. CASE step' = step + 1 /\ attempt' = 1 /\ mpc' = "step"
    <3>1. MatrixTypeOK'
      BY <1>1, <2>1, <2>2, <2>4 DEF LadderSoFar, MatrixTypeOK
    <3>2. \A i \in DOMAIN Ladder : i < step' => Kept(i)'
      <4>1. ASSUME NEW i \in DOMAIN Ladder, i < step' PROVE Kept(i)
        <5>1. CASE i = step
          BY <2>1, <2>3, <5>1 DEF Kept
        <5>2. CASE i < step
          BY <5>2 DEF LadderSoFar, RowsSound
        <5>3. QED BY <1>1, <1>2, <2>4, <4>1, <5>1, <5>2
      <4>2. QED BY <2>2, <4>1 DEF Kept
    <3>3. \A r \in rows : r.step \in Nat /\ r.step <= step /\ r.step <= step'
      BY <1>1, <1>2, <2>2, <2>4 DEF LadderSoFar, RowsSound
    <3>4. RowsSound'
      BY <2>2, <3>2, <3>3 DEF LadderSoFar, RowsSound, StopIsLast, FirstWarned
    <3>5. StageSound'
      BY <1>2, <2>2, <2>4, <3>3 DEF StageSound
    <3>6. QED BY <3>1, <3>4, <3>5 DEF LadderSoFar
  <2>5. CASE step' = step /\ attempt' = 2 /\ mpc' = "step" /\ pend = "WARN" /\ attempt = 1
    <3>1. MatrixTypeOK'
      BY <2>1, <2>2, <2>5 DEF LadderSoFar, MatrixTypeOK
    <3>2. RowsSound'
      BY <2>2, <2>5 DEF LadderSoFar, RowsSound, Kept, StopIsLast, FirstWarned
    <3>3. StageSound'
      BY <2>1, <2>2, <2>3, <2>5 DEF StageSound, FirstWarned
    <3>4. QED BY <3>1, <3>2, <3>3 DEF LadderSoFar
  <2>6. CASE mpc' = "abort" /\ UNCHANGED <<step, attempt>>
    BY <2>2, <2>6 DEF LadderSoFar, MatrixTypeOK, RowsSound, StageSound,
                      Kept, StopIsLast, FirstWarned
  <2>7. QED BY <1>9, <2>4, <2>5, <2>6 DEF Idles
<1>10. CASE LadderEnds
  BY <1>10 DEF LadderEnds, LadderSoFar, MatrixTypeOK, RowsSound, StageSound,
               Kept, StopIsLast, Row, FirstWarned
<1>11. QED BY <1>3, <1>4, <1>5, <1>6, <1>7, <1>8, <1>9, <1>10 DEF MatrixStep

LEMMA LadderKept ==
    ASSUME IInv, [Next]_vars
    PROVE  LadderSoFar'
<1> LadderSoFar /\ mgap \in BOOLEAN /\ mdisk \in {"none", "running", "completed", "aborted"}
  BY DEF IInv, TypeOK, LadderSoFar, MatrixTypeOK
<1>1. CASE OpenWindow \/ OpenCapacity
  BY <1>1, LadderFrame DEF OpenWindow, OpenCapacity
<1>2. CASE OpenMatrix
  BY <1>2, LadderEmpty DEF OpenMatrix, MatrixOpen
<1>3. CASE CloseMatrix
  <2>1. mdisk' \in {"completed", "aborted"} /\ mgap' = mgap
    BY <1>3 DEF CloseMatrix, MatrixClose
  <2>2. QED BY <1>3, <2>1, LadderEmpty DEF CloseMatrix, MatrixClose, MatrixOver
<1>4. CASE Crash
  BY <1>4, LadderEmpty DEF Crash, MatrixOver
<1>5. CASE MatrixRuns
  BY <1>5, LadderStep DEF MatrixRuns, IInv, Control
<1>6. CASE \/ OpenInstall \/ Briefly \/ WindowRuns \/ CloseWindow \/ EndpointsRun
           \/ ExecutorRuns \/ JobsRun \/ DockerRestarts \/ UNCHANGED vars
  <2>1. UNCHANGED matrixVars
    BY <1>6 DEF OpenInstall, Briefly, WindowRuns, CloseWindow, EndpointsRun, ExecutorRuns,
                JobsRun, DockerRestarts, vars
  <2>2. QED BY <2>1, LadderFrame DEF matrixVars
<1>7. QED BY <1>1, <1>2, <1>3, <1>4, <1>5, <1>6 DEF Next

-----------------------------------------------------------------------------
(* Who holds the lock, and what that says.                                     *)

LEMMA ControlKept ==
    ASSUME IInv, [Next]_vars
    PROVE  Control'
<1> USE DEF Control
<1>1. /\ wpc \in {"idle", "preflight", "baseline", "measure", "proof",
                  "recover", "normalize", "after", "close"}
      /\ cpc \in {"idle", "record", "promote", "verify", "failed", "inspect", "load", "pause", "judge"}
      /\ lock \in Holders /\ Control
  BY DEF IInv, TypeOK, WindowTypeOK, EndpointsTypeOK
<1>2. CASE OpenWindow
  BY <1>1, <1>2 DEF OpenWindow, Load, WindowOpen, endpointVars
<1>3. CASE OpenMatrix
  BY <1>1, <1>3 DEF OpenMatrix, Load, MatrixOpen, endpointVars
<1>4. CASE OpenCapacity
  BY <1>1, <1>4 DEF OpenCapacity, Load, CapacityBegins
<1>5. CASE OpenInstall
  BY <1>1, <1>5 DEF OpenInstall, InstallBegins, windowVars, matrixVars, execVars
<1>6. CASE Briefly
  BY <1>1, <1>6 DEF Briefly, windowVars, matrixVars, labVars, CheckIsolation, CaptureAnchor,
                    Finalize, execVars
<1>7. CASE WindowRuns
  <2>1. UNCHANGED <<cpc, mpc, job, lock>> /\ wpc # "idle" /\ wpc' # "idle"
    BY <1>7 DEF WindowRuns, endpointVars, matrixVars, WindowPreflight, WindowStep, WindowBaseline,
                WindowLoaded, WindowProof, WindowRecover, WindowNormalize, NormalizeFails,
                WindowAfter, WindowFails, RecoveryFails
  <2>2. xpc' # "idle" <=> wpc' = "measure"
    <3>1. CASE WindowBaseline
      BY <1>1, <2>1, <3>1 DEF WindowBaseline, WindowFails, Execute, execVars
    <3>2. CASE WindowLoaded
      BY <3>2 DEF WindowLoaded, WindowFails, Collected
    <3>3. CASE WindowPreflight(Isolated)
      BY <1>1, <2>1, <3>3 DEF WindowPreflight, execVars
    <3>4. CASE WindowProof \/ WindowRecover \/ WindowNormalize \/ NormalizeFails \/ WindowAfter
      BY <1>1, <2>1, <3>4 DEF WindowProof, WindowRecover, WindowNormalize, NormalizeFails, WindowAfter,
                 WindowFails, RecoveryFails, execVars
    <3>5. QED BY <1>7, <3>1, <3>2, <3>3, <3>4 DEF WindowRuns, WindowStep
  <2>3. QED BY <1>1, <2>1, <2>2
<1>8. CASE CloseWindow
  BY <1>1, <1>8 DEF CloseWindow, WindowClose, WindowOver, endpointVars, matrixVars, execVars
<1>9. CASE MatrixRuns
  <2>1. UNCHANGED <<cpc, wpc, xpc, lock>> /\ mpc # "idle"
    BY <1>1, <1>9 DEF MatrixRuns, endpointVars, windowVars, labVars, execVars
  <2>2. mpc' # "idle" /\ (job' # "none" <=> mpc' \in {"watch", "stop"})
    <3>1. CASE StepLaunches
      BY <3>1, SlotsAssumption DEF StepLaunches, WindowEnds
    <3>2. CASE WindowFinishes \/ BrokenStops
      BY <3>2 DEF WindowFinishes, BrokenStops, WindowEnds
    <3>3. CASE MatrixStart \/ StepSkipped \/ WindowBreaks \/ Idles \/ LadderEnds
      BY <1>1, <2>1, <3>3 DEF MatrixStart, StepSkipped, WindowBreaks, Idles, LadderEnds
    <3>4. QED BY <1>9, <3>1, <3>2, <3>3 DEF MatrixRuns, MatrixStep
  <2>3. QED BY <1>1, <2>1, <2>2
<1>10. CASE CloseMatrix
  BY <1>1, <1>10 DEF CloseMatrix, MatrixClose, MatrixOver, endpointVars, windowVars, execVars
<1>11. CASE EndpointsRun
  <2>1. UNCHANGED <<wpc, mpc, job>> /\ wpc = "idle" /\ mpc = "idle"
    BY <1>1, <1>11 DEF EndpointsRun, windowVars, matrixVars
  <2>2. lock' = IF cpc' = "idle" THEN "free" ELSE lock
    BY <1>11 DEF EndpointsRun
  <2>3. CASE InstallRecords \/ InstallPromotes \/ InstallVerifies \/ InstallFails
    BY <1>1, <2>1, <2>2, <2>3 DEF InstallRecords, InstallPromotes, InstallVerifies, InstallFails, execVars
  <2>4. CASE CapacityInspects
    BY <1>1, <2>1, <2>2, <2>4 DEF CapacityInspects, CapacityEnds, Execute, execVars
  <2>5. CASE CapacityLoaded
    BY <1>1, <2>1, <2>2, <2>5 DEF CapacityLoaded, CapacityEnds, Collected
  <2>6. CASE CapacityRecovers \/ CapacityJudges
    BY <1>1, <2>1, <2>2, <2>6 DEF CapacityRecovers, CapacityJudges, CapacityEnds, execVars
  <2>7. QED BY <1>11, <2>3, <2>4, <2>5, <2>6 DEF EndpointsRun, EndpointStep
<1>12. CASE ExecutorRuns
  <2>1. UNCHANGED <<cpc, wpc, mpc, job, lock>>
    BY <1>12 DEF ExecutorRuns, endpointVars, windowVars, matrixVars, labVars
  <2>2. xpc # "idle" /\ xpc' # "idle"
    BY <1>12 DEF ExecutorRuns, ExecStep, LaunchNext, LaunchFails, LaunchedAll, WatchFinds, WatchDone,
                 WatchStops, StopCall, StopReturns, StopUnconfirmed, StopsDone, StopNext,
                 Ended, execVars
  <2>3. QED BY <1>1, <2>1, <2>2
<1>13. CASE JobsRun \/ UNCHANGED vars
  BY <1>1, <1>13 DEF JobsRun, execVars, windowVars, endpointVars, matrixVars, labVars, vars
<1>14. CASE DockerRestarts
  BY <1>1, <1>14 DEF DockerRestarts, EndpointRestarts, execVars, windowVars, matrixVars, labVars
<1>15. CASE Crash
  BY <1>15 DEF Crash, WindowOver, MatrixOver, ExecOver
<1>16. QED BY <1>2, <1>3, <1>4, <1>5, <1>6, <1>7, <1>8, <1>9, <1>10, <1>11, <1>12,
              <1>13, <1>14, <1>15 DEF Next

-----------------------------------------------------------------------------
(* The executor.                                                               *)

ExecSound == ExecTypeOK /\ StopsSound

LEMMA ExecOverSound ==
    ASSUME xpc' = "idle", want' = 0, jobs' = <<>>, at' = 0, xerr' = "none", unconf' \in BOOLEAN
    PROVE  ExecSound'
<1>1. /\ 0 \in 0..Width /\ 0 \in 0..Width + 1
      /\ <<>> \in Seq(Slots) /\ Len(<<>>) <= 0
  BY LabBounds
<1>2. QED BY <1>1 DEF ExecSound, ExecTypeOK, StopsSound

LEMMA ExecuteSound ==
    ASSUME ExecSound, NEW n \in 1..Width, Execute(n)
    PROVE  ExecSound'
<1>1. /\ n \in 0..Width /\ 0 \in 0..Width + 1
      /\ <<>> \in Seq(Slots) /\ Len(<<>>) <= n
  BY LabBounds
<1>2. QED BY <1>1 DEF ExecSound, ExecTypeOK, StopsSound, Execute

\* No step of the executor: what it has stopped stays so.
LEMMA ExecFrame ==
    ASSUME ExecSound, UNCHANGED <<xpc, want, jobs, at, xerr>>, unconf' \in BOOLEAN,
           xpc \in {"stop", "back"} => Harmless \subseteq Harmless' /\ unconf' = unconf
    PROVE  ExecSound'
BY DEF ExecSound, ExecTypeOK, StopsSound

LEMMA ExecStepSound ==
    ASSUME IInv, ExecStep
    PROVE  ExecSound'
<1>1. ExecSound /\ JobsKept
  BY ExecJobs, MoveKeeps DEF IInv, TypeOK, ExecSound, JobsSound
<1>2. /\ want \in 0..Width /\ Width \in Nat /\ at \in 0..Width + 1
      /\ jobs \in Seq(Slots) /\ Len(jobs) \in Nat /\ Len(jobs) <= want
      /\ DOMAIN jobs = 1..Len(jobs)
  BY <1>1, LabBounds DEF ExecSound, ExecTypeOK
<1>3. xpc \in {"stop", "back"} => Harmless \subseteq Harmless'
  BY <1>1 DEF JobsKept, Launched
<1>4. CASE LaunchNext
  <2>1. PICK s \in Slots : jobs' = Append(jobs, s)
    BY <1>4 DEF LaunchNext
  <2>2. jobs' \in Seq(Slots) /\ Len(jobs') = Len(jobs) + 1
    BY <1>2, <2>1
  <2>3. xpc' = "launch" /\ Len(jobs) < want /\ UNCHANGED <<want, at, xerr, unconf>>
    BY <1>4 DEF LaunchNext
  <2>4. QED BY <1>1, <1>2, <2>2, <2>3 DEF ExecSound, ExecTypeOK, StopsSound
<1>5. ASSUME NEW err \in Errors \cup {"none"}, Ended(err)
      PROVE  ExecSound'
  <2>1. \A i \in DOMAIN jobs : ~(i < 1)
    BY <1>2
  <2>2. 1 \in 0..Width + 1
    BY <1>2
  <2>3. QED BY <1>1, <1>5, <2>1, <2>2 DEF Ended, ExecSound, ExecTypeOK, StopsSound
<1>6. CASE LaunchFails \/ WatchFinds \/ WatchDone \/ WatchStops
  BY <1>5, <1>6 DEF LaunchFails, WatchFinds, WatchDone, WatchStops, Errors
<1>7. CASE LaunchedAll
  <2>1. CASE Ended("blocked")
    BY <1>5, <2>1 DEF Errors
  <2>2. CASE xpc' = "watch" /\ UNCHANGED <<want, jobs, at, xerr, unconf>>
    BY <1>1, <2>2 DEF ExecSound, ExecTypeOK, StopsSound
  <2>3. QED BY <1>7, <2>1, <2>2 DEF LaunchedAll
<1>8. CASE StopCall
  BY <1>1, <1>3, <1>8, ExecFrame DEF StopCall, execVars, ExecSound, ExecTypeOK
<1>9. ASSUME xpc = "stop", at <= Len(jobs), NEW confirmed \in BOOLEAN, StopNext(confirmed),
             confirmed => jobs[at] \in Harmless
      PROVE  ExecSound'
  <2>1. /\ at' = at + 1 /\ UNCHANGED <<xpc, want, jobs, xerr>>
        /\ unconf' \in BOOLEAN /\ (unconf => unconf') /\ (~unconf' => confirmed)
    BY <1>1, <1>9 DEF StopNext, ExecSound, ExecTypeOK
  <2>2. at' \in 0..Width + 1 /\ at' >= 1 /\ xpc' = "stop"
    BY <1>1, <1>2, <1>9, <2>1 DEF ExecSound, StopsSound
  <2>3. ASSUME NEW i \in DOMAIN jobs, i < at' PROVE jobs[i] \in Harmless' \/ unconf'
    <3>1. CASE i < at
      BY <1>1, <1>3, <1>9, <2>1, <3>1 DEF ExecSound, StopsSound
    <3>2. CASE i = at
      BY <1>3, <1>9, <2>1, <3>2
    <3>3. QED BY <1>2, <2>1, <2>3, <3>1, <3>2
  <2>4. QED BY <1>1, <2>1, <2>2, <2>3 DEF ExecSound, ExecTypeOK, StopsSound
<1>10. CASE StopReturns
  <2>1. at \in DOMAIN jobs
    BY <1>1, <1>2, <1>10 DEF StopReturns, ExecSound, StopsSound
  <2>2. jobs[at] \in Harmless
    BY <1>2, <1>10, <2>1 DEF StopReturns, IInv, SlotsSound, SlotSound
  <2>3. QED BY <1>9, <1>10, <2>2 DEF StopReturns
<1>11. CASE StopUnconfirmed
  BY <1>9, <1>11 DEF StopUnconfirmed
<1>12. CASE StopsDone
  BY <1>1, <1>2, <1>3, <1>12 DEF StopsDone, ExecSound, ExecTypeOK, StopsSound
<1>13. QED BY <1>4, <1>6, <1>7, <1>8, <1>10, <1>11, <1>12 DEF ExecStep

LEMMA ExecKept ==
    ASSUME IInv, [Next]_vars
    PROVE  ExecSound'
<1>1. ExecSound /\ JobsKept /\ Control /\ EndpointsTypeOK
  BY StepJobs DEF IInv, TypeOK, ExecSound
<1>2. xpc \in {"stop", "back"} => Harmless \subseteq Harmless'
  BY <1>1 DEF JobsKept, Launched
<1>3. unconf \in BOOLEAN /\ (lock = "free" => xpc = "idle")
  BY <1>1 DEF ExecSound, ExecTypeOK, Control, EndpointsTypeOK
<1>4. CASE OpenWindow \/ OpenMatrix \/ OpenCapacity
  BY <1>1, <1>3, <1>4, ExecFrame DEF OpenWindow, OpenMatrix, OpenCapacity, Load
<1>5. CASE ExecutorRuns
  BY <1>5, ExecStepSound DEF ExecutorRuns
<1>6. CASE Crash
  BY <1>6, ExecOverSound DEF Crash, ExecOver
<1>7. CASE Collected
  BY <1>3, <1>7, ExecOverSound DEF Collected
<1>8. CASE \E n \in 1..Width : Execute(n)
  BY <1>1, <1>8, ExecuteSound
<1>9. CASE UNCHANGED execVars
  BY <1>1, <1>2, <1>3, <1>9, ExecFrame DEF execVars
<1>10. CASE WindowRuns \/ EndpointsRun
  <2>1. UNCHANGED execVars \/ Collected \/ \E n \in 1..Width : Execute(n)
    BY <1>10 DEF WindowRuns, WindowStep, WindowPreflight, WindowBaseline, WindowLoaded,
         WindowProof, WindowRecover, WindowNormalize, NormalizeFails, WindowAfter,
         EndpointsRun, EndpointStep, InstallRecords, InstallPromotes, InstallVerifies, InstallFails,
         CapacityInspects, CapacityLoaded, CapacityRecovers, CapacityJudges
  <2>2. QED BY <1>7, <1>8, <1>9, <2>1
<1>11. CASE \/ OpenInstall \/ Briefly \/ CloseWindow \/ MatrixRuns \/ CloseMatrix
            \/ JobsRun \/ DockerRestarts \/ UNCHANGED vars
  <2>1. UNCHANGED execVars
    BY <1>11 DEF OpenInstall, InstallBegins, Briefly, CheckIsolation, CaptureAnchor, Finalize,
         CloseWindow, WindowClose, MatrixRuns, CloseMatrix, JobsRun, DockerRestarts,
         EndpointRestarts, vars
  <2>2. QED BY <1>9, <2>1
<1>12. QED BY <1>4, <1>5, <1>6, <1>10, <1>11 DEF Next

-----------------------------------------------------------------------------
(* The window, the path, and what is left behind.                              *)

LEMMA Frames ==
    ASSUME IInv, [Next]_vars
    PROVE  /\ endpoints' = endpoints \/ (EndpointsRun /\ InstallPromotes)
           /\ unconf' = unconf \/ xpc # "idle" \/ lock = "free" \/ Crash
<1>1. CASE OpenWindow \/ OpenMatrix \/ OpenCapacity \/ OpenInstall \/ Briefly
  BY <1>1 DEF OpenWindow, OpenMatrix, OpenCapacity, OpenInstall, Briefly, Load, InstallBegins,
              CheckIsolation, CaptureAnchor, Finalize, jobVars
<1>2. CASE WindowRuns
  BY <1>2 DEF WindowRuns, WindowStep, WindowPreflight, WindowBaseline, WindowLoaded,
         WindowProof, WindowRecover, WindowNormalize, NormalizeFails, WindowAfter,
         Execute, Collected, Forget, jobVars, execVars
<1>3. CASE CloseWindow \/ CloseMatrix \/ UNCHANGED vars
  BY <1>3 DEF CloseWindow, WindowClose, CloseMatrix, MatrixClose, jobVars, execVars, vars
<1>4. CASE MatrixRuns
  <2>1. unconf' = unconf
    BY <1>4 DEF MatrixRuns, execVars
  <2>2. endpoints' = endpoints
    BY <1>4 DEF MatrixRuns, MatrixStep, MatrixStart, StepSkipped, StepLaunches, WindowFinishes,
                WindowBreaks, BrokenStops, Idles, LadderEnds, Popen, Forget, jobVars
  <2>3. QED BY <2>1, <2>2
<1>5. CASE EndpointsRun
  BY <1>5 DEF EndpointsRun, EndpointStep, InstallRecords, InstallPromotes, InstallVerifies, InstallFails,
         CapacityInspects, CapacityLoaded, CapacityRecovers, CapacityJudges,
         Execute, Collected, Forget, jobVars, execVars
<1>6. CASE ExecutorRuns
  <2>1. xpc # "idle"
    BY <1>6 DEF ExecutorRuns, ExecStep, LaunchNext, LaunchFails, LaunchedAll, WatchFinds,
                WatchDone, WatchStops, StopCall, StopReturns, StopUnconfirmed, StopsDone
  <2>2. endpoints' = endpoints
    BY <1>6 DEF ExecutorRuns, ExecStep, LaunchNext, LaunchFails, LaunchedAll, WatchFinds,
                WatchDone, WatchStops, StopCall, StopReturns, StopUnconfirmed, StopsDone,
                Popen, jobVars
  <2>3. QED BY <2>1, <2>2
<1>7. CASE JobsRun
  <2>1. unconf' = unconf
    BY <1>7 DEF JobsRun, execVars
  <2>2. endpoints' = endpoints
    BY <1>7 DEF JobsRun, JobsNext, JobStep, RunStart, RunSpawn, RunMark, RunLook, RunWait,
                ChildEnds, ClientEnds, ExecLost, StopTouch, StopKill
  <2>3. QED BY <2>1, <2>2
<1>8. CASE DockerRestarts
  BY <1>8 DEF DockerRestarts, EndpointRestarts, Recreate, execVars
<1>9. CASE Crash
  BY <1>9 DEF Crash, Forget
<1>10. QED BY <1>1, <1>2, <1>3, <1>4, <1>5, <1>6, <1>7, <1>8, <1>9 DEF Next

WindowOK == WindowTypeOK /\ WindowSound

LEMMA WindowKept ==
    ASSUME IInv, [Next]_vars
    PROVE  WindowOK'
<1>1. WindowOK /\ Control /\ EndpointsTypeOK
  BY DEF IInv, TypeOK, WindowOK
<1>2. ASSUME wpc' \in {"idle", "preflight"}, wout' = "INVALID_MEASUREMENT", wrec' = "none",
             wbase' = FALSE, wbefore' = FALSE, streak' = 0, wdisk' \in Outcomes \cup {"none"}
      PROVE  WindowOK'
  <2>1. wbase' \in BOOLEAN /\ wbefore' \in BOOLEAN
    BY <1>2
  <2>2. WindowTypeOK'
    BY <1>2, <2>1 DEF WindowTypeOK, Outcomes
  <2>3. WindowSound'
    BY <1>2 DEF WindowSound
  <2>4. QED BY <2>2, <2>3 DEF WindowOK
<1>3. CASE OpenWindow
  BY <1>2, <1>3 DEF OpenWindow, WindowOpen, Outcomes
<1>4. CASE CloseWindow \/ Crash
  BY <1>1, <1>2, <1>4 DEF CloseWindow, WindowClose, Crash, WindowOver, WindowOK, WindowTypeOK
<1>5. ASSUME UNCHANGED <<wpc, wout, wrec, wbase, wbefore, streak>>,
             wdisk' \in Outcomes \cup {"none"}, ~Crash
      PROVE  WindowOK'
  <2>1. wpc \in {"normalize", "after", "close"} => unconf' = unconf
    <3>1. wpc \in {"normalize", "after", "close"} => lock = "window" /\ xpc = "idle"
      BY <1>1 DEF Control, EndpointsTypeOK
    <3>2. QED BY <1>5, <3>1, Frames
  <2>2. QED BY <1>1, <1>5, <2>1 DEF WindowOK, WindowTypeOK, WindowSound
<1>6. CASE OpenMatrix \/ OpenCapacity
  <2>1. /\ UNCHANGED <<wpc, wout, wrec, wbase, wbefore, streak>> /\ wdisk' = "none"
        /\ lock' # "free"
    BY <1>6 DEF OpenMatrix, OpenCapacity, Load
  <2>2. QED BY <1>5, <2>1 DEF Crash
<1>7. CASE WindowRuns
  <2>1. lock = "window" /\ ~Crash
    BY <1>7 DEF WindowRuns, Crash
  <2>2. wpc \in {"recover", "normalize", "after"} => unconf' = unconf
    <3>1. wpc \in {"recover", "normalize", "after"} => xpc = "idle"
      BY <1>1, <2>1 DEF Control, EndpointsTypeOK
    <3>2. QED BY <2>1, <3>1, Frames
  <2> USE <1>1 DEF WindowOK, WindowTypeOK, WindowSound, Outcomes, Errors
  <2>3. CASE WindowPreflight(Isolated)
    BY <2>3 DEF WindowPreflight
  <2>4. CASE WindowBaseline
    BY <2>4 DEF WindowBaseline, WindowFails
  <2>5. CASE WindowLoaded
    BY <2>5 DEF WindowLoaded, WindowFails
  <2>6. CASE WindowProof
    BY <2>6 DEF WindowProof, WindowFails
  <2>7. CASE WindowRecover
    BY <2>2, <2>7 DEF WindowRecover, RecoveryFails
  <2>8. CASE WindowNormalize
    BY <2>2, <2>8 DEF WindowNormalize
  <2>9. CASE NormalizeFails
    BY <2>9 DEF NormalizeFails, RecoveryFails
  <2>10. CASE WindowAfter
    BY <2>2, <2>10 DEF WindowAfter
  <2>11. QED BY <1>7, <2>3, <2>4, <2>5, <2>6, <2>7, <2>8, <2>9, <2>10 DEF WindowRuns, WindowStep
<1>8. CASE \/ OpenInstall \/ Briefly \/ MatrixRuns \/ CloseMatrix \/ EndpointsRun
           \/ ExecutorRuns \/ JobsRun \/ DockerRestarts \/ UNCHANGED vars
  <2>1. UNCHANGED windowVars
    BY <1>8 DEF OpenInstall, Briefly, MatrixRuns, CloseMatrix, EndpointsRun, ExecutorRuns,
                JobsRun, DockerRestarts, vars
  <2>2. CASE Crash
    BY <1>4, <2>2
  <2>3. CASE ~Crash
    BY <1>1, <1>5, <2>1, <2>3 DEF windowVars, WindowOK, WindowTypeOK
  <2>4. QED BY <2>2, <2>3
<1>9. QED BY <1>3, <1>4, <1>6, <1>7, <1>8 DEF Next

\* The record of the path and what relies on it; the loads follow.
Recorded ==
    /\ {endpoints, switch.mode} \cap {"direct", "ngfw"} # {} => managed
    /\ candidate = "legacy" => ~managed
    /\ switch.status = "INSTALLED" => endpoints = switch.mode
PathOK == EndpointsTypeOK /\ PathKept /\ Recorded

LEMMA PathStep ==
    ASSUME IInv, PathOK, EndpointsRun
    PROVE  PathOK'
<1>1. /\ Control /\ Control' /\ WindowTypeOK /\ endpoints \in Modes
      /\ wpc = "idle" /\ wpc' = "idle" /\ lock # "matrix" /\ lock' # "matrix"
  <2>1. Control' /\ Control /\ WindowTypeOK /\ endpoints \in Modes
    BY ControlKept DEF IInv, TypeOK, Next, JobsTypeOK
  <2>2. wpc = "idle" /\ wpc' = wpc /\ lock # "matrix" /\ lock' # "matrix"
    BY <2>1 DEF EndpointsRun, windowVars, Control
  <2>3. QED BY <2>1, <2>2
<1>2. endpoints' = endpoints \/ InstallPromotes
  BY Frames DEF Next
<1>3. CASE InstallPromotes
  <2>1. cpc = "promote" /\ lock = "install" /\ lock' = "install"
    BY <1>1, <1>3 DEF InstallPromotes, EndpointsRun, Control
  <2>2. /\ UNCHANGED <<candidate, switch, managed, anchor, isolation, restarted, capacity, final>>
        /\ config' \in Configs
        /\ (cpc' = "verify" /\ endpoints' = candidate) \/ cpc' = "failed"
    BY <1>3 DEF InstallPromotes, capVars, Recreate, PathOK, EndpointsTypeOK
  <2>3. QED BY <1>1, <2>1, <2>2 DEF PathOK, EndpointsTypeOK, PathKept, Recorded
<1>8. CASE InstallRecords
  <2>1. cpc = "record" /\ lock = "install" /\ endpoints' = endpoints
    BY <1>1, <1>8 DEF InstallRecords, EndpointsRun, Control, jobVars
  <2>2. /\ UNCHANGED <<config, managed, anchor, isolation, restarted, capacity, final>>
        /\ \/ /\ switch' = [status |-> "IN_PROGRESS", mode |-> "none"]
              /\ cpc' = "promote" /\ lock' = "install" /\ candidate' = candidate
           \/ /\ cpc' = "idle" /\ candidate' = "none" /\ lock' = "free" /\ switch' = switch
    BY <1>8, <2>1 DEF InstallRecords, EndpointsRun, capVars
  <2>3. EndpointsTypeOK'
    BY <2>2 DEF PathOK, EndpointsTypeOK
  <2>4. QED BY <1>1, <2>1, <2>2, <2>3 DEF PathOK, PathKept, Recorded
<1>4. CASE InstallVerifies
  <2>1. cpc = "verify" /\ lock = "install" /\ endpoints = candidate /\ endpoints' = endpoints
    BY <1>1, <1>4 DEF InstallVerifies, EndpointsRun, Control, PathOK, PathKept, jobVars
  <2>2. /\ UNCHANGED <<config, managed, anchor, isolation, restarted, capacity, final>>
        /\ \/ /\ switch' = [status |-> "INSTALLED", mode |-> candidate]
              /\ cpc' = "idle" /\ candidate' = "none" /\ lock' = "free"
           \/ cpc' = "failed" /\ lock' = "install" /\ UNCHANGED <<switch, candidate>>
    BY <1>4, <2>1 DEF InstallVerifies, EndpointsRun, capVars
  <2>3. candidate \in Modes
    BY <1>1, <2>1
  <2>4. EndpointsTypeOK'
    BY <2>2, <2>3 DEF PathOK, EndpointsTypeOK
  <2>5. QED BY <1>1, <2>1, <2>2, <2>4 DEF PathOK, PathKept, Recorded
<1>5. CASE InstallFails
  <2>1. cpc = "failed" /\ lock = "install" /\ endpoints' = endpoints
    BY <1>1, <1>5 DEF InstallFails, EndpointsRun, Control, jobVars
  <2>2. /\ UNCHANGED <<config, managed, anchor, isolation, restarted, capacity, final>>
        /\ switch' = [switch EXCEPT !.status = "FAILED"]
        /\ cpc' = "idle" /\ candidate' = "none" /\ lock' = "free"
    BY <1>5, <2>1 DEF InstallFails, EndpointsRun, capVars
  <2>3. EndpointsTypeOK' /\ switch'.mode = switch.mode /\ switch'.status = "FAILED"
    BY <2>2 DEF PathOK, EndpointsTypeOK
  <2>4. QED BY <1>1, <2>1, <2>2, <2>3 DEF PathOK, PathKept, Recorded
<1>6. CASE CapacityInspects \/ CapacityLoaded \/ CapacityRecovers \/ CapacityJudges
  <2>1. /\ lock = "capacity" /\ lock' # "install" /\ endpoints' = endpoints
        /\ UNCHANGED <<candidate, config, switch, managed, anchor, final>>
    <3>1. lock = "capacity"
      BY <1>1, <1>6 DEF CapacityInspects, CapacityLoaded, CapacityRecovers, CapacityJudges, Control
    <3>2. lock' # "install"
      BY <3>1 DEF EndpointsRun
    <3>3. endpoints' = endpoints
      BY <1>2, <1>6 DEF InstallPromotes, CapacityInspects, CapacityLoaded, CapacityRecovers,
                        CapacityJudges
    <3>4. UNCHANGED <<candidate, config, switch, managed, anchor, final>>
      BY <1>6 DEF CapacityInspects, CapacityLoaded, CapacityRecovers, CapacityJudges,
                  CapacityEnds, switchVars, capVars
    <3>5. QED BY <3>1, <3>2, <3>3, <3>4
  <2>2. ASSUME NEW measured \in BOOLEAN, CapacityEnds(measured)
        PROVE  /\ cpc' = "idle" /\ restarted' = restarted
               /\ capacity' \in [status : {"NONE", "MEASURED_PENDING_DUT_RETURN", "OTHER"},
                                 on : Configs \cup {"none"}]
               /\ isolation' \in [age : {"none", "old", "fresh"}, on : Configs \cup {"none"}]
    <3>1. cpc' = "idle" /\ restarted' = restarted
      BY <2>2 DEF CapacityEnds
    <3>2. PICK logs \in BOOLEAN :
             capacity' = [status |-> IF measured /\ logs THEN "MEASURED_PENDING_DUT_RETURN"
                                     ELSE "OTHER",
                          on |-> config]
      BY <2>2 DEF CapacityEnds
    <3>3. (IF measured /\ logs THEN "MEASURED_PENDING_DUT_RETURN" ELSE "OTHER")
            \in {"NONE", "MEASURED_PENDING_DUT_RETURN", "OTHER"}
      OBVIOUS
    <3>4. capacity' \in [status : {"NONE", "MEASURED_PENDING_DUT_RETURN", "OTHER"},
                         on : Configs \cup {"none"}]
      BY <3>2, <3>3 DEF PathOK, EndpointsTypeOK
    <3>5. isolation' \in [age : {"none", "old", "fresh"}, on : Configs \cup {"none"}]
      BY <2>2 DEF CapacityEnds, PathOK, EndpointsTypeOK
    <3>6. QED BY <3>1, <3>4, <3>5
  <2>3. /\ restarted' \in BOOLEAN
        /\ capacity' \in [status : {"NONE", "MEASURED_PENDING_DUT_RETURN", "OTHER"},
                          on : Configs \cup {"none"}]
        /\ isolation' \in [age : {"none", "old", "fresh"}, on : Configs \cup {"none"}]
        /\ \/ cpc' = "idle"
           \/ cpc' = "load" /\ endpoints = "direct"
           \/ cpc' \in {"pause", "judge"} /\ endpoints = "direct" /\ ~unconf'
    <3>1. PathOK
      OBVIOUS
    <3>2. CASE CapacityInspects
      BY <2>2, <3>1, <3>2 DEF CapacityInspects, PathOK, EndpointsTypeOK
    <3>3. CASE CapacityLoaded
      BY <2>2, <3>1, <3>3 DEF CapacityLoaded, Collected, capVars, PathOK, PathKept, EndpointsTypeOK
    <3>4. CASE CapacityRecovers
      BY <2>2, <3>1, <3>4 DEF CapacityRecovers, execVars, capVars, PathOK, PathKept, EndpointsTypeOK
    <3>5. CASE CapacityJudges
      BY <2>2, <3>1, <3>5 DEF CapacityJudges, PathOK, EndpointsTypeOK
    <3>6. QED BY <1>6, <3>2, <3>3, <3>4, <3>5
  <2>4. EndpointsTypeOK'
    BY <2>1, <2>3 DEF PathOK, EndpointsTypeOK
  <2>5. QED BY <1>1, <2>1, <2>3, <2>4 DEF PathOK, PathKept, Recorded
<1>7. QED BY <1>3, <1>4, <1>5, <1>6, <1>8 DEF EndpointsRun, EndpointStep

LEMMA PathIsKept ==
    ASSUME IInv, [Next]_vars
    PROVE  PathOK'
<1>1. /\ PathOK /\ Control /\ Control' /\ WindowTypeOK /\ WindowTypeOK' /\ EndpointsTypeOK
      /\ lock \in Holders
  BY ControlKept, WindowKept DEF IInv, TypeOK, PathOK, PathTruth, Recorded, WindowOK
<1>2. (endpoints' = endpoints \/ InstallPromotes)
      /\ (unconf' = unconf \/ xpc # "idle" \/ lock = "free" \/ Crash)
  BY Frames
<1>3. CASE OpenWindow
  <2>1. UNCHANGED <<endpoints, endpointVars>> /\ lock = "free" /\ lock' = "window" /\ wpc' = "preflight"
    BY <1>3 DEF OpenWindow, Load, WindowOpen, jobVars
  <2>2. QED BY <1>1, <2>1 DEF endpointVars, switchVars, capVars, PathOK, EndpointsTypeOK, PathKept,
                              Recorded, Control
<1>4. CASE OpenMatrix
  <2>1. UNCHANGED <<endpoints, endpointVars, wpc>> /\ lock = "free" /\ lock' = "matrix" /\ Topology
    BY <1>4 DEF OpenMatrix, Load, Isolated, jobVars
  <2>2. QED BY <1>1, <2>1 DEF endpointVars, switchVars, capVars, PathOK, EndpointsTypeOK, PathKept,
                              Recorded, Control, Topology
<1>5. CASE OpenCapacity
  <2>1. /\ UNCHANGED <<endpoints, candidate, switchVars, capVars, wpc>>
        /\ lock = "free" /\ lock' = "capacity" /\ cpc' = "inspect"
    BY <1>5 DEF OpenCapacity, Load, CapacityBegins, jobVars
  <2>2. QED BY <1>1, <2>1 DEF switchVars, capVars, PathOK, EndpointsTypeOK, PathKept, Recorded, Control
<1>6. CASE OpenInstall
  <2>1. PICK mode \in {"legacy", "ngfw", "direct"} : InstallBegins(mode)
    BY <1>6 DEF OpenInstall
  <2>2. /\ UNCHANGED <<endpoints, config, capVars, wpc>>
        /\ lock = "free" /\ lock' = "install" /\ cpc' = "record" /\ candidate' = mode
        /\ switch' = switch
        /\ managed' = (managed \/ mode # "legacy")
        /\ mode = "legacy" => ~managed
    BY <1>6, <2>1 DEF OpenInstall, InstallBegins, LegacyRefused, jobVars, windowVars
  <2>3. EndpointsTypeOK'
    BY <1>1, <2>2 DEF capVars, EndpointsTypeOK
  <2>4. QED BY <1>1, <2>2, <2>3 DEF PathOK, PathKept, Recorded, Control
<1>7. CASE Briefly
  <2>1. UNCHANGED <<endpoints, cpc, candidate, switchVars, wpc, lock, restarted, capacity>>
        /\ unconf' = unconf
    BY <1>7 DEF Briefly, CheckIsolation, CaptureAnchor, Finalize, jobVars, execVars, windowVars, labVars
  <2>2. EndpointsTypeOK'
    <3>1. /\ isolation' \in [age : {"none", "old", "fresh"}, on : Configs \cup {"none"}]
          /\ anchor' \in Configs \cup {"none"} /\ final' \in Configs \cup {"none"}
      BY <1>1, <1>7 DEF Briefly, CheckIsolation, CaptureAnchor, Finalize, EndpointsTypeOK
    <3>2. QED BY <1>1, <2>1, <3>1 DEF switchVars, EndpointsTypeOK
  <2>3. QED BY <1>1, <2>1, <2>2 DEF switchVars, PathOK, PathKept, Recorded, Topology
<1>8. CASE WindowRuns
  <2>1. UNCHANGED <<endpointVars, lock>> /\ lock = "window" /\ cpc = "idle"
    BY <1>1, <1>8 DEF WindowRuns, Control, EndpointsTypeOK
  <2>2. endpoints' = endpoints
    BY <1>2, <2>1 DEF InstallPromotes
  <2>3. wpc' \in {"baseline", "measure"} => Topology
    BY <1>1, <1>8, <2>1 DEF WindowRuns, WindowStep, WindowPreflight, WindowBaseline, WindowLoaded,
         WindowProof, WindowRecover, WindowNormalize, NormalizeFails, WindowAfter,
         WindowFails, RecoveryFails, Isolated, PathOK, PathKept
  <2>4. QED BY <1>1, <2>1, <2>2, <2>3 DEF endpointVars, switchVars, capVars, PathOK, EndpointsTypeOK,
                                          PathKept, Recorded, Topology
<1>9. CASE CloseWindow \/ CloseMatrix
  <2>1. /\ UNCHANGED <<endpoints, endpointVars>> /\ lock' = "free"
        /\ lock \in {"window", "matrix"} /\ wpc' = "idle"
    BY <1>1, <1>9 DEF CloseWindow, CloseMatrix, WindowClose, WindowOver, MatrixClose, windowVars,
                      jobVars, Control
  <2>2. QED BY <1>1, <2>1 DEF endpointVars, switchVars, capVars, PathOK, EndpointsTypeOK,
                              PathKept, Recorded, Control
<1>10. CASE MatrixRuns \/ ExecutorRuns \/ JobsRun \/ UNCHANGED vars
  <2>1. (UNCHANGED <<endpointVars, lock, wpc>> /\ ~Crash) \/ UNCHANGED vars
    BY <1>10 DEF MatrixRuns, ExecutorRuns, JobsRun, labVars, windowVars, Crash
  <2>2. endpoints' = endpoints
    <3>1. ~InstallPromotes \/ UNCHANGED vars
      BY <2>1 DEF InstallPromotes, endpointVars
    <3>2. QED BY <1>2, <3>1 DEF vars, jobVars
  <2>3. cpc \in {"pause", "judge"} => unconf' = unconf
    <3>1. cpc \in {"pause", "judge"} => xpc = "idle" /\ lock = "capacity"
      BY <1>1 DEF Control
    <3>2. QED BY <1>2, <2>1, <3>1 DEF vars, execVars
  <2>4. QED BY <1>1, <2>1, <2>2, <2>3 DEF endpointVars, switchVars, capVars, PathOK, EndpointsTypeOK,
                  PathKept, Recorded, Topology, vars, windowVars, labVars
<1>11. CASE EndpointsRun
  BY <1>1, <1>11, PathStep
<1>12. CASE DockerRestarts
  <2>1. /\ UNCHANGED <<cpc, candidate, switchVars, anchor, isolation, capacity, final, lock, wpc, unconf>>
        /\ endpoints' = endpoints /\ restarted' = TRUE
    BY <1>12 DEF DockerRestarts, EndpointRestarts, Recreate, windowVars, labVars, execVars
  <2>2. restarted' \in BOOLEAN
    BY <2>1
  <2>3. QED BY <1>1, <2>1, <2>2 DEF switchVars, PathOK, EndpointsTypeOK, PathKept, Recorded, Topology
<1>13. CASE Crash
  <2>1. /\ UNCHANGED <<endpoints, switchVars, capVars>> /\ lock' = "free" /\ cpc' = "idle"
        /\ candidate' = "none" /\ wpc' = "idle"
    BY <1>13 DEF Crash, Forget, WindowOver
  <2>2. QED BY <1>1, <2>1 DEF switchVars, capVars, PathOK, EndpointsTypeOK, PathKept, Recorded
<1>14. QED BY <1>3, <1>4, <1>5, <1>6, <1>7, <1>8, <1>9, <1>10, <1>11, <1>12, <1>13 DEF Next

\* What a report admits is never taken back.
LEMMA ExcusedStays ==
    ASSUME IInv, [Next]_vars, Excused
    PROVE  Excused'
<1>1. crashes \in Nat /\ noted \in BOOLEAN /\ unconf \in BOOLEAN /\ mgap \in BOOLEAN
      /\ noted' \in BOOLEAN /\ unconf' \in BOOLEAN /\ mgap' \in BOOLEAN
  <2>1. crashes \in Nat /\ noted \in BOOLEAN /\ unconf \in BOOLEAN /\ mgap \in BOOLEAN
    BY LabBounds DEF IInv, TypeOK, ExecTypeOK, MatrixTypeOK
  <2>2. unconf' \in BOOLEAN /\ mgap' \in BOOLEAN
    BY ExecKept, LadderKept DEF ExecSound, ExecTypeOK, LadderSoFar, MatrixTypeOK
  <2>3. noted' = noted \/ noted' = (noted \/ unconf \/ mgap)
    BY DEF Next, OpenWindow, OpenMatrix, OpenCapacity, Load, OpenInstall, Briefly, WindowRuns,
           CloseWindow, MatrixRuns, CloseMatrix, EndpointsRun, ExecutorRuns, JobsRun,
           DockerRestarts, Crash, labVars, vars
  <2>4. QED BY <2>1, <2>2, <2>3
<1>2. CASE OpenWindow \/ OpenMatrix \/ OpenCapacity
  <2>1. noted' = (noted \/ unconf \/ mgap) /\ crashes' = crashes
    BY <1>2 DEF OpenWindow, OpenMatrix, OpenCapacity, Load
  <2>2. QED BY <2>1 DEF Excused
<1>3. CASE Crash
  <2>1. crashes' = crashes + 1
    BY <1>3 DEF Crash
  <2>2. QED BY <1>1, <2>1 DEF Excused
<1>4. CASE ExecutorRuns
  <2>1. UNCHANGED <<noted, mgap, crashes>>
    BY <1>4 DEF ExecutorRuns, labVars, matrixVars
  <2>2. unconf => unconf'
    BY <1>4 DEF ExecutorRuns, ExecStep, LaunchNext, LaunchFails, LaunchedAll, WatchFinds,
                WatchDone, WatchStops, StopCall, StopReturns, StopUnconfirmed, StopsDone,
                StopNext, Ended, execVars
  <2>3. QED BY <2>1, <2>2 DEF Excused
<1>5. CASE MatrixRuns
  <2>1. UNCHANGED <<noted, unconf, crashes>>
    BY <1>5 DEF MatrixRuns, labVars, execVars
  <2>2. mgap' = mgap \/ mgap'
    BY <1>5 DEF MatrixRuns, MatrixStep, MatrixStart, StepSkipped, StepLaunches, WindowFinishes,
                WindowBreaks, BrokenStops, Idles, LadderEnds
  <2>3. QED BY <1>1, <2>1, <2>2 DEF Excused
<1>6. CASE \/ OpenInstall \/ Briefly \/ WindowRuns \/ CloseWindow \/ CloseMatrix
           \/ EndpointsRun \/ JobsRun \/ DockerRestarts \/ UNCHANGED vars
  <2>1. UNCHANGED <<noted, mgap, crashes>>
    BY <1>6 DEF OpenInstall, Briefly, WindowRuns, CloseWindow, CloseMatrix, MatrixClose,
                EndpointsRun, JobsRun, DockerRestarts, labVars, matrixVars, vars
  <2>2. unconf' = unconf
    BY <1>6 DEF OpenInstall, InstallBegins, Briefly, CheckIsolation, CaptureAnchor, Finalize,
         WindowRuns, WindowStep, WindowPreflight, WindowBaseline, WindowLoaded, WindowProof,
         WindowRecover, WindowNormalize, NormalizeFails, WindowAfter,
         CloseWindow, WindowClose, CloseMatrix, EndpointsRun, EndpointStep,
         InstallRecords, InstallPromotes, InstallVerifies, InstallFails, CapacityInspects, CapacityLoaded,
         CapacityRecovers, CapacityJudges, Execute, Collected, JobsRun, DockerRestarts,
         EndpointRestarts, execVars, vars
  <2>3. QED BY <2>1, <2>2 DEF Excused
<1>7. QED BY <1>2, <1>3, <1>4, <1>5, <1>6 DEF Next

\* A load that its controller lets go of is harmless, or on record.
LEMMA LetGo ==
    ASSUME IInv, [Next]_vars, NEW s \in Owned \ Owned', s \in Slots
    PROVE  s \in Harmless \/ Excused'
<1>1. /\ Control /\ EndpointsTypeOK /\ SlotSound(s) /\ jobs \in Seq(Slots)
      /\ JobsSound /\ crashes \in Nat
  BY LabBounds DEF IInv, TypeOK, ExecTypeOK, SlotsSound, JobsSound
<1>2. CASE Crash
  <2>1. crashes' = crashes + 1
    BY <1>2 DEF Crash
  <2>2. QED BY <1>1, <2>1 DEF Excused
<1>3. ASSUME ~Crash, NEW i \in DOMAIN jobs, s = jobs[i]
      PROVE  s \in Harmless \/ Excused'
  <2>1. xpc # "idle"
    BY <1>3 DEF IInv, StopsSound
  <2>2. jobs' # jobs
    BY <1>3 DEF Owned
  <2>3. CASE Collected \/ \E n \in 1..Width : Execute(n)
    <3>1. xpc = "back" /\ unconf' = unconf
      BY <2>1, <2>3 DEF Collected, Execute
    <3>2. i < at
      BY <1>1, <1>3, <3>1, LabBounds DEF IInv, StopsSound, TypeOK, ExecTypeOK
    <3>3. QED BY <1>3, <3>1, <3>2 DEF IInv, StopsSound, Excused
  <2>4. CASE LaunchNext
    <3>1. PICK t \in Slots : jobs' = Append(jobs, t)
      BY <2>4 DEF LaunchNext
    <3>2. i \in DOMAIN jobs' /\ jobs'[i] = jobs[i]
      BY <1>1, <1>3, <3>1
    <3>3. QED BY <1>3, <3>2 DEF Owned
  <2>5. CASE ~(Collected \/ (\E n \in 1..Width : Execute(n)) \/ LaunchNext)
    <3>1. jobs' = jobs
      <4>1. CASE OpenWindow \/ OpenMatrix \/ OpenCapacity \/ OpenInstall \/ Briefly
        BY <4>1 DEF OpenWindow, OpenMatrix, OpenCapacity, Load, OpenInstall, InstallBegins,
             Briefly, CheckIsolation, CaptureAnchor, Finalize, execVars
      <4>2. CASE WindowRuns \/ CloseWindow \/ MatrixRuns \/ CloseMatrix \/ EndpointsRun
        BY <2>5, <4>2 DEF WindowRuns, WindowStep, WindowPreflight, WindowBaseline, WindowLoaded,
             WindowProof, WindowRecover, WindowNormalize, NormalizeFails, WindowAfter,
             CloseWindow, WindowClose, MatrixRuns, CloseMatrix, EndpointsRun, EndpointStep,
             InstallRecords, InstallPromotes, InstallVerifies, InstallFails, CapacityInspects,
             CapacityLoaded, CapacityRecovers, CapacityJudges, execVars
      <4>3. CASE ExecutorRuns
        BY <2>5, <4>3 DEF ExecutorRuns, ExecStep, LaunchFails, LaunchedAll, WatchFinds, WatchDone,
             WatchStops, StopCall, StopReturns, StopUnconfirmed, StopsDone, StopNext, Ended, execVars
      <4>4. CASE JobsRun \/ DockerRestarts \/ UNCHANGED vars
        BY <4>4 DEF JobsRun, DockerRestarts, EndpointRestarts, execVars, vars
      <4>5. QED BY <1>3, <4>1, <4>2, <4>3, <4>4 DEF Next
    <3>2. QED BY <2>2, <3>1
  <2>6. QED BY <2>3, <2>4, <2>5
<1>4. ASSUME ~Crash, s = job, s # "none"
      PROVE  s \in Harmless \/ Excused'
  <2>1. mpc \in {"watch", "stop"} /\ job' # job
    BY <1>1, <1>4 DEF Control, Owned
  <2>2. MatrixRuns
    <3>1. lock = "matrix"
      BY <1>1, <2>1 DEF Control
    <3>2. job' = job \/ MatrixRuns
      BY <1>4, <2>1, <3>1 DEF Next, OpenWindow, OpenMatrix, OpenCapacity, Load, OpenInstall,
           Briefly, WindowRuns, CloseWindow, CloseMatrix, MatrixClose, EndpointsRun,
           ExecutorRuns, JobsRun, DockerRestarts, matrixVars, vars
    <3>3. QED BY <2>1, <3>2
  <2>3. CASE WindowFinishes
    BY <1>1, <1>4, <2>3 DEF WindowFinishes, SlotSound, Harmless, Live, Over
  <2>4. CASE BrokenStops
    BY <1>1, <1>4, <2>4 DEF BrokenStops, SlotSound, Excused
  <2>5. CASE ~WindowFinishes /\ ~BrokenStops
    BY <2>1, <2>2, <2>5 DEF MatrixRuns, MatrixStep, MatrixStart, StepSkipped, StepLaunches,
                            WindowBreaks, Idles, LadderEnds
  <2>6. QED BY <2>3, <2>4, <2>5
<1>5. QED BY <1>2, <1>3, <1>4 DEF Owned

LEMMA LeftoversKept ==
    ASSUME IInv, [Next]_vars
    PROVE  NoSilentLeftover'
<1>1. ASSUME NEW s \in Slots, s \notin Owned' PROVE s \in Harmless' \/ Excused'
  <2>1. s \in Harmless \/ Excused'
    <3>1. CASE s \in Owned
      BY <1>1, <3>1, LetGo
    <3>2. CASE s \notin Owned
      <4>1. s \in Harmless \/ Excused
        BY <3>2 DEF IInv, NoSilentLeftover, Harmless, Live
      <4>2. QED BY <4>1, ExcusedStays
    <3>3. QED BY <3>1, <3>2
  <2>2. QED BY <1>1, <2>1, StepJobs DEF JobsKept, Launched
<1>2. QED BY <1>1 DEF NoSilentLeftover, Harmless, Live

\* Nobody owns a load over a path that was not looked at.
LoadsOnPath ==
    \A s \in Owned : child[s] = "alive" =>
        IF lock = "capacity" THEN endpoints = "direct" ELSE endpoints \in {"legacy", "ngfw"}

LEMMA LoadsFollowPath ==
    Control /\ EndpointsTypeOK /\ StopsSound /\ PathKept => LoadsOnPath
<1> SUFFICES ASSUME Control, EndpointsTypeOK, StopsSound, PathKept PROVE LoadsOnPath
  OBVIOUS
<1>1. ASSUME Owned # {}
      PROVE  IF lock = "capacity" THEN endpoints = "direct" ELSE endpoints \in {"legacy", "ngfw"}
  <2>1. CASE xpc # "idle"
    BY <2>1 DEF Control, EndpointsTypeOK, PathKept, Topology
  <2>2. CASE xpc = "idle"
    <3>1. job # "none"
      BY <1>1, <2>2 DEF StopsSound, Owned
    <3>2. QED BY <3>1 DEF Control, PathKept, Topology
  <2>3. QED BY <2>1, <2>2
<1>2. QED BY <1>1 DEF LoadsOnPath

LEMMA LabCounters ==
    ASSUME IInv, [Next]_vars
    PROVE  /\ lock' \in Holders /\ noted' \in BOOLEAN
           /\ work' \in 0..MaxWork /\ crashes' \in 0..MaxCrashes
<1>1. /\ lock \in Holders /\ noted \in BOOLEAN /\ unconf \in BOOLEAN /\ mgap \in BOOLEAN
      /\ work \in 0..MaxWork /\ crashes \in 0..MaxCrashes
      /\ MaxWork \in Nat /\ MaxCrashes \in Nat
  BY LabBounds DEF IInv, TypeOK, ExecTypeOK, MatrixTypeOK
<1>2. CASE OpenWindow \/ OpenMatrix \/ OpenCapacity
  <2>1. /\ lock' \in {"window", "matrix", "capacity"} /\ work' = work + 2 /\ work + 2 <= MaxWork
        /\ noted' = (noted \/ unconf \/ mgap) /\ crashes' = crashes
    BY <1>2 DEF OpenWindow, OpenMatrix, OpenCapacity, Load
  <2>2. (noted \/ unconf \/ mgap) \in BOOLEAN
    OBVIOUS
  <2>3. QED BY <1>1, <2>1, <2>2 DEF Holders
<1>3. CASE OpenInstall
  BY <1>1, <1>3 DEF OpenInstall, Holders
<1>4. CASE WindowRuns \/ EndpointsRun
  <2>1. Spend /\ lock' \in {lock, "free"} /\ UNCHANGED <<noted, crashes>>
    BY <1>4 DEF WindowRuns, EndpointsRun
  <2>2. QED BY <1>1, <2>1 DEF Spend, Holders
<1>5. CASE CloseWindow \/ CloseMatrix
  BY <1>1, <1>5 DEF CloseWindow, CloseMatrix, Holders
<1>6. CASE Crash
  BY <1>1, <1>6 DEF Crash, Holders
<1>7. CASE Briefly \/ MatrixRuns \/ ExecutorRuns \/ JobsRun \/ DockerRestarts \/ UNCHANGED vars
  BY <1>1, <1>7 DEF Briefly, MatrixRuns, ExecutorRuns, JobsRun, DockerRestarts, labVars, vars
<1>8. QED BY <1>2, <1>3, <1>4, <1>5, <1>6, <1>7 DEF Next

-----------------------------------------------------------------------------
LEMMA InitInv == Init => IInv
<1> SUFFICES ASSUME Init PROVE IInv
  OBVIOUS
<1> USE LabBounds, LadderAssumption DEF Init
<1>1. JobsTypeOK /\ SlotsSound /\ NoSilentLeftover
  BY DEF JobsInit, JobsTypeOK, SlotsSound, SlotSound, Over, Modes, NoSilentLeftover
<1>2. ExecTypeOK /\ StopsSound
  <2>1. <<>> \in Seq(Slots) /\ Len(<<>>) <= 0 /\ 0 \in 0..Width /\ 0 \in 0..Width + 1
    OBVIOUS
  <2>2. QED BY <2>1 DEF ExecInit, ExecTypeOK, StopsSound
<1>3. WindowTypeOK /\ WindowSound
  <2>1. wbase \in BOOLEAN /\ wbefore \in BOOLEAN
    BY DEF WindowInit
  <2>2. QED BY <2>1 DEF WindowInit, WindowTypeOK, WindowSound, Outcomes
<1>4. EndpointsTypeOK
  <2>1. endpoints \in {"legacy", "ngfw"} /\ managed \in BOOLEAN
    BY DEF JobsInit, EndpointsInit
  <2>2. QED BY <2>1 DEF EndpointsInit, EndpointsTypeOK, Modes, NoEvidence, NoRun
<1>5. PathKept /\ Recorded
  BY DEF JobsInit, EndpointsInit, WindowInit, PathKept, Recorded
<1>6. MatrixTypeOK /\ RowsSound /\ StageSound
  <2>1. Len(Ladder) \in Nat /\ DOMAIN Ladder = 1..Len(Ladder)
    OBVIOUS
  <2>2. mgap \in BOOLEAN
    BY DEF MatrixInit
  <2>3. MatrixTypeOK
    BY <2>1, <2>2 DEF MatrixInit, MatrixTypeOK, Statuses
  <2>4. QED BY <2>1, <2>3 DEF MatrixInit, RowsSound, StageSound
<1>7. Control
  BY DEF ExecInit, WindowInit, EndpointsInit, MatrixInit, Control
<1>8. /\ lock \in Holders /\ noted \in BOOLEAN
      /\ work \in 0..MaxWork /\ crashes \in 0..MaxCrashes
  <2>1. noted \in BOOLEAN
    OBVIOUS
  <2>2. QED BY <2>1 DEF Holders
<1>9. QED BY <1>1, <1>2, <1>3, <1>4, <1>5, <1>6, <1>7, <1>8, LoadsFollowPath
          DEF IInv, TypeOK, PathTruth, Recorded, LoadsOnPath

LEMMA NextInv == IInv /\ [Next]_vars => IInv'
<1> SUFFICES ASSUME IInv, [Next]_vars PROVE IInv'
  OBVIOUS
<1>1. JobsTypeOK' /\ SlotsSound'
  BY StepJobs DEF JobsKept, JobsSound
<1>2. ExecTypeOK' /\ StopsSound'
  BY ExecKept DEF ExecSound
<1>3. WindowTypeOK' /\ WindowSound'
  BY WindowKept DEF WindowOK
<1>4. EndpointsTypeOK' /\ PathKept' /\ Recorded'
  BY PathIsKept DEF PathOK
<1>5. MatrixTypeOK' /\ RowsSound' /\ StageSound'
  BY LadderKept DEF LadderSoFar
<1>6. Control' /\ NoSilentLeftover'
  BY ControlKept, LeftoversKept
<1>7. PathTruth'
  <2>1. LoadsOnPath'
    BY <1>2, <1>4, <1>6, LoadsFollowPath, PTL
  <2>2. QED BY <1>4, <2>1 DEF PathTruth, Recorded, LoadsOnPath
<1>8. QED BY <1>1, <1>2, <1>3, <1>4, <1>5, <1>6, <1>7, LabCounters DEF IInv, TypeOK

\* What the properties below follow from, for any slots, width, ladder and
\* configurations, and any number of killed controllers.
THEOREM Invariant == Spec => []IInv
BY InitInv, NextInv, PTL DEF Spec

\* Every variable of the lab's scripts keeps to its type.
THEOREM TypeCorrect == Spec => []TypeOK
BY Invariant, PTL DEF IInv

\* A load nobody watches any more is doomed, or some report says it may run:
\* stop_jobs, the runner's stop of a window, and job.py's two looks at .cancel.
THEOREM NothingLeftSilently == Spec => []NoSilentLeftover
BY Invariant, PTL DEF IInv

\* The endpoint switch on record is what runs, and loads run over the path
\* they were started for.
THEOREM PathTrue == Spec => []PathTruth
BY Invariant, PTL DEF IInv

\* A window's receipt says COMPLETED only over a load that was seen to stop.
LEMMA CompletedTrue ==
    ASSUME IInv, [Next]_vars, wdisk' # wdisk, wdisk' = "COMPLETED"
    PROVE  wrec = "RECOVERED" /\ ~unconf /\ Quiet
<1>1. CloseWindow
  BY DEF Next, OpenWindow, WindowOpen, OpenMatrix, OpenCapacity, OpenInstall, Briefly, WindowRuns,
         WindowStep, WindowPreflight, WindowBaseline, WindowLoaded, WindowProof, WindowRecover,
         WindowNormalize, NormalizeFails, WindowAfter, WindowFails, RecoveryFails,
         MatrixRuns, CloseMatrix, EndpointsRun, ExecutorRuns, JobsRun, DockerRestarts, Crash,
         windowVars, vars
<1>2. wpc = "close" /\ wout = "COMPLETED" /\ lock = "window"
  BY <1>1 DEF CloseWindow, WindowClose
<1>3. wrec = "RECOVERED" /\ ~unconf
  BY <1>2 DEF IInv, WindowSound
<1>4. Owned = {}
  BY <1>2 DEF IInv, Control, TypeOK, EndpointsTypeOK, StopsSound, Owned
<1>5. QED BY <1>3, <1>4 DEF IInv, NoSilentLeftover, Quiet

\* A capacity receipt says MEASURED only of a run on the direct path with no
\* restart in between, over loads that are gone.
LEMMA MeasuredTrue ==
    ASSUME IInv, [Next]_vars, capacity' # capacity,
           capacity'.status = "MEASURED_PENDING_DUT_RETURN"
    PROVE  endpoints = "direct" /\ ~restarted /\ ~unconf /\ Quiet
<1>1. EndpointsRun
  <2>1. CASE OpenInstall \/ Briefly
    BY <2>1 DEF OpenInstall, InstallBegins, Briefly, CheckIsolation, CaptureAnchor, Finalize, capVars
  <2>2. CASE OpenCapacity \/ DockerRestarts \/ Crash
    BY <2>2 DEF OpenCapacity, CapacityBegins, DockerRestarts, EndpointRestarts, Crash, capVars
  <2>3. CASE \/ OpenWindow \/ OpenMatrix \/ WindowRuns \/ CloseWindow \/ MatrixRuns \/ CloseMatrix
             \/ ExecutorRuns \/ JobsRun \/ UNCHANGED vars
    BY <2>3 DEF OpenWindow, OpenMatrix, WindowRuns, CloseWindow, MatrixRuns, CloseMatrix,
                ExecutorRuns, JobsRun, endpointVars, capVars, vars
  <2>4. QED BY <2>1, <2>2, <2>3 DEF Next
<1>2. ~CapacityEnds(FALSE)
  BY DEF CapacityEnds
<1>3. CapacityJudges
  <2>1. ~InstallRecords /\ ~InstallPromotes /\ ~InstallVerifies /\ ~InstallFails
    BY DEF InstallRecords, InstallPromotes, InstallVerifies, InstallFails, capVars
  <2>2. ~CapacityInspects /\ ~CapacityLoaded /\ ~CapacityRecovers
    BY <1>2 DEF CapacityInspects, CapacityLoaded, CapacityRecovers, capVars
  <2>3. QED BY <1>1, <2>1, <2>2 DEF EndpointsRun, EndpointStep
<1>4. cpc = "judge" /\ ~restarted
  <2>1. PICK measured \in BOOLEAN : (measured => ~restarted) /\ CapacityEnds(measured)
    BY <1>3 DEF CapacityJudges
  <2>2. measured
    BY <1>2, <2>1
  <2>3. QED BY <1>3, <2>1, <2>2 DEF CapacityJudges
<1>5. endpoints = "direct" /\ ~unconf
  BY <1>4 DEF IInv, PathKept
<1>6. Owned = {}
  BY <1>4 DEF IInv, Control, StopsSound, Owned
<1>7. QED BY <1>4, <1>5, <1>6 DEF IInv, NoSilentLeftover, Quiet

\* The final capacity receipt vouches for endpoints that are back as measured.
LEMMA FinalTrue ==
    ASSUME IInv, [Next]_vars, final' # final
    PROVE  /\ final' = capacity.on /\ final' = config /\ endpoints = "ngfw"
           /\ isolation = [age |-> "fresh", on |-> final']
<1>1. Finalize
  <2>1. CASE OpenInstall \/ Briefly
    BY <2>1 DEF OpenInstall, InstallBegins, Briefly, CheckIsolation, CaptureAnchor, capVars
  <2>2. CASE OpenCapacity \/ DockerRestarts \/ Crash
    BY <2>2 DEF OpenCapacity, CapacityBegins, DockerRestarts, EndpointRestarts, Crash, capVars
  <2>3. CASE \/ OpenWindow \/ OpenMatrix \/ WindowRuns \/ CloseWindow \/ MatrixRuns \/ CloseMatrix
             \/ ExecutorRuns \/ JobsRun \/ UNCHANGED vars
    BY <2>3 DEF OpenWindow, OpenMatrix, WindowRuns, CloseWindow, MatrixRuns, CloseMatrix,
                ExecutorRuns, JobsRun, endpointVars, capVars, vars
  <2>4. CASE EndpointsRun
    BY <2>4 DEF EndpointsRun, EndpointStep, InstallRecords, InstallPromotes, InstallVerifies, InstallFails,
         CapacityInspects, CapacityLoaded, CapacityRecovers, CapacityJudges, CapacityEnds, capVars
  <2>5. QED BY <2>1, <2>2, <2>3, <2>4 DEF Next
<1>2. isolation \in [age : {"none", "old", "fresh"}, on : Configs \cup {"none"}]
  BY DEF IInv, TypeOK, EndpointsTypeOK
<1>3. isolation = [age |-> isolation.age, on |-> isolation.on]
  BY <1>2
<1>4. QED BY <1>1, <1>3 DEF Finalize, Isolated

\* A matrix is recorded as completed only with the rows of its whole ladder.
LEMMA CompletedLadder ==
    ASSUME IInv, [Next]_vars, mdisk' # mdisk, mdisk' = "completed"
    PROVE  LadderSound
<1>1. CloseMatrix
  BY DEF Next, OpenWindow, OpenMatrix, MatrixOpen, OpenCapacity, OpenInstall, Briefly, WindowRuns,
         CloseWindow, MatrixRuns, MatrixStep, MatrixStart, StepSkipped, StepLaunches,
         WindowFinishes, WindowBreaks, BrokenStops, Idles, LadderEnds,
         EndpointsRun, ExecutorRuns, JobsRun, DockerRestarts, Crash, matrixVars, vars
<1>2. mpc = "finish"
  BY <1>1 DEF CloseMatrix, MatrixClose
<1>3. \A i \in DOMAIN Ladder : i < step
  BY <1>2, LadderAssumption DEF IInv, StageSound, TypeOK, MatrixTypeOK
<1>4. rows \subseteq [step : DOMAIN Ladder, attempt : 1..2, status : Statuses]
  BY DEF IInv, TypeOK, MatrixTypeOK
<1>5. \A r \in rows : r.attempt = 2 => [r EXCEPT !.attempt = 1, !.status = "WARN"] \in rows
  <2>1. ASSUME NEW r \in rows
        PROVE  [r EXCEPT !.attempt = 1, !.status = "WARN"] = FirstWarned(r.step)
    <3> DEFINE e == [r EXCEPT !.attempt = 1, !.status = "WARN"]
    <3>1. e \in [step : DOMAIN Ladder, attempt : 1..2, status : Statuses]
      <4>1. r \in [step : DOMAIN Ladder, attempt : 1..2, status : Statuses]
        BY <1>4
      <4>2. 1 \in 1..2 /\ "WARN" \in Statuses
        BY DEF Statuses
      <4>3. [r EXCEPT !.attempt = 1] \in [step : DOMAIN Ladder, attempt : 1..2, status : Statuses]
        BY <4>1, <4>2
      <4>4. QED BY <4>2, <4>3
    <3>2. e.step = r.step /\ e.attempt = 1 /\ e.status = "WARN"
      BY <1>4
    <3> HIDE DEF e
    <3>3. e = [step |-> e.step, attempt |-> e.attempt, status |-> e.status]
      BY <3>1
    <3>4. e = FirstWarned(r.step)
      BY <3>2, <3>3 DEF FirstWarned
    <3>5. QED BY <3>4 DEF e
  <2>2. QED BY <2>1 DEF IInv, RowsSound
<1>6. QED BY <1>3, <1>5 DEF LadderSound, IInv, RowsSound, Kept, StopIsLast

\* The four receipts of the lab, at the step that writes them.
THEOREM ReceiptsTrue == Spec => ReceiptsSound
<1>1. ASSUME IInv, [Next]_vars
      PROVE  [ /\ (wdisk' # wdisk /\ wdisk' = "COMPLETED") =>
                    wrec = "RECOVERED" /\ ~unconf /\ Quiet
               /\ (capacity' # capacity /\ capacity'.status = "MEASURED_PENDING_DUT_RETURN") =>
                    endpoints = "direct" /\ ~restarted /\ ~unconf /\ Quiet
               /\ final' # final =>
                    /\ final' = capacity.on /\ final' = config /\ endpoints = "ngfw"
                    /\ isolation = [age |-> "fresh", on |-> final']
               /\ (mdisk' # mdisk /\ mdisk' = "completed") => LadderSound
             ]_vars
  BY <1>1, CompletedTrue, MeasuredTrue, FinalTrue, CompletedLadder
<1>2. QED BY <1>1, Invariant, PTL DEF Spec, ReceiptsSound

-----------------------------------------------------------------------------
(* The refinement of LoadControl: what the lab does to jobs, seen through      *)
(* their phases.                                                               *)

Phases == [s \in Slots |-> LoadPhase(s)]
Sending == {s \in Slots : child[s] = "alive"}
Stopped == {s \in Slots : cancel[s]}
Answered == {s \in Slots : stopper[s] = "done"}

\* A step that changes what is seen of one load at most.
Only(s) ==
    \A t \in Slots \ {s} :
        /\ LoadPhase(t)' = LoadPhase(t)
        /\ child'[t] = child[t] /\ cancel'[t] = cancel[t] /\ stopper'[t] = stopper[t]

LEMMA OneSeen ==
    ASSUME NEW s \in Slots, Only(s)
    PROVE  /\ Phases' = [Phases EXCEPT ![s] = LoadPhase(s)']
           /\ Sending' = IF child'[s] = "alive" THEN Sending \cup {s} ELSE Sending \ {s}
           /\ Stopped' = IF cancel'[s] THEN Stopped \cup {s} ELSE Stopped \ {s}
           /\ Answered' = IF stopper'[s] = "done" THEN Answered \cup {s} ELSE Answered \ {s}
<1>1. Phases' = [t \in Slots |-> LoadPhase(t)']
  BY DEF Phases
<1>2. Phases' = [Phases EXCEPT ![s] = LoadPhase(s)']
  BY <1>1 DEF Phases, Only
<1>3. Sending' = IF child'[s] = "alive" THEN Sending \cup {s} ELSE Sending \ {s}
  BY DEF Sending, Only
<1>4. Stopped' = IF cancel'[s] THEN Stopped \cup {s} ELSE Stopped \ {s}
  BY DEF Stopped, Only
<1>5. Answered' = IF stopper'[s] = "done" THEN Answered \cup {s} ELSE Answered \ {s}
  BY DEF Answered, Only
<1>6. QED BY <1>2, <1>3, <1>4, <1>5

\* Nothing of this one either.
LEMMA NothingSeen ==
    ASSUME NEW s \in Slots, Only(s), LoadPhase(s)' = LoadPhase(s), child'[s] = child[s],
           cancel'[s] = cancel[s], stopper'[s] = "done" <=> stopper[s] = "done"
    PROVE  UNCHANGED <<Phases, Sending, Stopped, Answered>>
<1>1. Phases' = [Phases EXCEPT ![s] = LoadPhase(s)]
  BY OneSeen
<1>2. Phases' = Phases
  BY <1>1 DEF Phases
<1>3. UNCHANGED <<Sending, Stopped, Answered>>
  BY DEF Sending, Stopped, Answered, Only
<1>4. QED BY <1>2, <1>3

LEMMA PhaseOf ==
    ASSUME NEW s \in Slots, JobsTypeOK
    PROVE  /\ LoadPhase(s) = "none" <=> run[s] \in Over
           /\ LoadPhase(s) = "asked" <=> run[s] \in {"requested", "checked"}
           /\ LoadPhase(s) = "begun" <=> run[s] \in {"spawned", "marked"}
           /\ LoadPhase(s) = "kept" <=> run[s] = "waiting"
           /\ Phases[s] = LoadPhase(s)
BY DEF LoadPhase, JobsTypeOK, Over, Marked, Phases

\* What a step that changes one load may be, as the contract has it.
LEMMA OneSlotControl ==
    ASSUME JobsSound, JobsTypeOK', NEW s \in Slots,
           \/ JobStep(s) \/ ChildEnds(s)
           \/ ClientEnds(s) \/ ExecLost(s) \/ StopTouch(s) \/ StopKill(s)
    PROVE  [Loads!Next]_(Loads!vars)
<1> DEFINE P == LoadPhase(s)
<1>1. SlotSound(s) /\ JobsTypeOK
  BY DEF JobsSound, SlotsSound
<1>2. \A t \in Slots \ {s} :
         /\ child'[t] = child[t] /\ cancel'[t] = cancel[t]
         /\ run'[t] = run[t] /\ stopper'[t] = stopper[t]
  <2>1. CASE RunStart(s) \/ RunSpawn(s) \/ RunMark(s) \/ RunLook(s) \/ RunWait(s)
    BY <1>1, <2>1 DEF RunStart, RunSpawn, RunMark, RunLook, RunWait, Exits, Told, JobsTypeOK
  <2>2. CASE ChildEnds(s) \/ ClientEnds(s) \/ ExecLost(s) \/ StopTouch(s) \/ StopKill(s)
    BY <1>1, <2>2 DEF ChildEnds, ClientEnds, ExecLost, StopTouch, StopKill, Told, JobsTypeOK
  <2>3. QED BY <2>1, <2>2 DEF JobStep
<1>3. Only(s)
  BY <1>2 DEF Only, LoadPhase
<1>4. /\ P = "none" <=> run[s] \in Over
      /\ P = "asked" <=> run[s] \in {"requested", "checked"}
      /\ P = "begun" <=> run[s] \in {"spawned", "marked"}
      /\ P = "kept" <=> run[s] = "waiting"
      /\ Phases[s] = P
  BY <1>1, PhaseOf
<1>5. /\ P' = "none" <=> run'[s] \in Over
      /\ P' = "asked" <=> run'[s] \in {"requested", "checked"}
      /\ P' = "begun" <=> run'[s] \in {"spawned", "marked"}
      /\ P' = "kept" <=> run'[s] = "waiting"
  BY DEF LoadPhase, JobsTypeOK, Over, Marked
<1> HIDE DEF P
<1>6. /\ Phases' = [Phases EXCEPT ![s] = P']
      /\ Sending' = IF child'[s] = "alive" THEN Sending \cup {s} ELSE Sending \ {s}
      /\ Stopped' = IF cancel'[s] THEN Stopped \cup {s} ELSE Stopped \ {s}
      /\ Answered' = IF stopper'[s] = "done" THEN Answered \cup {s} ELSE Answered \ {s}
  BY <1>3, OneSeen DEF P
<1>7. /\ s \in Sending <=> child[s] = "alive"
      /\ s \in Stopped <=> cancel[s]
      /\ s \in Answered <=> stopper[s] = "done"
  BY DEF Sending, Stopped, Answered
<1>8. P' = P => Phases' = Phases
  BY <1>4, <1>6 DEF Phases
\* ... the job is over.
<1>9. ASSUME run[s] \notin Over, run'[s] \in Over, child'[s] # "alive", ~cancel'[s],
             stopper'[s] = stopper[s]
      PROVE  Loads!End(s)
  <2>1. Phases[s] # "none" /\ P' = "none"
    BY <1>4, <1>5, <1>9
  <2>2. Answered' = Answered
    BY <1>6, <1>7, <1>9
  <2>3. QED BY <1>6, <1>9, <2>1, <2>2 DEF Loads!End, Phases, Sending, Stopped, Answered
<1>10. ASSUME UNCHANGED <<child, cancel>>, P' = P, stopper'[s] = "done" <=> stopper[s] = "done"
       PROVE  UNCHANGED Loads!vars
  BY <1>3, <1>10, NothingSeen DEF P, Loads!vars, Phases, Sending, Stopped, Answered
<1>11. CASE RunStart(s) \/ RunLook(s)
  <2>1. CASE cancel[s]
    <3>1. /\ run[s] \notin Over /\ run'[s] \in Over /\ child'[s] = "none" /\ ~cancel'[s]
          /\ stopper' = stopper
      BY <1>1, <1>11, <2>1 DEF RunStart, RunLook, Exits, Told, Over, JobsTypeOK
    <3>2. QED BY <1>9, <3>1 DEF Loads!Next
  <2>2. CASE ~cancel[s] /\ RunStart(s)
    <3>1. P' = P /\ UNCHANGED <<child, cancel, stopper>>
      BY <1>1, <1>4, <1>5, <2>2 DEF RunStart, JobsTypeOK
    <3>2. QED BY <1>10, <3>1
  <2>3. CASE ~cancel[s] /\ RunLook(s)
    <3>1. P = "begun" /\ P' = "kept" /\ s \notin Stopped /\ UNCHANGED <<child, cancel, stopper>>
      BY <1>1, <1>4, <1>5, <1>7, <2>3 DEF RunLook, JobsTypeOK
    <3>2. UNCHANGED <<Sending, Stopped, Answered>>
      BY <3>1 DEF Sending, Stopped, Answered
    <3>3. Loads!Keep(s)
      BY <1>4, <1>6, <3>1, <3>2 DEF Loads!Keep, Phases, Sending, Stopped, Answered
    <3>4. QED BY <3>3 DEF Loads!Next
  <2>4. QED BY <1>11, <2>1, <2>2, <2>3
<1>12. CASE RunSpawn(s)
  <2>1. P = "asked" /\ P' = "begun" /\ child'[s] = "alive" /\ UNCHANGED <<cancel, stopper>>
    BY <1>1, <1>4, <1>5, <1>12 DEF RunSpawn, JobsTypeOK
  <2>2. UNCHANGED <<Stopped, Answered>>
    BY <2>1 DEF Stopped, Answered
  <2>3. Loads!Begin(s)
    BY <1>4, <1>6, <2>1, <2>2 DEF Loads!Begin, Phases, Sending, Stopped, Answered
  <2>4. QED BY <2>3 DEF Loads!Next
<1>13. CASE RunMark(s)
  <2>1. P' = P /\ UNCHANGED <<child, cancel, stopper>>
    BY <1>1, <1>4, <1>5, <1>13 DEF RunMark, JobsTypeOK
  <2>2. QED BY <1>10, <2>1
<1>14. CASE RunWait(s) \/ ExecLost(s)
  <2>1. /\ run[s] \notin Over /\ run'[s] \in Over /\ child'[s] = "none" /\ ~cancel'[s]
        /\ stopper' = stopper
    BY <1>1, <1>14 DEF RunWait, ExecLost, Exits, Told, Over, JobsTypeOK, SlotSound
  <2>2. QED BY <1>9, <2>1 DEF Loads!Next
<1>15. CASE ChildEnds(s)
  <2>1. /\ child[s] = "alive" /\ child'[s] # "alive" /\ P' = P
        /\ UNCHANGED <<run, cancel, stopper>>
    BY <1>1, <1>15 DEF ChildEnds, JobsTypeOK, P, LoadPhase
  <2>2. UNCHANGED <<Phases, Stopped, Answered>>
    BY <1>8, <2>1 DEF Stopped, Answered
  <2>3. Loads!Silence(s)
    BY <1>6, <1>7, <2>1, <2>2 DEF Loads!Silence, Phases, Sending, Stopped, Answered
  <2>4. QED BY <2>3 DEF Loads!Next
<1>16. CASE ClientEnds(s)
  <2>1. P' = P /\ UNCHANGED <<child, cancel, stopper>>
    BY <1>16 DEF ClientEnds, P, LoadPhase
  <2>2. QED BY <1>10, <2>1
<1>17. CASE StopTouch(s)
  <2>1. /\ P' = P /\ UNCHANGED <<run, child>> /\ (cancel'[s] <=> run[s] \notin Over)
        /\ stopper[s] # "done" /\ stopper'[s] # "done"
    <3>1. (run[s] \notin Over) \in BOOLEAN
      OBVIOUS
    <3>2. QED BY <1>1, <1>17, <3>1 DEF StopTouch, JobsTypeOK, P, LoadPhase
  <2>2. UNCHANGED <<Phases, Sending, Answered>>
    BY <1>6, <1>7, <1>8, <2>1 DEF Sending
  <2>3. CASE run[s] \in Over
    <3>1. Stopped' = Stopped
      BY <1>1, <1>6, <1>7, <2>1, <2>3 DEF SlotSound
    <3>2. QED BY <2>2, <3>1 DEF Loads!vars, Phases, Sending, Stopped, Answered
  <2>4. CASE run[s] \notin Over
    <3>1. Phases[s] # "none" /\ Stopped' = Stopped \cup {s}
      BY <1>4, <1>6, <2>1, <2>4
    <3>2. Loads!Stop(s)
      BY <2>2, <3>1 DEF Loads!Stop, Phases, Sending, Stopped, Answered
    <3>3. QED BY <3>2 DEF Loads!Next
  <2>5. QED BY <2>3, <2>4
<1>18. CASE StopKill(s)
  <2>1. /\ stopper[s] = "touched" /\ stopper'[s] \in {"done", "idle"}
        /\ P' = P /\ UNCHANGED <<run, cancel>>
        /\ child'[s] = IF run[s] \in Marked /\ child[s] = "alive" THEN "bad" ELSE child[s]
    BY <1>1, <1>18 DEF StopKill, Told, JobsTypeOK, P, LoadPhase
  <2>2. UNCHANGED <<Phases, Stopped>>
    BY <1>8, <2>1 DEF Stopped
  <2>3. Sending' \in {Sending, Sending \ {s}} /\ (P = "kept" => s \notin Sending')
    BY <1>4, <1>6, <1>7, <2>1 DEF Marked
  <2>4. CASE stopper'[s] = "done"
    <3>1. Answered' = Answered \cup {s}
      BY <1>6, <2>4
    <3>2. P \in {"asked", "begun"} => s \in Stopped
      BY <1>1, <1>4, <1>7, <2>1 DEF SlotSound, Over
    <3>3. Loads!Answer(s)
      BY <1>4, <2>2, <2>3, <3>1, <3>2 DEF Loads!Answer, Phases, Sending, Stopped, Answered
    <3>4. QED BY <3>3 DEF Loads!Next
  <2>5. CASE stopper'[s] = "idle"
    <3>1. Answered' = Answered
      BY <1>6, <1>7, <2>1, <2>5
    <3>2. CASE Sending' = Sending
      BY <2>2, <3>1, <3>2 DEF Loads!vars, Phases, Sending, Stopped, Answered
    <3>3. CASE Sending' # Sending
      <4>1. s \in Sending /\ Sending' = Sending \ {s}
        BY <2>3, <3>3
      <4>2. Loads!Silence(s)
        BY <2>2, <3>1, <4>1 DEF Loads!Silence, Phases, Sending, Stopped, Answered
      <4>3. QED BY <4>2 DEF Loads!Next
    <3>4. QED BY <3>2, <3>3
  <2>6. QED BY <2>1, <2>4, <2>5
<1>19. QED BY <1>11, <1>12, <1>13, <1>14, <1>15, <1>16, <1>17, <1>18 DEF JobStep

\* A new load has nothing of the last one in its slot but an unread answer.
LEMMA PopenControl ==
    ASSUME JobsSound, JobsTypeOK', NEW s \in Slots, Popen(s)
    PROVE  Loads!Launch(s)
<1>1. SlotSound(s) /\ JobsTypeOK
  BY DEF JobsSound, SlotsSound
<1>2. /\ run[s] \in Over /\ run'[s] = "requested" /\ stopper'[s] = "idle"
      /\ child' = child /\ cancel' = cancel
  BY <1>1 DEF Popen, Unused, JobsTypeOK
<1>3. \A t \in Slots \ {s} : run'[t] = run[t] /\ stopper'[t] = stopper[t]
  BY <1>1 DEF Popen, JobsTypeOK
<1>4. Only(s)
  BY <1>2, <1>3 DEF Only, LoadPhase
<1>5. Phases[s] = "none" /\ LoadPhase(s)' = "asked"
  BY <1>1, <1>2, PhaseOf DEF LoadPhase, Over
<1>6. Phases' = [Phases EXCEPT ![s] = "asked"] /\ Answered' = Answered \ {s}
  BY <1>2, <1>4, <1>5, OneSeen
<1>7. UNCHANGED <<Sending, Stopped>>
  BY <1>2 DEF Sending, Stopped
<1>8. QED BY <1>5, <1>6, <1>7 DEF Loads!Launch, Phases, Sending, Stopped, Answered

\* Answers go, and nothing else is seen.
LEMMA AnswersGo ==
    ASSUME JobsTypeOK, UNCHANGED <<child, cancel>>,
           \A s \in Slots : /\ LoadPhase(s)' = LoadPhase(s)
                            /\ stopper'[s] = "done" => stopper[s] = "done"
    PROVE  Loads!Forget
<1>1. UNCHANGED <<Phases, Sending, Stopped>>
  BY DEF Phases, Sending, Stopped
<1>2. Answered' \in SUBSET Answered
  BY DEF Answered
<1>3. QED BY <1>1, <1>2 DEF Loads!Forget, Phases, Sending, Stopped, Answered

LEMMA MoveControl ==
    ASSUME JobsSound, JobsMove
    PROVE  [Loads!Next]_(Loads!vars)
<1> USE DEF JobsSound
<1>1. JobsTypeOK'
  BY MoveKeeps DEF JobsKept
<1>2. CASE UNCHANGED jobVars
  BY <1>2 DEF jobVars, Loads!vars, LoadPhase
<1>3. CASE JobsNext
  BY <1>1, <1>3, OneSlotControl DEF JobsNext
<1>4. CASE \E s \in Slots : Popen(s) /\ s \in Owned' /\ xpc \notin {"stop", "back"}
  BY <1>1, <1>4, PopenControl DEF Loads!Next
<1>5. CASE \E s \in Slots : StopAsked(s)
  <2>1. PICK s \in Slots : StopAsked(s)
    BY <1>5
  <2>2. \A t \in Slots : stopper'[t] = "done" => stopper[t] = "done"
    BY <2>1 DEF StopAsked, JobsTypeOK
  <2>3. Loads!Forget
    BY <2>1, <2>2, AnswersGo DEF StopAsked, LoadPhase
  <2>4. QED BY <2>3 DEF Loads!Next
<1>6. CASE \E stops \in Stoppers :
             (\A s \in Slots : stops[s] \in {stopper[s], "lost"}) /\ Forget(stops)
  <2>1. PICK stops \in Stoppers : Forget(stops)
    BY <1>6
  <2>2. \A t \in Slots : stopper'[t] # "done" /\ LoadPhase(t)' = LoadPhase(t)
    BY <2>1 DEF Forget, LoadPhase, Over
  <2>3. Loads!Forget
    BY <2>1, <2>2, AnswersGo DEF Forget
  <2>4. QED BY <2>3 DEF Loads!Next
<1>7. CASE \E mode \in Modes : Recreate(mode)
  <2>1. PICK mode \in Modes : Recreate(mode)
    BY <1>7
  <2>2. \A t \in Slots : /\ run'[t] \in Over /\ child'[t] = "none" /\ ~cancel'[t]
                         /\ stopper'[t] = "done" <=> stopper[t] = "done"
    BY <2>1 DEF Recreate, Over
  <2>3. Phases' = [s \in Slots |-> "none"] /\ Sending' = {} /\ Stopped' = {}
    <3>1. \A t \in Slots : LoadPhase(t)' = "none"
      BY <2>2 DEF LoadPhase, Over
    <3>2. Phases' = [t \in Slots |-> LoadPhase(t)']
      BY DEF Phases
    <3>3. Phases' = [s \in Slots |-> "none"]
      BY <3>1, <3>2
    <3>4. Sending' = {} /\ Stopped' = {}
      BY <2>2 DEF Sending, Stopped
    <3>5. QED BY <3>3, <3>4
  <2>4. Answered' = Answered
    BY <2>2 DEF Answered
  <2>5. Loads!EndAll
    BY <2>3, <2>4 DEF Loads!EndAll, Phases, Sending, Stopped, Answered
  <2>6. QED BY <2>5 DEF Loads!Next
<1>8. QED BY <1>2, <1>3, <1>4, <1>5, <1>6, <1>7 DEF JobsMove

\* All controllers together keep to the contract of job.py.
THEOREM LabImplementsLoadControl == Spec => ImplementsLoadControl
<1>1. Init => Loads!Init
  <2>1. ASSUME Init PROVE Loads!Init
    <3>1. /\ Phases = [s \in Slots |-> "none"] /\ Sending = {} /\ Stopped = {}
          /\ Answered = {}
      BY <2>1 DEF Init, JobsInit, Phases, Sending, Stopped, Answered, LoadPhase, Over
    <3>2. QED BY <3>1 DEF Loads!Init, Phases, Sending, Stopped, Answered
  <2>2. QED BY <2>1
<1>2. IInv /\ [Next]_vars => [Loads!Next]_(Loads!vars)
  BY StepMoves, MoveControl DEF IInv, TypeOK, JobsSound
<1>3. QED BY <1>1, <1>2, Invariant, PTL DEF Spec, ImplementsLoadControl, Loads!Spec
=============================================================================
