-------------------------------- MODULE Lab ---------------------------------
(* The NGFW lab: the traffic matrix, the extreme window, the endpoint switch  *)
(* and the direct-path capacity run share one pair of endpoints and one flock *)
(* on .runner.lock.  The kernel frees the lock with the process that held it: *)
(* a controller that is killed leaves its loads to their watchdogs, and the   *)
(* next invocation may begin while they run.                                  *)
EXTENDS Window, Endpoints, Matrix

CONSTANTS
    MaxWork,        \* bound: a load costs two of it, an endpoint switch one,
                    \* and a load of several components, tried first, all of it
    MaxCrashes      \* bound: controllers killed

VARIABLES
    lock,       \* who holds .runner.lock
    noted,      \* a report of an earlier load names an unconfirmed stop
    work, crashes   \* the bounded counters

labVars == <<lock, noted, work, crashes>>
vars == <<jobVars, execVars, windowVars, endpointVars, matrixVars, labVars>>

ASSUME LabBounds ==
    /\ MaxWork \in Nat /\ MaxCrashes \in Nat
    /\ Width \in Nat \ {0} /\ Installed \subseteq {"legacy", "ngfw"}

Holders == {"free", "window", "matrix", "capacity", "install"}

TypeOK ==
    /\ JobsTypeOK /\ ExecTypeOK /\ WindowTypeOK /\ EndpointsTypeOK /\ MatrixTypeOK
    /\ lock \in Holders /\ noted \in BOOLEAN
    /\ work \in 0..MaxWork /\ crashes \in 0..MaxCrashes

Init ==
    /\ JobsInit /\ ExecInit /\ WindowInit /\ EndpointsInit /\ MatrixInit
    /\ lock = "free" /\ noted = FALSE
    /\ work = 0 /\ crashes = 0

-----------------------------------------------------------------------------
(* Invocations: each takes the lock or fails at once.  A load has a new report *)
(* directory; the receipts of earlier ones are read by nobody but finalize.    *)

Load(who) ==
    /\ lock = "free" /\ work + 2 <= MaxWork
    /\ lock' = who /\ work' = work + 2
    /\ noted' = (noted \/ unconf \/ mgap)
    /\ unconf' = FALSE
    /\ UNCHANGED <<crashes, jobVars, xpc, want, jobs, at, xerr>>

OpenWindow ==
    /\ Load("window")
    /\ WindowOpen
    /\ mgap' = FALSE /\ mdisk' = "none"
    /\ UNCHANGED <<endpointVars, mpc, step, attempt, job, pend, stopped, rows>>

\* The matrix accepts its isolation evidence before it has a report directory.
OpenMatrix ==
    /\ Load("matrix")
    /\ Isolated
    /\ MatrixOpen
    /\ wdisk' = "none"
    /\ UNCHANGED <<endpointVars, wpc, wout, wrec, wbase, wbefore, streak>>

OpenCapacity ==
    /\ Load("capacity")
    /\ CapacityBegins
    /\ mgap' = FALSE /\ mdisk' = "none" /\ wdisk' = "none"
    /\ UNCHANGED <<wpc, wout, wrec, wbase, wbefore, streak,
                   mpc, step, attempt, job, pend, stopped, rows>>

OpenInstall ==
    /\ lock = "free" /\ work < MaxWork
    /\ lock' = "install" /\ work' = work + 1
    /\ \E mode \in {"legacy", "ngfw", "direct"} : InstallBegins(mode)
    /\ UNCHANGED <<windowVars, matrixVars, noted, crashes>>

\* Invocations of a single step.
Briefly ==
    /\ lock = "free"
    /\ CheckIsolation \/ CaptureAnchor \/ Finalize
    /\ UNCHANGED <<windowVars, matrixVars, labVars>>

-----------------------------------------------------------------------------
Wide == want <= 1 /\ want' > 1

Spend ==
    /\ Wide => work <= 2
    /\ work' = IF Wide THEN MaxWork ELSE work

WindowRuns ==
    /\ lock = "window"
    /\ WindowPreflight(Isolated) \/ WindowStep
    /\ Spend
    /\ UNCHANGED <<endpointVars, matrixVars, lock, noted, crashes>>

CloseWindow ==
    /\ lock = "window"
    /\ WindowClose
    /\ lock' = "free"
    /\ UNCHANGED <<endpointVars, matrixVars, noted, work, crashes>>

MatrixRuns ==
    /\ lock = "matrix"
    /\ MatrixStep
    /\ UNCHANGED <<execVars, windowVars, endpointVars, labVars>>

CloseMatrix ==
    /\ lock = "matrix"
    /\ MatrixClose
    /\ lock' = "free"
    /\ UNCHANGED <<execVars, windowVars, endpointVars, noted, work, crashes>>

\* The switch and the capacity run let go of the lock with their last step.
EndpointsRun ==
    /\ lock \in {"install", "capacity"}
    /\ EndpointStep
    /\ lock' = IF cpc' = "idle" THEN "free" ELSE lock
    /\ Spend
    /\ UNCHANGED <<windowVars, matrixVars, noted, crashes>>

ExecutorRuns ==
    /\ ExecStep
    /\ UNCHANGED <<windowVars, endpointVars, matrixVars, labVars>>

JobsRun ==
    /\ JobsNext
    /\ UNCHANGED <<execVars, windowVars, endpointVars, matrixVars, labVars>>

DockerRestarts ==
    /\ EndpointRestarts
    /\ UNCHANGED <<windowVars, matrixVars, labVars>>

\* The controller is killed.  What it wrote stays, what it knew is gone; nobody
\* polls its exec clients any more.
Crash ==
    /\ lock # "free" /\ crashes < MaxCrashes
    /\ lock' = "free" /\ crashes' = crashes + 1
    /\ WindowOver /\ MatrixOver /\ ExecOver /\ Forget(stopper)
    /\ cpc' = "idle" /\ candidate' = "none"
    /\ UNCHANGED <<wdisk, mgap, mdisk, switchVars, capVars, noted, work>>

Next ==
    \/ OpenWindow \/ OpenMatrix \/ OpenCapacity \/ OpenInstall \/ Briefly
    \/ WindowRuns \/ CloseWindow \/ MatrixRuns \/ CloseMatrix \/ EndpointsRun
    \/ ExecutorRuns \/ JobsRun \/ DockerRestarts \/ Crash

\* A controller goes on until it is killed; the normalisation has a deadline;
\* the scripts in the containers run, and their clients are reaped.
Fairness ==
    /\ WF_vars(WindowRuns) /\ WF_vars(CloseWindow)
    /\ WF_vars(MatrixRuns) /\ WF_vars(CloseMatrix)
    /\ WF_vars(EndpointsRun) /\ WF_vars(ExecutorRuns)
    /\ WF_vars(NormalizeFails /\ UNCHANGED <<endpointVars, matrixVars, labVars>>)
    /\ \A s \in Slots :
          WF_vars(JobStep(s) /\ UNCHANGED <<execVars, windowVars, endpointVars, matrixVars, labVars>>)

Spec == Init /\ [][Next]_vars

FairSpec == Spec /\ Fairness

-----------------------------------------------------------------------------
(* Properties.                                                               *)

Owned == {jobs[i] : i \in DOMAIN jobs} \cup ({job} \ {"none"})

\* A stop came before the job's own second look, which will end it.
Doomed(s) == cancel[s] /\ run[s] \in {"requested", "checked", "spawned", "marked"}

\* What the reports admit: an unconfirmed stop, or a run without an end.
Excused == noted \/ unconf \/ mgap \/ crashes > 0

\* A load that nobody watches any more is one the report in hand, or an
\* earlier one, says may be running, or one whose cancellation is on its way
\* (stop_jobs, Runner._workload, job.py).  A killed controller reports nothing:
\* from the first of them on nothing is said here.
NoSilentLeftover ==
    \A s \in Slots \ Owned :
        child[s] = "alive" \/ run[s] \in {"requested", "checked"}
            => Doomed(s) \/ Excused

\* What the extreme tools installed or recorded is marked as theirs, whenever
\* they were killed, and in a lab so marked the ordinary role installs nothing;
\* the last switch recorded as installed is what runs (in a lab marked before
\* its first switch was recorded, still the ordinary one); and no load runs over
\* the wrong path: a window and a matrix never over the direct network, a
\* capacity run never through the appliance.
PathTruth ==
    /\ {endpoints, switch.mode} \cap {"direct", "ngfw"} # {} => managed
    /\ candidate = "legacy" => ~managed
    /\ switch.status = "INSTALLED" => endpoints = switch.mode
    /\ \A s \in Owned : child[s] = "alive" =>
          IF lock = "capacity" THEN endpoints = "direct"
          ELSE endpoints \in {"legacy", "ngfw"}

Quiet == \A s \in Slots : child[s] = "alive" => Doomed(s) \/ Excused

\* Rows of a matrix that ran to its end: every step has one or is of a kind
\* that an earlier step stopped, nothing of a stopped kind was run again, and
\* only a warning was repeated.
LadderSound ==
    /\ \A i \in DOMAIN Ladder : \E r \in rows :
          r.step = i \/ (r.step < i /\ Ladder[r.step] = Ladder[i] /\ r.status = "STOP")
    /\ \A r \in rows : r.status = "STOP" =>
          \A q \in rows : Ladder[q.step] = Ladder[r.step] =>
              q.step < r.step \/ (q.step = r.step /\ q.attempt <= r.attempt)
    /\ \A r \in rows : r.attempt = 2 => [r EXCEPT !.attempt = 1, !.status = "WARN"] \in rows

\* A receipt is written only over what it says.  COMPLETED: the load was seen
\* to stop and the laboratory to recover.  MEASURED_PENDING_DUT_RETURN: on the
\* direct path, as configured in the anchor, with no restart in between.  The
\* final capacity receipt: for endpoints that are back on the appliance's path
\* as they were measured, isolated since.  completed: a ladder run to its end.
ReceiptsSound ==
    [][ /\ (wdisk' # wdisk /\ wdisk' = "COMPLETED") =>
              wrec = "RECOVERED" /\ ~unconf /\ Quiet
        /\ (capacity' # capacity /\ capacity'.status = "MEASURED_PENDING_DUT_RETURN") =>
              endpoints = "direct" /\ ~restarted /\ ~unconf /\ Quiet
        /\ final' # final =>
              /\ final' = capacity.on /\ final' = config /\ endpoints = "ngfw"
              /\ isolation = [age |-> "fresh", on |-> final']
        /\ (mdisk' # mdisk /\ mdisk' = "completed") => LadderSound
      ]_vars

\* Where a job is, to its controller: job.py decides at its second look.
LoadPhase(s) ==
    CASE run[s] \in Over -> "none"
      [] run[s] \in {"requested", "checked"} -> "asked"
      [] run[s] \in {"spawned", "marked"} -> "begun"
      [] run[s] = "waiting" -> "kept"

Loads == INSTANCE LoadControl WITH
    phase <- [s \in Slots |-> LoadPhase(s)],
    sending <- {s \in Slots : child[s] = "alive"},
    doomed <- {s \in Slots : cancel[s]},
    answered <- {s \in Slots : stopper[s] = "done"}

\* Whatever the matrix, the window, the capacity run and the switch do with
\* their jobs, with clients lost, stops that race the start, controllers killed
\* and endpoints replaced: a load starts at most once, and once its stop was
\* answered it is silent for good or ended by its own job (job.py run and stop).
ImplementsLoadControl == Loads!Spec

\* Every invocation ends and frees the lock, and every load ends: by its stop,
\* by itself, or by the watchdog of its own job when its controller is gone.
LabSettles ==
    /\ (lock # "free") ~> (lock = "free")
    /\ \A s \in Slots : (child[s] = "alive") ~> (child[s] # "alive")
=============================================================================
