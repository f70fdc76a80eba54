------------------------------ MODULE LoadJobs ------------------------------
(* Traffic jobs in the lab's client container (ngfw_lab traffic/job.py) and  *)
(* the host side of them: the docker exec client the runner polls, and the   *)
(* remote "stop" script.  A job is a slot that is used again once nothing of *)
(* its last use is left.  The marker file of a job needs no variable: it     *)
(* exists from "spawned" to "closing" and holds the pid from "marked" on.    *)
EXTENDS Naturals, Sequences

CONSTANTS
    Slots,          \* jobs that may exist at the same time
    Installed       \* the endpoints the lab may start with

ASSUME SlotsAssumption == "none" \notin Slots

VARIABLES
    endpoints,  \* which Compose endpoints run: "legacy", "ngfw", "direct", "broken"
    local,      \* the docker exec client of a job, as Popen.poll shows it
    run,        \* where the in-container job.py run is, or its exit
    child,      \* the load generator it started
    cancel,     \* the .cancel file, while somebody may still read it
    stopper     \* the in-container job.py stop

jobVars == <<endpoints, local, run, child, cancel, stopper>>

Modes == {"legacy", "ngfw", "direct", "broken"}
Marked == {"marked", "waiting"}
Over == {"none", "zero", "bad", "lost"}

JobsTypeOK ==
    /\ endpoints \in Modes
    /\ local \in [Slots -> {"none", "running", "zero", "bad"}]
    /\ run \in [Slots -> Over \cup Marked \cup {"requested", "checked", "spawned"}]
    /\ child \in [Slots -> {"none", "alive", "zero", "bad"}]
    /\ cancel \in [Slots -> BOOLEAN]
    /\ stopper \in [Slots -> {"idle", "called", "touched", "done", "lost"}]

JobsInit ==
    /\ endpoints \in Installed
    /\ local = [s \in Slots |-> "none"]
    /\ run = [s \in Slots |-> "none"]
    /\ child = [s \in Slots |-> "none"]
    /\ cancel = [s \in Slots |-> FALSE]
    /\ stopper = [s \in Slots |-> "idle"]

\* Nothing of its last use is left, on the host or in the container.
Unused(s) ==
    local[s] = "none" /\ run[s] \in Over /\ stopper[s] \notin {"called", "touched"}

\* The host is done with its jobs: nobody asks for their exits any more.
Forget(stops) ==
    /\ local' = [s \in Slots |-> "none"]
    /\ run' = [s \in Slots |-> IF run[s] \in Over THEN "none" ELSE run[s]]
    /\ stopper' = [s \in Slots |-> IF stops[s] \in {"called", "touched"}
                                   THEN stops[s] ELSE "idle"]
    /\ UNCHANGED <<endpoints, child, cancel>>

-----------------------------------------------------------------------------
(* The host: a fresh job id, its docker exec client, and its remote stop.    *)

Popen(s) ==
    /\ Unused(s)
    /\ local' = [local EXCEPT ![s] = "running"]
    /\ run' = [run EXCEPT ![s] = "requested"]
    /\ stopper' = [stopper EXCEPT ![s] = "idle"]
    /\ UNCHANGED <<endpoints, child, cancel>>

\* The client reports the job's exit code, or dies of a lost connection while
\* the job goes on in the container.
ClientEnds(s) ==
    /\ local[s] = "running"
    /\ \/ run[s] \in {"zero", "bad"} /\ local' = [local EXCEPT ![s] = run[s]]
       \/ local' = [local EXCEPT ![s] = "bad"]
    /\ UNCHANGED <<endpoints, run, child, cancel, stopper>>

\* How a script ended, for a host that still asks.
Told(s, end, unasked) == IF local[s] = "none" THEN unasked ELSE end

\* An exec whose client is gone may never reach the container.
ExecLost(s) ==
    /\ run[s] = "requested" /\ local[s] # "running"
    /\ run' = [run EXCEPT ![s] = Told(s, "lost", "none")]
    /\ cancel' = [cancel EXCEPT ![s] = FALSE]
    /\ UNCHANGED <<endpoints, local, child, stopper>>

\* mutant: the stop reads the marker and leaves no .cancel file behind
StopTouchForgets(s) ==
    /\ stopper[s] = "called"
    /\ stopper' = [stopper EXCEPT ![s] = "touched"]
    /\ UNCHANGED <<endpoints, local, run, child, cancel>>

\* job.py stop touches the .cancel file first (nobody reads it any more once
\* the run is over) ...
StopTouch(s) ==
    /\ stopper[s] = "called"
    /\ stopper' = [stopper EXCEPT ![s] = "touched"]
    /\ cancel' = [cancel EXCEPT ![s] = run[s] \notin Over]
    /\ UNCHANGED <<endpoints, local, run, child>>

\* ... and then kills the process group the marker names, if it names one.
StopKill(s) ==
    /\ stopper[s] = "touched"
    /\ stopper' = [stopper EXCEPT ![s] = Told(s, "done", "idle")]
    /\ child' = [child EXCEPT ![s] =
                   IF run[s] \in Marked /\ @ = "alive" THEN "bad" ELSE @]
    /\ UNCHANGED <<endpoints, local, run, cancel>>

-----------------------------------------------------------------------------
(* job.py run inside the container.                                          *)

\* The end of a run: no child is left, the marker and .cancel are unlinked.
Exits(s, code) ==
    /\ run' = [run EXCEPT ![s] = Told(s, code, "none")]
    /\ child' = [child EXCEPT ![s] = "none"]
    /\ cancel' = [cancel EXCEPT ![s] = FALSE]

RunStart(s) ==
    /\ run[s] = "requested"
    /\ IF cancel[s] THEN Exits(s, "bad")
       ELSE run' = [run EXCEPT ![s] = "checked"] /\ UNCHANGED <<child, cancel>>
    /\ UNCHANGED <<endpoints, local, stopper>>

RunSpawn(s) ==
    /\ run[s] = "checked"
    /\ run' = [run EXCEPT ![s] = "spawned"]
    /\ child' = [child EXCEPT ![s] = "alive"]
    /\ UNCHANGED <<endpoints, local, cancel, stopper>>

RunMark(s) ==
    /\ run[s] = "spawned"
    /\ run' = [run EXCEPT ![s] = "marked"]
    /\ UNCHANGED <<endpoints, local, child, cancel, stopper>>

\* The second look at the .cancel file, after the pid is in the marker.
RunLook(s) ==
    /\ run[s] = "marked"
    /\ IF cancel[s] THEN Exits(s, "bad")
       ELSE run' = [run EXCEPT ![s] = "waiting"] /\ UNCHANGED <<child, cancel>>
    /\ UNCHANGED <<endpoints, local, stopper>>

\* mutant: the wait has no timeout
RunWaitNoWatchdog(s) ==
    /\ run[s] = "waiting"
    /\ child[s] # "alive"
    /\ Exits(s, IF child[s] = "zero" THEN "zero" ELSE "bad")
    /\ UNCHANGED <<endpoints, local, stopper>>

\* child.wait: the child's own code, or the watchdog's kill.
RunWait(s) ==
    /\ run[s] = "waiting"
    /\ Exits(s, IF child[s] = "zero" THEN "zero" ELSE "bad")
    /\ UNCHANGED <<endpoints, local, stopper>>

\* iperf3 or the request client ends by itself.
ChildEnds(s) ==
    /\ child[s] = "alive"
    /\ \E end \in {"zero", "bad"} : child' = [child EXCEPT ![s] = end]
    /\ UNCHANGED <<endpoints, local, run, cancel, stopper>>

JobStep(s) ==
    RunStart(s) \/ RunSpawn(s) \/ RunMark(s) \/ RunLook(s) \/ RunWait(s)

JobsNext ==
    \E s \in Slots :
        \/ JobStep(s) \/ ChildEnds(s)
        \/ ClientEnds(s) \/ ExecLost(s) \/ StopTouch(s) \/ StopKill(s)

\* docker compose up --force-recreate ends every process in the endpoints.
Recreate(mode) ==
    /\ endpoints' = mode
    /\ run' = [s \in Slots |-> IF run[s] \in Over THEN run[s] ELSE "lost"]
    /\ child' = [s \in Slots |-> "none"]
    /\ local' = [s \in Slots |-> IF local[s] = "running" THEN "bad" ELSE local[s]]
    /\ stopper' = [s \in Slots |-> IF stopper[s] \in {"called", "touched"}
                                   THEN "lost" ELSE stopper[s]]
    /\ cancel' = [s \in Slots |-> FALSE]
=============================================================================
