------------------------------ MODULE Executor ------------------------------
(* execute_components and stop_jobs of the extreme controller: launch every  *)
(* component of an offered load, watch them, and stop every sibling however  *)
(* the watch ends.  Its callers are one measurement window and one capacity  *)
(* run.                                                                      *)
EXTENDS LoadJobs

CONSTANT Width          \* components of the widest offered load

VARIABLES
    xpc,        \* "idle", "launch", "watch", "stop", "back" (to the caller)
    want,       \* components of this load
    jobs,       \* their slots, in launch order
    at,         \* the job stop_jobs is at
    xerr,       \* what ended the load: "none", "abort", "blocked"
    unconf      \* a gap "stop unconfirmed" is in the report

execVars == <<xpc, want, jobs, at, xerr, unconf>>

\* A legacy.Abort (operator, deadline, safety threshold) stops for safety; a
\* Blocked, an OSError or an INVALID window only spoils the measurement.
Errors == {"abort", "blocked"}

ExecTypeOK ==
    /\ xpc \in {"idle", "launch", "watch", "stop", "back"}
    /\ want \in 0..Width
    /\ jobs \in Seq(Slots) /\ Len(jobs) <= want
    /\ at \in 0..Width + 1
    /\ xerr \in Errors \cup {"none"}
    /\ unconf \in BOOLEAN

ExecInit ==
    /\ xpc = "idle" /\ want = 0 /\ jobs = <<>> /\ at = 0
    /\ xerr = "none" /\ unconf = FALSE

\* The process is over, and its variables with it.
ExecOver ==
    /\ xpc' = "idle" /\ want' = 0 /\ jobs' = <<>> /\ at' = 0
    /\ xerr' = "none" /\ unconf' = FALSE

\* The call, and the caller's read of how it ended.
Execute(n) ==
    /\ xpc \in {"idle", "back"}
    /\ xpc' = "launch" /\ want' = n /\ jobs' = <<>> /\ at' = 0 /\ xerr' = "none"
    /\ Forget(stopper)
    /\ UNCHANGED unconf

Collected ==
    /\ xpc = "back"
    /\ xpc' = "idle" /\ want' = 0 /\ jobs' = <<>> /\ at' = 0 /\ xerr' = "none"
    /\ Forget(stopper)
    /\ UNCHANGED unconf

Ended(err) ==
    /\ xpc' = "stop" /\ at' = 1 /\ xerr' = err
    /\ UNCHANGED <<want, jobs, unconf>>

-----------------------------------------------------------------------------
LaunchNext ==
    /\ xpc = "launch" /\ Len(jobs) < want
    /\ \E s \in Slots : Popen(s) /\ jobs' = Append(jobs, s)
    /\ UNCHANGED <<xpc, want, at, xerr, unconf>>

\* Popen raises, or the monitor() before the first launch does.
LaunchFails ==
    /\ xpc = "launch" /\ Len(jobs) < want
    /\ \E e \in Errors : (e = "abort" => jobs = <<>>) /\ Ended(e)
    /\ UNCHANGED jobVars

\* All components run; more than a second between the first and the last of
\* them spoils the window.
LaunchedAll ==
    /\ xpc = "launch" /\ Len(jobs) = want
    /\ \/ xpc' = "watch" /\ UNCHANGED <<want, jobs, at, xerr, unconf>>
       \/ want > 1 /\ Ended("blocked")
    /\ UNCHANGED jobVars

WatchFinds ==
    /\ xpc = "watch"
    /\ \E i \in DOMAIN jobs : local[jobs[i]] = "bad"
    /\ Ended("blocked")
    /\ UNCHANGED jobVars

WatchDone ==
    /\ xpc = "watch"
    /\ \A i \in DOMAIN jobs : local[jobs[i]] = "zero"
    /\ Ended("none")
    /\ UNCHANGED jobVars

\* The monitor, the operator's signal, or the deadline of a running load.
WatchStops ==
    /\ xpc = "watch"
    /\ \E i \in DOMAIN jobs : local[jobs[i]] = "running"
    /\ \E e \in Errors : Ended(e)
    /\ UNCHANGED jobVars

\* The remote stop of one job, whatever its exit code was.
StopCall ==
    /\ xpc = "stop" /\ at <= Len(jobs)
    /\ stopper[jobs[at]] = "idle"
    /\ stopper' = [stopper EXCEPT ![jobs[at]] = "called"]
    /\ UNCHANGED <<endpoints, local, run, child, cancel, execVars>>

\* The local client is terminated in the end, or that is a gap as well.
StopNext(confirmed) ==
    /\ \/ /\ local' = [local EXCEPT ![jobs[at]] = IF @ = "running" THEN "bad" ELSE @]
          /\ unconf' = (unconf \/ ~confirmed)
       \/ /\ local[jobs[at]] = "running"
          /\ unconf' = TRUE
          /\ UNCHANGED local
    /\ at' = at + 1
    /\ UNCHANGED <<xpc, want, jobs, xerr>>

StopReturns ==
    /\ xpc = "stop" /\ at <= Len(jobs)
    /\ stopper[jobs[at]] = "done"
    /\ StopNext(TRUE)
    /\ stopper' = [stopper EXCEPT ![jobs[at]] = "idle"]
    /\ UNCHANGED <<endpoints, run, child, cancel>>

\* The stop timed out or failed; its script may still run, or never will.
StopUnconfirmed ==
    /\ xpc = "stop" /\ at <= Len(jobs)
    /\ stopper[jobs[at]] \in {"called", "touched", "lost"}
    /\ StopNext(FALSE)
    /\ stopper' \in {stopper, [stopper EXCEPT ![jobs[at]] = "lost"]}
    /\ UNCHANGED <<endpoints, run, child, cancel>>

StopsDone ==
    /\ xpc = "stop" /\ at > Len(jobs)
    /\ xpc' = "back"
    /\ UNCHANGED <<jobVars, want, jobs, at, xerr, unconf>>

ExecStep ==
    \/ LaunchNext \/ LaunchFails \/ LaunchedAll
    \/ WatchFinds \/ WatchDone \/ WatchStops
    \/ StopCall \/ StopReturns \/ StopUnconfirmed \/ StopsDone
=============================================================================
