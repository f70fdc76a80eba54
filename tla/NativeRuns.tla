----------------------------- MODULE NativeRuns -----------------------------
(* ComposeRunService: the coroutines that launch runs on the remote host,     *)
(* watch them and close them, and the lanes they hold meanwhile.  Between two *)
(* awaits a coroutine is alone, so an action is what happens from one await   *)
(* to the next.                                                               *)
(*                                                                            *)
(* An agent run is admitted in one stretch and then awaits its launch; a tool *)
(* run awaits the host's DNS first, and its launch is the monitor's own call. *)
EXTENDS Cases

CONSTANT Operators      \* requests of the operator that may run at one time

Driver == "campaign"    \* the campaign calls start() like an operator
Callers == Operators \cup {Driver}

ASSUME CallersAssumption == Driver \notin Operators

VARIABLES
    adm,        \* where each admission waits
    preparing,  \* self.preparing, the gate of exclusive runs
    lanes,      \* the jobs that self.lanes has an entry for
    mon,        \* the monitor task of a job: watching, or closing with an outcome
    proc        \* the remote side of a job

runVars == <<adm, preparing, lanes, mon, proc>>

Idle == [at |-> "idle"]
Closing == {"completed", "failed", "cancelled"}
Waiting == [at : {"resolving"}, kind : {"tool", "poc"}, finding : Findings \cup {"none"},
            lane : {"exclusive", "operator"}, host : Hosts, built : Bindings]
Owning == [at : {"launching", "aborting"}, job : Jobs]

RunsTypeOK ==
    /\ adm \in [Callers -> {Idle} \cup Waiting \cup Owning]
    /\ preparing \in BOOLEAN /\ lanes \subseteq Jobs
    /\ mon \in [Jobs -> {"none", "watching"} \cup Closing]
    /\ proc \in [Jobs -> {"none", "starting", "up", "exited", "loose"}]

RunsInit ==
    /\ adm = [c \in Callers |-> Idle]
    /\ preparing = FALSE /\ lanes = {}
    /\ mon = [j \in Jobs |-> "none"] /\ proc = [j \in Jobs |-> "none"]

\* Who still answers for a job: an admission or a monitor.
Admits(c, j) == adm[c].at \in {"launching", "aborting"} /\ adm[c].job = j
Owned(j) == mon[j] # "none" \/ \E c \in Callers : Admits(c, j)
OnHost(j) == proc[j] \in {"starting", "up", "loose"}

-----------------------------------------------------------------------------
(* Lanes.  An exclusive run only closes the gate while it is being prepared;  *)
(* afterwards the Controller's active job is what keeps others out.           *)

Reserved == {c \in Callers : adm[c].at = "resolving" /\ adm[c].lane # "exclusive"}

EnterByLane(lane, hosts) ==                                          \* mutant
    IF lane = "exclusive" THEN ~preparing /\ lanes = {} /\ Reserved = {}
    ELSE /\ \A c \in Reserved : adm[c].lane # lane
         /\ \A j \in lanes : jobs[j].lane # lane
EnterLane(lane, hosts) ==
    IF lane = "exclusive" THEN ~preparing /\ lanes = {} /\ Reserved = {}
    ELSE /\ \A c \in Reserved : adm[c].lane # lane /\ adm[c].host \notin hosts
         /\ \A j \in lanes : jobs[j].lane # lane /\ jobs[j].hosts \cap hosts = {}

BindLane(lane, j) == lanes' = IF lane = "exclusive" THEN lanes ELSE lanes \cup {j}
Close(lane) == preparing' = (preparing \/ lane = "exclusive")
Open(lane) == preparing' = (preparing /\ lane # "exclusive")

OperatorLane == IF camp.status = "active" THEN "operator" ELSE "exclusive"

\* Any call that fails before it has an entry opens the gate, also for others.
RefusedCall ==
    /\ preparing /\ preparing' = FALSE
    /\ UNCHANGED <<caseVars, adm, lanes, mon, proc>>

-----------------------------------------------------------------------------
(* Tools and activated actions (_start_cli).                                 *)

Resolve(c, kind, finding, h) ==
    /\ adm[c] = Idle
    /\ IF kind = "poc" THEN ReadyForAction ELSE ReadyForChecks
    /\ LET lane == IF kind = "poc" THEN "exclusive" ELSE OperatorLane
       IN  /\ EnterLane(lane, {h})
           /\ Close(lane)
           /\ adm' = [adm EXCEPT ![c] =
                [at |-> "resolving", kind |-> kind, finding |-> finding, lane |-> lane,
                 host |-> h, built |-> Binding(kind)]]
    /\ UNCHANGED <<caseVars, lanes, mon, proc>>

\* The names are resolved; the binding must still be that of the snapshot.
Resolved(c) ==
    /\ adm[c].at = "resolving"
    /\ LET a == adm[c]
       IN  /\ PrepareJob(a.kind, a.finding, a.lane, {a.host}, a.built)
           /\ BindLane(a.lane, NewJob) /\ Open(a.lane)
    /\ mon' = [mon EXCEPT ![NewJob] = "watching"]
    /\ proc' = [proc EXCEPT ![NewJob] = "starting"]
    /\ adm' = [adm EXCEPT ![c] = Idle]
    /\ UNCHANGED tasks

\* DNS fails, the request is cancelled, or prepare_job refuses.
ResolveFails(c) ==
    /\ adm[c].at = "resolving"
    /\ adm' = [adm EXCEPT ![c] = Idle]
    /\ Open(adm[c].lane)
    /\ UNCHANGED <<caseVars, lanes, mon, proc>>

-----------------------------------------------------------------------------
(* The agent (start): admission up to the await of runtime.start.            *)

Admit(c, lane, hosts) ==
    /\ adm[c] = Idle
    /\ EnterLane(lane, hosts)
    /\ PrepareJob("agent", "none", lane, hosts, Binding("agent"))
    /\ BindLane(lane, NewJob) /\ Close(lane)
    /\ proc' = [proc EXCEPT ![NewJob] = "starting"]
    /\ adm' = [adm EXCEPT ![c] = [at |-> "launching", job |-> NewJob]]
    /\ UNCHANGED mon

StartAgent(c, hosts) ==
    /\ Admit(c, OperatorLane, hosts)
    /\ UNCHANGED tasks

\* runtime.start has returned a verified launch.
Launched(c) ==
    /\ adm[c].at = "launching"
    /\ LET j == adm[c].job
       IN  /\ proc[j] \in {"up", "exited"} /\ Valid(j)
           /\ mon' = [mon EXCEPT ![j] = "watching"]
           /\ Open(jobs[j].lane)
    /\ adm' = [adm EXCEPT ![c] = Idle]
    /\ UNCHANGED <<caseVars, lanes, proc>>

\* It raised, the caller was cancelled, or the job is not valid any more.
LaunchFails(c) ==
    /\ adm[c].at = "launching"
    /\ adm' = [adm EXCEPT ![c].at = "aborting"]
    /\ UNCHANGED <<caseVars, preparing, lanes, mon, proc>>

-----------------------------------------------------------------------------
(* The remote host: the program launches the container, the container ends.  *)

RemoteUp(j) ==
    /\ proc[j] = "starting"
    /\ proc' = [proc EXCEPT ![j] = "up"]
    /\ UNCHANGED <<caseVars, adm, preparing, lanes, mon>>

RemoteExits(j) ==
    /\ proc[j] \in {"starting", "up"}
    /\ proc' = [proc EXCEPT ![j] = "exited"]
    /\ UNCHANGED <<caseVars, adm, preparing, lanes, mon>>

\* runtime.stop with access_closed: the container is gone, but a launch that
\* was cut off may still create it afterwards ("loose").
StopRemote(j) ==
    \E p \in IF proc[j] = "starting" THEN {"exited", "loose"} ELSE {"exited"} :
      proc' = [proc EXCEPT ![j] = p]

\* _abort_lane looks for the entry among the reservations only, where a bound
\* entry is not any more: the lane of a failed launch stays.
Aborted(c) ==
    /\ adm' = [adm EXCEPT ![c] = Idle]
    /\ Open(jobs[adm[c].job].lane)
    /\ UNCHANGED <<lanes, mon, tasks>>

AbortClosed(c) ==
    /\ adm[c].at = "aborting"
    /\ StopRemote(adm[c].job)
    /\ FinishClosed(adm[c].job, "failed")
    /\ Aborted(c)

AbortUnclosed(c) ==
    /\ adm[c].at = "aborting"
    /\ FinishUnclosed(adm[c].job)
    /\ Aborted(c)
    /\ UNCHANGED proc

-----------------------------------------------------------------------------
(* The monitor: validate, poll, validate, renew.  A round that changes        *)
(* nothing is no step.                                                        *)

RunCompletes(j) ==
    /\ mon[j] = "watching" /\ proc[j] = "exited" /\ Valid(j)
    /\ mon' = [mon EXCEPT ![j] = "completed"]
    /\ UNCHANGED <<caseVars, adm, preparing, lanes, proc>>

\* The capability is refused, the call to the host fails, or the run failed.
RunBreaks(j) ==
    /\ mon[j] = "watching"
    /\ mon' = [mon EXCEPT ![j] = "failed"]
    /\ UNCHANGED <<caseVars, adm, preparing, lanes, proc>>

\* finish_job and the callback of the task (_finished).
Over(j) ==
    /\ mon' = [mon EXCEPT ![j] = "none"]
    /\ lanes' = lanes \ {j}
    /\ UNCHANGED <<adm, preparing, camp, tasks>>

ClosedAnyway(j) ==                                                   \* mutant
    /\ mon[j] \in Closing
    /\ FinishClosed(j, IF mon[j] = "completed" THEN "completed" ELSE "failed")
    /\ Over(j)
    /\ UNCHANGED proc
CloseRun(j) ==
    /\ mon[j] \in Closing
    /\ StopRemote(j)
    /\ FinishClosed(j, IF mon[j] = "completed" THEN "completed" ELSE "failed")
    /\ Over(j)

CloseFails(j) ==
    /\ mon[j] \in Closing
    /\ FinishUnclosed(j)
    /\ Over(j)
    /\ UNCHANGED proc

\* finish_job raises, for its result is too large: 18,000 characters of receipt,
\* each of up to four bytes, and of a segment up to eight research results.
\* _finished drops the error and the lane; the job is left as it is.
CloseRefused(j) ==
    /\ mon[j] \in Closing
    /\ \/ StopRemote(j) /\ FinishRefused(j)
       \/ StopRefused(j) /\ UNCHANGED proc
    /\ Over(j)

\* A cancellation interrupts a run that is watched.  The closing of an agent
\* is shielded from it, the closing of a tool is not: it ends without evidence,
\* unless the task had been cancelled before.
Cut(j) == mon[j] \in Closing \ {"cancelled"} /\ jobs[j].kind # "agent"
Cancelled(j) ==
    IF mon[j] = "watching" THEN "cancelled" ELSE IF Cut(j) THEN "none" ELSE mon[j]
=============================================================================
