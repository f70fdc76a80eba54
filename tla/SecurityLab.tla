----------------------------- MODULE SecurityLab -----------------------------
(* The shared Security Lab daemon: the Controller, the native runs, the       *)
(* driver of the research campaign and the operator who stops them, with      *)
(* kills of the daemon.                                                       *)
EXTENDS NativeRuns

VARIABLES
    drv,        \* the driver task: where it is and the task and job it is at
    stopping    \* a stop_case that waits for the driver to end

vars == <<caseVars, runVars, drv, stopping>>

NoDriver == [at |-> "none"]
DriverType == [at : {"none", "next"}] \cup [at : {"starting"}, task : Tasks]
                \cup [at : {"segment", "cancelled"}, task : Tasks, job : Jobs]

TypeOK ==
    /\ CasesTypeOK /\ RunsTypeOK
    /\ drv \in DriverType /\ stopping \in BOOLEAN

Init ==
    /\ CasesInit /\ RunsInit
    /\ drv = NoDriver /\ stopping = FALSE

-----------------------------------------------------------------------------
(* The operator, the admissions, the host and the monitors.                  *)

Command ==
    /\ \/ BeginDiscovery \/ FinishDiscovery
       \/ ProposeScope \/ ExtendBudget \/ ActivateScope
       \/ ProposeActions \/ ActivateActions \/ Resume
    /\ UNCHANGED <<runVars, drv, stopping>>

Request(c) ==
    /\ \/ \E h \in Hosts : \/ Resolve(c, "tool", "none", h)
                           \/ \E finding \in Findings : Resolve(c, "poc", finding, h)
       \/ \E hosts \in Selections : StartAgent(c, hosts)
    /\ UNCHANGED <<drv, stopping>>

Admission(c) ==
    /\ \/ Resolved(c) \/ ResolveFails(c) \/ Launched(c) \/ LaunchFails(c)
       \/ AbortClosed(c) /\ UNCHANGED camp
       \/ AbortUnclosed(c) /\ UNCHANGED camp
    /\ UNCHANGED <<drv, stopping>>

Remote(j) == (RemoteUp(j) \/ RemoteExits(j)) /\ UNCHANGED <<drv, stopping>>

Monitor(j) ==
    /\ \/ RunCompletes(j) \/ RunBreaks(j)
       \/ CloseRun(j) \/ CloseFails(j) \/ CloseRefused(j)
    /\ UNCHANGED <<drv, stopping>>

-----------------------------------------------------------------------------
(* The campaign (CampaignService._drive).  The model starts one only when     *)
(* the driver of the last has ended.                                         *)

StartCampaign ==
    /\ drv = NoDriver
    /\ BeginResearch
    /\ drv' = [at |-> "next"]
    /\ UNCHANGED <<runVars, stopping>>

Queued == {t \in Tasks : tasks[t] = "queued"}
CampaignCurrent == ApprovedScope /\ camp.scope = scope.ver /\ camp.gen = gen

\* research_next: the queue is drained or the allowance spent; the scope has
\* changed or a later step refuses; or claims hold the hosts of every queued
\* task for a day.
CampaignEnds ==
    /\ drv.at = "next"
    /\ \/ CampaignCurrent /\ Campaign("completed")
       \/ Campaign("blocked")
       \/ Queued # {} /\ Campaign("paused")
    /\ drv' = NoDriver
    /\ UNCHANGED <<state, gen, scope, plan, jobs, tasks, runVars, stopping>>

\* An occupied lane is tried again every second, which is no step.
StartSegment ==
    /\ drv.at = "next" /\ CampaignCurrent
    /\ \E t \in Queued :
         /\ Assigned(t)
         /\ Admit(Driver, "research", TaskHosts[t])
         /\ tasks' = [tasks EXCEPT ![t] = "running"]
         /\ drv' = [at |-> "starting", task |-> t]
    /\ UNCHANGED stopping

SegmentLaunched ==
    /\ Launched(Driver)
    /\ drv' = [at |-> "segment", task |-> drv.task, job |-> adm[Driver].job]
    /\ UNCHANGED stopping

SegmentFails ==
    /\ \/ LaunchFails(Driver) /\ UNCHANGED drv
       \/ /\ AbortClosed(Driver) \/ AbortUnclosed(Driver)
          /\ Campaign("blocked")
          /\ drv' = NoDriver
    /\ UNCHANGED stopping

Recorded(j) == jobs[j].over \in {"closed", "unclosed"}

\* The monitor of the segment has ended; at the first one that did not
\* complete, the campaign stops.
SegmentOver ==
    /\ drv.at = "segment" /\ mon[drv.job] = "none" /\ Recorded(drv.job)
    /\ RecordSegment(drv.task, drv.job)
    /\ IF jobs[drv.job].status = "completed"
       THEN camp' = camp /\ drv' = [at |-> "next"]
       ELSE Campaign("blocked") /\ drv' = NoDriver
    /\ UNCHANGED <<state, gen, scope, plan, jobs, runVars, stopping>>

\* The monitor ended with an error, which the driver it was awaited by meets.
SegmentLost ==
    /\ drv.at = "segment" /\ mon[drv.job] = "none" /\ ~Recorded(drv.job)
    /\ Campaign("blocked") /\ drv' = NoDriver
    /\ UNCHANGED <<state, gen, scope, plan, jobs, tasks, runVars, stopping>>

\* The driver was cancelled in a segment: it cancels the monitor, awaits it
\* and ends; the segment is not recorded.
SegmentLeft ==
    /\ drv.at = "cancelled" /\ mon[drv.job] = "none"
    /\ drv' = NoDriver
    /\ UNCHANGED <<caseVars, runVars, stopping>>

-----------------------------------------------------------------------------
(* pause: the status, then the cancellation of the driver where it waits.  An *)
(* abort that is cancelled ends there: the job stays as it is, and its lane.  *)

CancelDriver ==
    \/ drv.at \in {"none", "cancelled"} /\ UNCHANGED <<jobs, drv, adm, preparing, mon>>
    \/ drv.at = "next" /\ drv' = NoDriver /\ UNCHANGED <<jobs, adm, preparing, mon>>
    \/ /\ adm[Driver].at = "launching"
       /\ adm' = [adm EXCEPT ![Driver].at = "aborting"]
       /\ UNCHANGED <<jobs, drv, preparing, mon>>
    \/ /\ adm[Driver].at = "aborting"
       /\ adm' = [adm EXCEPT ![Driver] = Idle]
       /\ jobs' = [jobs EXCEPT ![adm[Driver].job].over = "abandoned"]
       /\ drv' = NoDriver
       /\ UNCHANGED <<preparing, mon>>
    \/ /\ drv.at = "segment"
       /\ mon' = [mon EXCEPT ![drv.job] = Cancelled(drv.job)]
       /\ drv' = [drv EXCEPT !.at = "cancelled"]
       /\ UNCHANGED <<jobs, adm, preparing>>

Pause ==
    /\ camp.status = "active"
    /\ Campaign("paused")
    /\ CancelDriver
    /\ UNCHANGED <<state, gen, scope, plan, tasks, lanes, proc>>

PauseCampaign == Pause /\ UNCHANGED stopping

\* stop_case: the campaign is paused and its driver awaited, then the case is
\* stopped and its monitors are cancelled, also when a new campaign has begun.
StopPausesCampaign ==
    /\ ~stopping
    /\ Pause
    /\ stopping' = TRUE

Stop ==
    /\ IF stopping THEN drv = NoDriver \/ camp.status = "active" ELSE camp.status # "active"
    /\ stopping' = FALSE
    /\ state' = "paused" /\ gen' = gen + 1
    /\ jobs' = [j \in Jobs |-> IF Cut(j) THEN Abandoned(Revoked(j)) ELSE Revoked(j)]
    /\ mon' = [j \in Jobs |-> Cancelled(j)]
    /\ lanes' = {j \in lanes : ~Cut(j)}
    /\ UNCHANGED <<scope, plan, camp, tasks, adm, preparing, proc, drv>>

\* The daemon dies and is started again; the containers go on.
Crash ==
    /\ RestartController
    /\ adm' = [c \in Callers |-> Idle]
    /\ preparing' = FALSE /\ lanes' = {}
    /\ mon' = [j \in Jobs |-> "none"]
    /\ drv' = NoDriver /\ stopping' = FALSE
    /\ UNCHANGED proc

Next ==
    \/ Command
    \/ \E c \in Operators : Request(c) \/ Admission(c)
    \/ RefusedCall /\ UNCHANGED <<drv, stopping>>
    \/ \E j \in Jobs : Remote(j) \/ Monitor(j)
    \/ StartCampaign \/ CampaignEnds
    \/ StartSegment \/ SegmentLaunched \/ SegmentFails \/ SegmentOver \/ SegmentLost \/ SegmentLeft
    \/ PauseCampaign \/ StopPausesCampaign \/ Stop
    \/ Crash

Spec == Init /\ [][Next]_vars

-----------------------------------------------------------------------------
(* What the daemon must guarantee.                                           *)

(* The case says that work is going on exactly while a job is active.  An    *)
(* active job has a coroutine that will finish it, except one whose result   *)
(* was refused and one whose coroutine was killed while it closed a failed   *)
(* launch: those stay active until they are revoked.  What is on the host   *)
(* is answered for, or recorded as not closed, or left by an error or a     *)
(* kill; or it is the container that a launch created after it was cut off   *)
(* and stopped, of a run recorded as closed but never of a success.          *)
Accounted ==
    /\ (state \in {"checking", "poc_running"}) <=> (ActiveJobs # {})
    /\ \A j \in ActiveJobs : Owned(j) \/ jobs[j].over \in {"refused", "abandoned"}
    /\ \A j \in Created : OnHost(j) =>
         \/ Owned(j) /\ jobs[j].over = "no"
         \/ jobs[j].over \in {"unclosed", "abandoned"}
         \/ proc[j] = "loose" /\ jobs[j].status # "completed"

(* Two watched runs are on one host only when an exclusive one among them    *)
(* has been revoked and is not closed yet, whatever was paused, proposed     *)
(* again or cut while their lanes were held.                                 *)
HostsApart ==
    \A j, k \in {i \in Created : OnHost(i) /\ Owned(i)} :
      j # k /\ jobs[j].hosts \cap jobs[k].hosts # {} =>
        \E i \in {j, k} : jobs[i].lane = "exclusive" /\ jobs[i].status # "running"

(* An active job runs what is approved now, also when the approval changed   *)
(* while its admission waited for the DNS: its command was compiled from,    *)
(* and the job is bound to, the scope, generation and action plan of now.    *)
BoundToApproval ==
    \A j \in ActiveJobs :
      jobs[j].built = Binding(jobs[j].kind) /\ jobs[j].bind = jobs[j].built

(* A success is the end of a container that its monitor saw end while nobody *)
(* had revoked the job, also when the revocation came between the end and    *)
(* its recording; a recorded end is final.                                   *)
TrueResult(j) ==
    /\ jobs'[j].status = "completed" /\ jobs[j].status # "completed" =>
         /\ j \in ActiveJobs /\ gen' = gen /\ proc[j] = "exited"
         /\ jobs[j].built = Binding(jobs[j].kind)
    /\ jobs[j].over # "no" => jobs'[j].over = jobs[j].over
ResultsSound == [][\A j \in Jobs : TrueResult(j)]_vars

Approved ==
    (IF ApprovedScope THEN {"agent", "tool"} ELSE {})
        \cup (IF ApprovedAction THEN {"poc"} ELSE {})

Granted == INSTANCE Approval WITH
    Runs <- Jobs,
    grant <- [scope |-> scope.ver, gen |-> gen, plan |-> plan.ver, kinds |-> Approved],
    run <- [j \in Jobs |-> [status |-> jobs[j].status, kind |-> jobs[j].kind,
                            finding |-> jobs[j].finding, under |-> jobs[j].built]]

(* To a reader of the jobs the whole daemon is Approval: a run begins under   *)
(* the scope, generation and plan approved then, a revoked one never runs or  *)
(* succeeds again, and each action of a plan is tried once, also when another *)
(* of its actions was tried before, requests wait for their DNS, monitors are *)
(* cut and the daemon dies meanwhile.                                         *)
ImplementsApproval == Granted!Spec
=============================================================================
