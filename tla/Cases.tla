------------------------------- MODULE Cases --------------------------------
(* One engagement of the Security Lab as the Controller keeps it in           *)
(* control.db: the stage of the case, the generation that revokes work, the   *)
(* latest scope and action plan, the jobs with their outcome, and the         *)
(* research campaign.  Every operation is one SQLite transaction.             *)
(*                                                                            *)
(* Time is not modelled: what a window, a lease or a deadline may refuse is   *)
(* refused at any moment.  The budget of a scope is its number of jobs.  The  *)
(* native runtime prepares and starts a job without yielding in between, so   *)
(* no job is seen as only prepared; "failed" also stands for "interrupted".   *)
(*                                                                            *)
(* A definition marked "mutant" is a wrong variant of the definition after it *)
(* that bears its purpose; the specification uses none of them.               *)
EXTENDS Naturals, FiniteSets

CONSTANTS
    Hosts,          \* hosts of the scope
    Tasks,          \* research tasks, each with its hosts
    TaskHosts,
    Selections,     \* sets of hosts an operator starts an agent on
    Findings,       \* findings that an action plan has an action for
    MaxJobs         \* scope.budget.jobs

ASSUME CaseAssumption ==
    /\ MaxJobs \in Nat
    /\ TaskHosts \in [Tasks -> (SUBSET Hosts) \ {{}}]
    /\ Selections \subseteq (SUBSET Hosts) \ {{}}

VARIABLES
    state, gen,     \* cases.state, cases.generation
    scope,          \* the latest scope manifest: its version and status
    plan,           \* the latest action plan: version, status, scope version
    jobs,           \* jobs with job_runtime, research_admissions and evidence
    camp, tasks     \* the campaign and the status of its tasks

caseVars == <<state, gen, scope, plan, jobs, camp, tasks>>

Jobs == 1..MaxJobs
Created == {j \in Jobs : jobs[j].status # "none"}
ActiveJobs == {j \in Jobs : jobs[j].status = "running"}
NewJob == Cardinality(Created) + 1

States == {"created", "discovering", "discovery_review", "scope_approved", "checking",
           "checks_review", "actions_approved", "poc_running", "paused"}
Lanes == {"exclusive", "research", "operator"}
Bindings == [scope : Nat, gen : Nat, plan : Nat]

\* What a command is compiled from, and what a job is bound to.
Binding(kind) == [scope |-> scope.ver, gen |-> gen,
                  plan |-> IF kind = "poc" THEN plan.ver ELSE 0]

\* finding: what the action of a plan is to demonstrate, or "none".  built: the
\* binding its command was compiled under.  over: the run is finished as closed,
\* as not closed, or it is not finished and nobody is left to: it was closed and
\* its result refused, or an error or a kill ended its coroutine before.
JobType == [status : {"none", "running", "revoked", "completed", "failed"},
            kind : {"agent", "tool", "poc"}, finding : Findings \cup {"none"},
            lane : Lanes, hosts : SUBSET Hosts, bind : Bindings, built : Bindings,
            over : {"no", "closed", "unclosed", "refused", "abandoned"}]
Unbound == [scope |-> 0, gen |-> 0, plan |-> 0]
NoJob == [status |-> "none", kind |-> "agent", finding |-> "none", lane |-> "exclusive",
          hosts |-> {}, bind |-> Unbound, built |-> Unbound, over |-> "no"]

CasesTypeOK ==
    /\ state \in States /\ gen \in Nat
    /\ scope \in [ver : Nat, status : {"none", "pending", "approved"}]
    /\ plan \in [ver : Nat, status : {"none", "pending", "approved"}, scope : Nat]
    /\ jobs \in [Jobs -> JobType]
    /\ camp \in [status : {"none", "active", "completed", "paused", "blocked"},
                 scope : Nat, gen : Nat]
    /\ tasks \in [Tasks -> {"none", "queued", "running", "done", "inconclusive"}]

CasesInit ==
    /\ state = "created" /\ gen = 1
    /\ scope = [ver |-> 0, status |-> "none"]
    /\ plan = [ver |-> 0, status |-> "none", scope |-> 0]
    /\ jobs = [j \in Jobs |-> NoJob]
    /\ camp = [status |-> "none", scope |-> 0, gen |-> 0]
    /\ tasks = [t \in Tasks |-> "none"]

-----------------------------------------------------------------------------
(* What the operations read.                                                 *)

ApprovedScope == scope.status = "approved"
ApprovedAction == ApprovedScope /\ plan.status = "approved" /\ plan.scope = scope.ver
ReadyForChecks == ApprovedScope /\ state \in {"scope_approved", "checking", "checks_review"}
ReadyForAction == ApprovedAction /\ state \in {"actions_approved", "checks_review"}

\* validate_capability, as long as the lease lasts
Valid(j) ==
    LET job == jobs[j]
    IN  /\ job.status = "running" /\ job.bind = Binding(job.kind)
        /\ IF job.kind = "poc" THEN ApprovedAction /\ state = "poc_running"
           ELSE ApprovedScope /\ state \in {"checking", "scope_approved"}

-----------------------------------------------------------------------------
(* Discovery.  A collector whose run was stopped or replaced changes nothing *)
(* any more (run_active), so only the run of the case is kept.               *)

BeginDiscovery ==
    /\ state \in {"created", "discovery_review", "scope_approved", "checks_review"}
    /\ ActiveJobs = {}
    /\ state' = "discovering"
    /\ UNCHANGED <<gen, scope, plan, jobs, camp, tasks>>

FinishDiscovery ==
    /\ state = "discovering"
    /\ state' = "discovery_review"
    /\ UNCHANGED <<gen, scope, plan, jobs, camp, tasks>>

-----------------------------------------------------------------------------
(* Revocation: no job of an earlier generation is valid again.               *)

Revoked(j) == IF j \in ActiveJobs THEN [jobs[j] EXCEPT !.status = "revoked"] ELSE jobs[j]
RevokeIn == gen' = gen + 1 /\ jobs' = [j \in Jobs |-> Revoked(j)]

Accepting == state \notin {"paused", "discovering"}

\* propose and propose_budget_extension save a pending scope the same way.
SaveScope ==
    /\ scope' = [ver |-> scope.ver + 1, status |-> "pending"]
    /\ RevokeIn
    /\ state' = "discovery_review"
    /\ UNCHANGED <<plan, camp, tasks>>

ProposeScope == Accepting /\ SaveScope

ExtendBudget ==
    /\ state \in {"scope_approved", "checks_review", "discovery_review"}
    /\ ActiveJobs = {} /\ scope.status = "approved"
    /\ SaveScope

ProposeActions ==
    /\ state = "checks_review" /\ ApprovedScope
    /\ plan' = [ver |-> plan.ver + 1, status |-> "pending", scope |-> scope.ver]
    /\ UNCHANGED <<state, gen, scope, jobs, camp, tasks>>

ActivateScope ==
    /\ Accepting /\ scope.status = "pending"
    /\ scope' = [scope EXCEPT !.status = "approved"]
    /\ state' = "scope_approved"
    /\ UNCHANGED <<gen, plan, jobs, camp, tasks>>

ActivateActions ==
    /\ state = "checks_review" /\ plan.status = "pending"
    /\ ApprovedScope /\ plan.scope = scope.ver
    /\ plan' = [plan EXCEPT !.status = "approved"]
    /\ state' = "actions_approved"
    /\ UNCHANGED <<gen, scope, jobs, camp, tasks>>

Resume ==
    /\ state = "paused"
    /\ state' = IF ApprovedScope THEN "scope_approved" ELSE "discovery_review"
    /\ UNCHANGED <<gen, scope, plan, jobs, camp, tasks>>

-----------------------------------------------------------------------------
(* Admission: prepare_job with research_admit, then start_native_job.        *)

AttemptedWell(finding) ==                                            \* mutant
    \E j \in Created : /\ jobs[j].kind = "poc" /\ jobs[j].bind.plan = plan.ver
                       /\ jobs[j].finding = finding /\ jobs[j].status # "failed"
\* Each action of a plan is run once; a repetition needs a new plan.
Attempted(finding) ==
    \E j \in Created : /\ jobs[j].kind = "poc" /\ jobs[j].bind.plan = plan.ver
                       /\ jobs[j].finding = finding

LaneFree(lane, hosts) ==
    /\ lane # "exclusive" => camp.status = "active"
    /\ \A j \in ActiveJobs : /\ lane # "exclusive"
                             /\ jobs[j].lane \notin {"exclusive", lane}
                             /\ jobs[j].hosts \cap hosts = {}

Assigned(t) ==
    /\ camp.status = "active" /\ camp.scope = scope.ver /\ camp.gen = gen
    /\ tasks[t] = "queued"

AdmitStale(kind, finding, lane, hosts, built) ==                     \* mutant
    /\ IF kind = "poc" THEN ReadyForAction /\ ~Attempted(finding) ELSE ReadyForChecks
    /\ Cardinality(Created) < MaxJobs
    /\ LaneFree(lane, hosts)
MayPrepare(kind, finding, lane, hosts, built) ==
    /\ IF kind = "poc" THEN ReadyForAction /\ ~Attempted(finding) ELSE ReadyForChecks
    /\ built = Binding(kind)
    /\ Cardinality(Created) < MaxJobs
    /\ LaneFree(lane, hosts)

PrepareJob(kind, finding, lane, hosts, built) ==
    /\ MayPrepare(kind, finding, lane, hosts, built)
    /\ jobs' = [jobs EXCEPT ![NewJob] =
         [status |-> "running", kind |-> kind, finding |-> finding, lane |-> lane,
          hosts |-> hosts, bind |-> Binding(kind), built |-> built, over |-> "no"]]
    /\ state' = IF kind = "poc" THEN "poc_running" ELSE "checking"
    /\ UNCHANGED <<gen, scope, plan, camp>>

-----------------------------------------------------------------------------
(* The end of a run.                                                         *)

AnyVerdict(j, outcome) == {outcome}                                  \* mutant
\* finish_job: a revoked, stale or expired job is never a success.
Verdicts(j, outcome) ==
    {"failed"} \cup IF j \in ActiveJobs /\ jobs[j].bind.gen = gen THEN {outcome} ELSE {}

StateAfter(j) ==
    IF state \in {"checking", "poc_running"} /\ jobs[j].bind.gen = gen /\ ActiveJobs \subseteq {j}
    THEN "checks_review" ELSE state

FinishClosed(j, outcome) ==
    /\ \E verdict \in Verdicts(j, outcome) :
         jobs' = [jobs EXCEPT ![j].status = verdict, ![j].over = "closed"]
    /\ state' = StateAfter(j)
    /\ UNCHANGED <<gen, scope, plan>>

\* A result of more than 64 KiB is not recorded at all.
FinishRefused(j) ==
    /\ jobs' = [jobs EXCEPT ![j].over = "refused"]
    /\ UNCHANGED <<state, gen, scope, plan>>

\* Closure is not confirmed: the case is stopped first, then the job finished,
\* unless its result is refused.
FinishUnclosed(j) ==
    /\ gen' = gen + 1
    /\ jobs' = [k \in Jobs |-> IF k = j
                               THEN [jobs[j] EXCEPT !.status = "failed", !.over = "unclosed"]
                               ELSE Revoked(k)]
    /\ state' = "paused"
    /\ UNCHANGED <<scope, plan>>

StopRefused(j) ==
    /\ gen' = gen + 1
    /\ jobs' = [k \in Jobs |-> IF k = j THEN [Revoked(j) EXCEPT !.over = "abandoned"]
                               ELSE Revoked(k)]
    /\ state' = "paused"
    /\ UNCHANGED <<scope, plan>>

-----------------------------------------------------------------------------
(* The campaign.                                                             *)

BeginResearch ==
    /\ ApprovedScope /\ state \in {"scope_approved", "checks_review"}
    /\ camp.status # "active" /\ ActiveJobs = {}
    /\ camp' = [status |-> "active", scope |-> scope.ver, gen |-> gen]
    /\ \E chosen \in (SUBSET Tasks) \ {{}} :
         tasks' = [t \in Tasks |-> IF t \in chosen THEN "queued" ELSE "none"]
    /\ UNCHANGED <<state, gen, scope, plan, jobs>>

\* set_research_status
Campaign(status) ==
    camp' = IF camp.status = "active" THEN [camp EXCEPT !.status = status] ELSE camp

\* finish_research_segment: only a completed segment proposes more tasks.
RecordSegment(t, j) ==
    \E more \in SUBSET {u \in Tasks : tasks[u] = "none"} :
      /\ more # {} => jobs[j].status = "completed" /\ camp.status = "active"
      /\ tasks' = [u \in Tasks |->
           IF u = t THEN IF jobs[j].status = "completed" THEN "done" ELSE "inconclusive"
           ELSE IF u \in more THEN "queued" ELSE tasks[u]]

-----------------------------------------------------------------------------
(* The Controller starts again: campaigns pause; a case with active jobs is   *)
(* revoked and paused, and nobody finishes a job of the daemon before.        *)

Abandoned(job) == IF job.status # "none" /\ job.over = "no"
                  THEN [job EXCEPT !.over = "abandoned"] ELSE job

RestartController ==
    /\ Campaign("paused")
    /\ jobs' = [j \in Jobs |-> Abandoned(Revoked(j))]
    /\ IF ActiveJobs # {} THEN gen' = gen + 1 /\ state' = "paused"
       ELSE /\ gen' = gen
            /\ state' = IF state = "discovering" THEN "discovery_review" ELSE state
    /\ UNCHANGED <<scope, plan, tasks>>
=============================================================================
