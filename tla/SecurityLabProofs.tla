-------------------------- MODULE SecurityLabProofs --------------------------
(* Proofs about module SecurityLab, for any hosts, tasks, operators and        *)
(* budget: runs are accounted for, apart on their hosts, bound to what is      *)
(* approved, and recorded truthfully.                                          *)
EXTENDS SecurityLab, FiniteSetTheorems, TLAPS

\* Jobs are numbered in the order they are prepared.
Numbered == \E n \in 0..MaxJobs : Created = 1..n

\* The case is at work exactly while a job is active, under an approved scope.
WorkGoesOn ==
    /\ (state \in {"checking", "poc_running"}) <=> (ActiveJobs # {})
    /\ ActiveJobs # {} => ApprovedScope

\* A job is answered for exactly until its run is over, and by one coroutine.
JobSound(j) ==
    /\ Owned(j) <=> jobs[j].status # "none" /\ jobs[j].over = "no"
    /\ jobs[j].status = "none" => jobs[j].over = "no" /\ proc[j] = "none"
    /\ jobs[j].status = "running" => jobs[j].over \in {"no", "refused", "abandoned"}
    /\ jobs[j].over \in {"closed", "refused"} => proc[j] \in {"exited", "loose"}
    /\ jobs[j].status = "completed" => jobs[j].over = "closed" /\ proc[j] = "exited"
    /\ mon[j] = "completed" => proc[j] = "exited"
    /\ mon[j] # "none" => \A c \in Callers : ~Admits(c, j)
    /\ \A c, d \in Callers : Admits(c, j) /\ Admits(d, j) => c = d
JobsSound == \A j \in Jobs : JobSound(j)

\* Where the driver is and where its admission waits go together.
DriverSound ==
    /\ drv.at = "starting" <=> adm[Driver].at \in {"launching", "aborting"}
    /\ adm[Driver].at # "resolving"
    /\ \A j \in Jobs : \/ Admits(Driver, j)
                       \/ drv.at \in {"segment", "cancelled"} /\ drv.job = j
                       => jobs[j].status # "none" /\ jobs[j].kind = "agent"

\* The entries of lanes and reservations are apart, and every run that shares
\* the case has one.
LanesApart ==
    /\ \A j \in lanes : jobs[j].status # "none" /\ jobs[j].lane # "exclusive"
    /\ \A j \in Jobs : Owned(j) /\ jobs[j].lane # "exclusive" => j \in lanes
    /\ \A j, k \in lanes : j # k => jobs[j].hosts \cap jobs[k].hosts = {}
    /\ \A c \in Reserved : \A j \in lanes : adm[c].host \notin jobs[j].hosts
    /\ \A c, d \in Reserved : c # d => adm[c].host # adm[d].host

\* An active exclusive run leaves no other but exclusive ones that are being
\* closed.  A request that waits to be one may find runs that share the case,
\* which then are active as long as its own snapshot is of now.
Exclusion ==
    /\ \A j \in ActiveJobs : jobs[j].lane = "exclusive" =>
         \A k \in Jobs \ {j} : Owned(k) => jobs[k].lane = "exclusive" /\ k \notin ActiveJobs
    /\ \A c \in Callers : adm[c].at = "resolving" =>
         /\ adm[c].built.gen <= gen
         /\ adm[c].lane = "exclusive" /\ adm[c].built.gen = gen =>
              \A k \in Jobs : Owned(k) /\ jobs[k].lane # "exclusive" => k \in ActiveJobs

IInv ==
    /\ TypeOK /\ Numbered /\ WorkGoesOn /\ BoundToApproval /\ JobsSound
    /\ DriverSound /\ LanesApart /\ Exclusion

-----------------------------------------------------------------------------
(* What the steps do to jobs.                                                  *)

Statuses == {"none", "running", "revoked", "completed", "failed"}
Ends == {"no", "closed", "unclosed", "refused", "abandoned"}

(* Setting the status or the end of a job leaves the rest of it.               *)
LEMMA SettledFacts ==
  ASSUME NEW job \in JobType, NEW s \in Statuses, NEW o \in Ends
  PROVE  /\ [job EXCEPT !.status = s] \in JobType
         /\ [job EXCEPT !.over = o] \in JobType
         /\ [job EXCEPT !.status = s, !.over = o] \in JobType
BY DEF JobType, Statuses, Ends

Kept(j) ==
    /\ jobs'[j].status = "none" <=> jobs[j].status = "none"
    /\ jobs'[j].kind = jobs[j].kind /\ jobs'[j].lane = jobs[j].lane
    /\ jobs'[j].hosts = jobs[j].hosts
    /\ jobs'[j].bind = jobs[j].bind /\ jobs'[j].built = jobs[j].built
    /\ jobs'[j].finding = jobs[j].finding

(* A revocation stops active jobs and changes nothing else.                    *)
LEMMA RevokedFacts ==
  ASSUME IInv, NEW j \in Jobs
  PROVE  /\ Revoked(j) \in JobType
         /\ Revoked(j).status # "running"
         /\ Revoked(j).status = "none" <=> jobs[j].status = "none"
         /\ Revoked(j).kind = jobs[j].kind /\ Revoked(j).lane = jobs[j].lane
         /\ Revoked(j).hosts = jobs[j].hosts /\ Revoked(j).over = jobs[j].over
         /\ Revoked(j).bind = jobs[j].bind /\ Revoked(j).built = jobs[j].built
         /\ Revoked(j).finding = jobs[j].finding
         /\ Revoked(j).status = "completed" <=> jobs[j].status = "completed"
<1>1. jobs[j] \in JobType
  BY DEF IInv, TypeOK, CasesTypeOK
<1>2. CASE j \in ActiveJobs
  <2>1. Revoked(j) = [jobs[j] EXCEPT !.status = "revoked"]
    BY <1>2 DEF Revoked
  <2> QED BY <1>1, <1>2, <2>1 DEF JobType, ActiveJobs
<1>3. CASE j \notin ActiveJobs
  BY <1>1, <1>3 DEF Revoked, ActiveJobs
<1> QED BY <1>2, <1>3

(* A step that prepares no job keeps their numbering.                          *)
LEMMA NumberedStep ==
  ASSUME IInv, \A j \in Jobs : jobs'[j].status = "none" <=> jobs[j].status = "none"
  PROVE  Numbered'
<1>1. Created' = Created
  BY DEF Created
<1> QED BY <1>1 DEF IInv, Numbered

(* What is true of a job stays true when it is revoked at most.                *)
LEMMA JobStep ==
  ASSUME IInv, NEW j \in Jobs, mon'[j] = mon[j], proc'[j] = proc[j],
         \A c \in Callers : Admits(c, j)' <=> Admits(c, j),
         Kept(j), jobs'[j].over = jobs[j].over,
         jobs'[j].status \in {"running", "completed"} => jobs'[j].status = jobs[j].status
  PROVE  JobSound(j)'
BY DEF IInv, JobsSound, JobSound, Owned, Kept

(* The driver is where it was.                                                 *)
LEMMA DriverStep ==
  ASSUME IInv, \A j \in Jobs : Kept(j), drv' = drv, adm'[Driver] = adm[Driver]
  PROVE  DriverSound'
BY DEF IInv, DriverSound, Admits, Kept

\* A waiting request has been waiting.
AdmKept == \A c \in Callers : adm'[c].at = "resolving" => adm'[c] = adm[c]

(* A step that only ends work keeps the lanes apart.                           *)
LEMMA LanesStep ==
  ASSUME IInv, AdmKept, \A j \in Jobs : Kept(j) /\ (Owned(j)' => Owned(j)),
         lanes' \subseteq lanes, \A j \in lanes \ lanes' : ~Owned(j)'
  PROVE  LanesApart'
<1>1. lanes \subseteq Jobs
  BY DEF IInv, TypeOK, RunsTypeOK
<1>2. \A c \in Reserved' : c \in Reserved /\ adm'[c] = adm[c]
  BY DEF AdmKept, Reserved
<1>3. \A j \in lanes' : jobs'[j].status # "none" /\ jobs'[j].lane # "exclusive"
  BY <1>1 DEF IInv, LanesApart, Kept
<1>4. \A j \in Jobs : Owned(j)' /\ jobs'[j].lane # "exclusive" => j \in lanes'
  BY DEF IInv, LanesApart, Kept
<1>5. \A j, k \in lanes' : j # k => jobs'[j].hosts \cap jobs'[k].hosts = {}
  <2>1. \A j \in lanes' : j \in lanes /\ jobs'[j].hosts = jobs[j].hosts
    BY <1>1 DEF Kept
  <2> QED BY <2>1 DEF IInv, LanesApart
<1>6. \A c \in Reserved' : \A j \in lanes' : adm'[c].host \notin jobs'[j].hosts
  BY <1>1, <1>2 DEF IInv, LanesApart, Kept
<1>7. \A c, d \in Reserved' : c # d => adm'[c].host # adm'[d].host
  BY <1>2 DEF IInv, LanesApart
<1> QED BY <1>3, <1>4, <1>5, <1>6, <1>7 DEF LanesApart

(* So it keeps exclusive runs alone, when a job that is not active any more is *)
(* not answered for, or the generation has changed.                            *)
LEMMA ExclusionStep ==
  ASSUME IInv, AdmKept, \A j \in Jobs : Kept(j) /\ (Owned(j)' => Owned(j)),
         ActiveJobs' \subseteq ActiveJobs,
         \/ gen' = gen /\ \A j \in ActiveJobs : j \in ActiveJobs' \/ ~Owned(j)'
         \/ gen' = gen + 1
  PROVE  Exclusion'
<1>1. ActiveJobs \subseteq Jobs
  BY DEF ActiveJobs
<1>2. \A j \in ActiveJobs' : jobs'[j].lane = "exclusive" =>
        \A k \in Jobs \ {j} : Owned(k)' => jobs'[k].lane = "exclusive" /\ k \notin ActiveJobs'
  BY <1>1 DEF IInv, Exclusion, Kept
<1>3. ASSUME NEW c \in Callers, adm'[c].at = "resolving"
      PROVE  /\ adm'[c].built.gen <= gen'
             /\ adm'[c].lane = "exclusive" /\ adm'[c].built.gen = gen' =>
                  \A k \in Jobs : Owned(k)' /\ jobs'[k].lane # "exclusive" => k \in ActiveJobs'
  <2>1. adm'[c] = adm[c] /\ adm[c].at = "resolving"
    BY <1>3 DEF AdmKept
  <2>2. adm[c].built.gen \in Nat /\ gen \in Nat
    <3>1. adm[c] \in Waiting
      BY <2>1 DEF IInv, TypeOK, RunsTypeOK, Idle, Owning, Waiting
    <3> QED BY <3>1 DEF Waiting, Bindings, IInv, TypeOK, CasesTypeOK
  <2>3. /\ adm[c].built.gen <= gen
        /\ adm[c].lane = "exclusive" /\ adm[c].built.gen = gen =>
             \A k \in Jobs : Owned(k) /\ jobs[k].lane # "exclusive" => k \in ActiveJobs
    BY <2>1 DEF IInv, Exclusion
  <2>4. CASE gen' = gen /\ \A j \in ActiveJobs : j \in ActiveJobs' \/ ~Owned(j)'
    BY <2>1, <2>2, <2>3, <2>4 DEF Kept
  <2>5. CASE gen' = gen + 1
    BY <2>1, <2>2, <2>3, <2>5
  <2> QED BY <2>4, <2>5
<1> QED BY <1>2, <1>3 DEF Exclusion

(* Where a caller may be.                                                      *)
LEMMA CallerFacts ==
  ASSUME IInv, NEW c \in Callers
  PROVE  /\ adm[c].at = "idle" => adm[c] = Idle
         /\ adm[c].at = "resolving" =>
              /\ adm[c] \in Waiting /\ adm[c].kind \in {"tool", "poc"}
              /\ adm[c].lane \in Lanes /\ adm[c].lane # "research" /\ adm[c].host \in Hosts
              /\ adm[c].built \in Bindings /\ adm[c].finding \in Findings \cup {"none"}
              /\ c # Driver
         /\ adm[c].at \in {"launching", "aborting"} =>
              /\ adm[c] \in Owning /\ adm[c].job \in Jobs
              /\ Admits(c, adm[c].job) /\ Owned(adm[c].job)
              /\ mon[adm[c].job] = "none"
              /\ \A d \in Callers : Admits(d, adm[c].job) => d = c
         /\ adm[c].at \in {"idle", "resolving", "launching", "aborting"}
<1>1. adm[c] \in {Idle} \cup Waiting \cup Owning
  BY DEF IInv, TypeOK, RunsTypeOK
<1>2. adm[c].at = "idle" => adm[c] = Idle
  BY <1>1 DEF Idle, Waiting, Owning
<1>3. adm[c].at = "resolving" =>
              /\ adm[c] \in Waiting /\ adm[c].kind \in {"tool", "poc"}
              /\ adm[c].lane \in Lanes /\ adm[c].lane # "research" /\ adm[c].host \in Hosts
              /\ adm[c].built \in Bindings /\ adm[c].finding \in Findings \cup {"none"}
              /\ c # Driver
  <2>1. adm[c].at = "resolving" => adm[c] \in Waiting
    BY <1>1 DEF Idle, Waiting, Owning
  <2> QED BY <2>1 DEF Waiting, Lanes, IInv, DriverSound
<1>4. adm[c].at \in {"launching", "aborting"} =>
              adm[c] \in Owning /\ adm[c].job \in Jobs /\ Admits(c, adm[c].job)
  BY <1>1 DEF Idle, Waiting, Owning, Admits
<1>5. adm[c].at \in {"launching", "aborting"} =>
              /\ Owned(adm[c].job) /\ mon[adm[c].job] = "none"
              /\ \A d \in Callers : Admits(d, adm[c].job) => d = c
  BY <1>4 DEF Owned, IInv, JobsSound, JobSound
<1>6. adm[c].at \in {"idle", "resolving", "launching", "aborting"}
  BY <1>1 DEF Idle, Waiting, Owning
<1> QED BY <1>2, <1>3, <1>4, <1>5, <1>6

(* The next number is free while the budget lasts.                             *)
LEMMA NewJobFacts ==
  ASSUME IInv, Cardinality(Created) < MaxJobs
  PROVE  /\ NewJob \in Jobs /\ jobs[NewJob].status = "none"
         /\ Created \cup {NewJob} = 1..NewJob /\ NewJob \in 0..MaxJobs
<1>1. PICK n \in 0..MaxJobs : Created = 1..n
  BY DEF IInv, Numbered
<1>2. MaxJobs \in Nat /\ n \in Nat
  BY CaseAssumption
<1>3. Cardinality(1..n) = n
  BY <1>2, FS_Interval
<1>4. NewJob = n + 1
  BY <1>1, <1>3 DEF NewJob
<1>5. n < MaxJobs
  BY <1>1, <1>3
<1>6. NewJob \in Jobs /\ NewJob \notin Created
  BY <1>1, <1>2, <1>4, <1>5 DEF Jobs
<1> QED BY <1>1, <1>2, <1>4, <1>5, <1>6 DEF Created, Jobs

TasksTyped == tasks \in [Tasks -> {"none", "queued", "running", "done", "inconclusive"}]

(* Preparing a job.                                                            *)
LEMMA PrepareFacts ==
  ASSUME IInv, NEW kind \in {"agent", "tool", "poc"},
         NEW finding \in Findings \cup {"none"}, NEW lane \in Lanes,
         NEW hosts \in SUBSET Hosts, NEW built \in Bindings,
         PrepareJob(kind, finding, lane, hosts, built)
  PROVE  /\ TasksTyped' => CasesTypeOK'
         /\ Numbered' /\ WorkGoesOn' /\ BoundToApproval'
         /\ NewJob \in Jobs /\ jobs[NewJob].status = "none"
         /\ jobs'[NewJob].status = "running" /\ jobs'[NewJob].over = "no"
         /\ jobs'[NewJob].kind = kind /\ jobs'[NewJob].lane = lane
         /\ jobs'[NewJob].hosts = hosts /\ jobs'[NewJob].finding = finding
         /\ \A j \in Jobs : j # NewJob => jobs'[j] = jobs[j]
         /\ ActiveJobs' = ActiveJobs \cup {NewJob}
<1> DEFINE new == [status |-> "running", kind |-> kind, finding |-> finding, lane |-> lane,
                   hosts |-> hosts, bind |-> Binding(kind), built |-> built, over |-> "no"]
<1>1. /\ NewJob \in Jobs /\ jobs[NewJob].status = "none"
      /\ Created \cup {NewJob} = 1..NewJob /\ NewJob \in 0..MaxJobs
  BY NewJobFacts DEF PrepareJob, MayPrepare
<1>2. /\ jobs \in [Jobs -> JobType] /\ jobs' = [jobs EXCEPT ![NewJob] = new]
      /\ gen' = gen /\ scope' = scope /\ plan' = plan /\ camp' = camp
      /\ built = Binding(kind)
  BY DEF IInv, TypeOK, CasesTypeOK, PrepareJob, MayPrepare
<1>3. jobs'[NewJob] = new /\ \A j \in Jobs : j # NewJob => jobs'[j] = jobs[j]
  BY <1>1, <1>2
<1>4. new \in JobType
  BY <1>2 DEF JobType
<1>5. Created' = Created \cup {NewJob} /\ ActiveJobs' = ActiveJobs \cup {NewJob}
  <2>1. jobs'[NewJob].status = "running"
    BY <1>3
  <2>2. \A j \in Jobs : j # NewJob => jobs'[j].status = jobs[j].status
    BY <1>3
  <2> QED BY <1>1, <2>1, <2>2 DEF Created, ActiveJobs
<1>6. Numbered'
  BY <1>1, <1>5 DEF Numbered
<1>7. WorkGoesOn'
  BY <1>2, <1>5 DEF WorkGoesOn, PrepareJob, MayPrepare, ReadyForChecks, ReadyForAction,
                    ApprovedAction, ApprovedScope
<1>8. BoundToApproval'
  <2>1. \A j \in ActiveJobs' : jobs'[j].built = Binding(jobs'[j].kind) /\ jobs'[j].bind = jobs'[j].built
    BY <1>2, <1>3, <1>5 DEF IInv, BoundToApproval, ActiveJobs
  <2> QED BY <2>1, <1>2 DEF BoundToApproval, Binding
<1>9. TasksTyped' => CasesTypeOK'
  <2>1. jobs' \in [Jobs -> JobType]
    BY <1>1, <1>2, <1>4
  <2>2. state' \in States
    BY DEF PrepareJob, States
  <2> QED BY <1>2, <2>1, <2>2 DEF IInv, TypeOK, CasesTypeOK, TasksTyped
<1> QED BY <1>1, <1>3, <1>5, <1>6, <1>7, <1>8, <1>9

(* Who answers for the job that caller c has just prepared.                    *)
Answers(c) ==
    \/ adm'[c] = Idle /\ mon' = [mon EXCEPT ![NewJob] = "watching"]
    \/ adm'[c] = [at |-> "launching", job |-> NewJob] /\ mon' = mon

(* A job is admitted: it has an owner, its lane has an entry, and it is alone  *)
(* if it is exclusive.                                                         *)
LEMMA AdmittedFacts ==
  ASSUME IInv, NEW c \in Callers, NEW kind \in {"agent", "tool", "poc"},
         NEW finding \in Findings \cup {"none"},
         NEW lane \in Lanes, NEW hosts \in SUBSET Hosts, NEW built \in Bindings,
         PrepareJob(kind, finding, lane, hosts, built), BindLane(lane, NewJob),
         adm[c].at \in {"idle", "resolving"},
         \A d \in Callers : d # c => adm'[d] = adm[d],
         Answers(c), proc' = [proc EXCEPT ![NewJob] = "starting"],
         lane = "exclusive" =>
           \A k \in Jobs : Owned(k) /\ jobs[k].lane # "exclusive" => k \in ActiveJobs,
         lane # "exclusive" =>
           /\ \A j \in lanes : jobs[j].hosts \cap hosts = {}
           /\ \A d \in Reserved : d # c => adm[d].host \notin hosts
  PROVE  JobsSound' /\ LanesApart' /\ Exclusion'
<1>1. /\ NewJob \in Jobs /\ jobs[NewJob].status = "none"
      /\ jobs'[NewJob].status = "running" /\ jobs'[NewJob].over = "no"
      /\ jobs'[NewJob].lane = lane /\ jobs'[NewJob].hosts = hosts
      /\ \A j \in Jobs : j # NewJob => jobs'[j] = jobs[j]
      /\ ActiveJobs' = ActiveJobs \cup {NewJob}
  BY PrepareFacts
<1>0. PICK n \in Jobs : n = NewJob
  BY <1>1
<1>2. mon[n] = "none" /\ \A d \in Callers : ~Admits(d, n)
  BY <1>0, <1>1 DEF IInv, JobsSound, JobSound, Owned
<1>3. mon \in [Jobs -> {"none", "watching"} \cup Closing] /\ proc \in [Jobs -> {"none", "starting", "up", "exited", "loose"}]
  BY DEF IInv, TypeOK, RunsTypeOK
<1>4. \A j \in Jobs : j # n =>
        /\ mon'[j] = mon[j] /\ proc'[j] = proc[j]
        /\ \A d \in Callers : Admits(d, j)' <=> Admits(d, j)
  <2>1. \A j \in Jobs : j # n => mon'[j] = mon[j] /\ proc'[j] = proc[j]
    BY <1>0, <1>3 DEF Answers
  <2>2. \A j \in Jobs : j # n => ~Admits(c, j) /\ ~Admits(c, j)'
    BY <1>0 DEF Answers, Admits, Idle
  <2> QED BY <2>1, <2>2 DEF Admits
<1>5. proc'[n] = "starting"
  BY <1>0, <1>1, <1>3
<1>6. \/ /\ mon'[n] = "watching" /\ \A d \in Callers : ~Admits(d, n)'
      \/ /\ mon'[n] = "none" /\ Admits(c, n)' /\ \A d \in Callers : Admits(d, n)' => d = c
  <2>1. \A d \in Callers : d # c => ~Admits(d, n)'
    BY <1>2 DEF Admits
  <2>2. CASE adm'[c] = Idle /\ mon' = [mon EXCEPT ![NewJob] = "watching"]
    BY <1>0, <1>1, <1>3, <2>1, <2>2 DEF Admits, Idle
  <2>3. CASE adm'[c] = [at |-> "launching", job |-> NewJob] /\ mon' = mon
    BY <1>0, <1>2, <2>1, <2>3 DEF Admits
  <2> QED BY <2>2, <2>3 DEF Answers
<1>7. Owned(n)' /\ \A j \in Jobs : j # n => (Owned(j)' <=> Owned(j))
  BY <1>4, <1>6 DEF Owned
<1>8. JobsSound'
  <2>1. \A j \in Jobs : j # n => JobSound(j)'
    BY <1>0, <1>1, <1>4, JobStep DEF Kept
  <2>2. JobSound(n)'
    BY <1>0, <1>1, <1>5, <1>6, <1>7 DEF JobSound
  <2> QED BY <2>1, <2>2 DEF JobsSound
<1>9. \A d \in Callers : adm'[d].at = "resolving" => d # c /\ adm'[d] = adm[d]
  BY DEF Answers, Idle
<1>10. LanesApart'
  <2>1. n \notin lanes /\ lanes \subseteq Jobs
    BY <1>0, <1>1 DEF IInv, TypeOK, RunsTypeOK, LanesApart
  <2>2. \A d \in Reserved' : d \in Reserved /\ d # c /\ adm'[d] = adm[d]
    BY <1>9 DEF Reserved
  <2>3. \A j \in lanes : jobs'[j] = jobs[j]
    BY <1>0, <1>1, <2>1
  <2>4. \A j \in lanes : jobs[j].status # "none" /\ jobs[j].lane # "exclusive"
    BY DEF IInv, LanesApart
  <2>5. \A j \in Jobs : Owned(j)' /\ jobs'[j].lane # "exclusive" => j \in lanes'
    BY <1>0, <1>1, <1>7 DEF IInv, LanesApart, BindLane
  <2>6. \A j, k \in lanes : j # k => jobs[j].hosts \cap jobs[k].hosts = {}
    BY DEF IInv, LanesApart
  <2>7. \A d \in Reserved : \A j \in lanes : adm[d].host \notin jobs[j].hosts
    BY DEF IInv, LanesApart
  <2>8. \A d, e \in Reserved : d # e => adm[d].host # adm[e].host
    BY DEF IInv, LanesApart
  <2>9. CASE lane = "exclusive"
    <3>1. lanes' = lanes
      BY <2>9 DEF BindLane
    <3> QED BY <3>1, <2>2, <2>3, <2>4, <2>5, <2>6, <2>7, <2>8 DEF LanesApart
  <2>10. CASE lane # "exclusive"
    <3>1. lanes' = lanes \cup {n}
      BY <1>0, <2>10 DEF BindLane
    <3>2. jobs'[n].status # "none" /\ jobs'[n].lane # "exclusive" /\ jobs'[n].hosts = hosts
      BY <1>0, <1>1, <2>10
    <3>3. \A j \in lanes' : jobs'[j].status # "none" /\ jobs'[j].lane # "exclusive"
      BY <3>1, <3>2, <2>3, <2>4
    <3>4. \A j, k \in lanes' : j # k => jobs'[j].hosts \cap jobs'[k].hosts = {}
      BY <3>1, <3>2, <2>3, <2>6, <2>10
    <3>5. \A d \in Reserved' : \A j \in lanes' : adm'[d].host \notin jobs'[j].hosts
      BY <3>1, <3>2, <2>2, <2>3, <2>7, <2>10
    <3> QED BY <3>3, <3>4, <3>5, <2>2, <2>5, <2>8 DEF LanesApart
  <2> QED BY <2>9, <2>10
<1>11. Exclusion'
  <2>1. gen' = gen
    BY DEF PrepareJob
  <2>2. LaneFree(lane, hosts)
    BY DEF PrepareJob, MayPrepare
  <2>3. \A j \in ActiveJobs' : jobs'[j].lane = "exclusive" =>
          \A k \in Jobs \ {j} : Owned(k)' => jobs'[k].lane = "exclusive" /\ k \notin ActiveJobs'
    <3>1. CASE lane = "exclusive"
      <4>1. ActiveJobs = {}
        BY <2>2, <3>1 DEF LaneFree
      <4> QED BY <3>1, <4>1, <1>0, <1>1, <1>7
    <3>2. CASE lane # "exclusive"
      <4>1. \A j \in ActiveJobs : jobs[j].lane # "exclusive"
        BY <2>2 DEF LaneFree
      <4> QED BY <3>2, <4>1, <1>0, <1>1 DEF ActiveJobs
    <3> QED BY <3>1, <3>2
  <2>4. \A d \in Callers : adm'[d].at = "resolving" =>
          /\ adm'[d].built.gen <= gen'
          /\ adm'[d].lane = "exclusive" /\ adm'[d].built.gen = gen' =>
               \A k \in Jobs : Owned(k)' /\ jobs'[k].lane # "exclusive" => k \in ActiveJobs'
    BY <2>1, <1>0, <1>1, <1>7, <1>9 DEF IInv, Exclusion
  <2> QED BY <2>3, <2>4 DEF Exclusion
<1> QED BY <1>8, <1>10, <1>11

-----------------------------------------------------------------------------
(* The end of a run.                                                           *)

(* A job that is finished as closed is not active, the rest stays; the case    *)
(* goes on exactly if another job is active.                                   *)
LEMMA FinishClosedFacts ==
  ASSUME IInv, NEW j \in Jobs, jobs[j].status # "none",
         NEW outcome \in {"completed", "failed"}, FinishClosed(j, outcome)
  PROVE  /\ jobs' \in [Jobs -> JobType] /\ state' \in States
         /\ \A k \in Jobs : Kept(k)
         /\ \A k \in Jobs : k # j => jobs'[k] = jobs[k]
         /\ jobs'[j].over = "closed" /\ jobs'[j].status # "running"
         /\ jobs'[j].status = "completed" => j \in ActiveJobs /\ jobs[j].bind.gen = gen /\ outcome = "completed"
         /\ gen' = gen /\ ActiveJobs' = ActiveJobs \ {j}
         /\ WorkGoesOn' /\ BoundToApproval'
<1>1. /\ jobs \in [Jobs -> JobType] /\ state \in States
      /\ gen' = gen /\ scope' = scope /\ plan' = plan /\ state' = StateAfter(j)
  BY DEF IInv, TypeOK, CasesTypeOK, FinishClosed
<1>2. PICK verdict \in Verdicts(j, outcome) :
        jobs' = [jobs EXCEPT ![j].status = verdict, ![j].over = "closed"]
  BY DEF FinishClosed
<1>3. verdict \in {"completed", "failed"}
  BY DEF Verdicts
<1> DEFINE new == [jobs[j] EXCEPT !.status = verdict, !.over = "closed"]
<1>4. new \in JobType
  BY <1>1, <1>3, SettledFacts DEF Statuses, Ends
<1>5. jobs' = [jobs EXCEPT ![j] = new]
  BY <1>1, <1>2
<1>6. jobs[j] \in JobType
  BY <1>1
<1>7. /\ new.status = verdict /\ new.over = "closed"
      /\ new.kind = jobs[j].kind /\ new.lane = jobs[j].lane /\ new.hosts = jobs[j].hosts
      /\ new.bind = jobs[j].bind /\ new.built = jobs[j].built
      /\ new.finding = jobs[j].finding
  BY <1>6 DEF JobType
<1> HIDE DEF new
<1>8. jobs' \in [Jobs -> JobType]
  BY <1>1, <1>4, <1>5
<1>9. jobs'[j] = new /\ \A k \in Jobs : k # j => jobs'[k] = jobs[k]
  BY <1>1, <1>5
<1>10. \A k \in Jobs : Kept(k)
  BY <1>3, <1>7, <1>9 DEF Kept
<1>11. ActiveJobs' = ActiveJobs \ {j}
  BY <1>3, <1>7, <1>9 DEF ActiveJobs
<1>12. jobs'[j].status = "completed" =>
         j \in ActiveJobs /\ jobs[j].bind.gen = gen /\ outcome = "completed"
  BY <1>7, <1>9 DEF Verdicts
<1>13. WorkGoesOn'
  <2>1. j \in ActiveJobs => jobs[j].bind.gen = gen
    <3>1. Binding(jobs[j].kind).gen = gen
      BY DEF Binding
    <3> QED BY <3>1 DEF IInv, BoundToApproval
  <2>2. WorkGoesOn
    BY DEF IInv
  <2> QED BY <1>1, <1>11, <2>1, <2>2 DEF WorkGoesOn, StateAfter, ApprovedScope
<1>14. BoundToApproval'
  <2>1. \A k \in ActiveJobs' : k \in ActiveJobs /\ jobs'[k] = jobs[k]
    BY <1>9, <1>11 DEF ActiveJobs
  <2>3. \A k \in ActiveJobs' : jobs'[k].built = Binding(jobs'[k].kind) /\ jobs'[k].bind = jobs'[k].built
    BY <2>1 DEF IInv, BoundToApproval
  <2> QED BY <1>1, <2>3 DEF BoundToApproval, Binding
<1>15. state' \in States
  BY <1>1 DEF StateAfter, States
<1> QED BY <1>1, <1>3, <1>7, <1>8, <1>9, <1>10, <1>11, <1>12, <1>13, <1>14, <1>15

(* A revocation leaves no active job, so none is bound to anything.            *)
LEMMA NoneActive ==
  ASSUME ActiveJobs' = {}, state' \notin {"checking", "poc_running"}
  PROVE  WorkGoesOn' /\ BoundToApproval'
BY DEF WorkGoesOn, BoundToApproval

(* A run that is not closed stops the case; the other jobs are revoked.        *)
LEMMA FinishUnclosedFacts ==
  ASSUME IInv, NEW j \in Jobs, jobs[j].status # "none", FinishUnclosed(j)
  PROVE  /\ jobs' \in [Jobs -> JobType] /\ state' \in States
         /\ \A k \in Jobs : Kept(k)
         /\ \A k \in Jobs : k # j => jobs'[k] = Revoked(k)
         /\ jobs'[j].over = "unclosed"
         /\ gen' = gen + 1 /\ ActiveJobs' = {}
         /\ WorkGoesOn' /\ BoundToApproval'
         /\ \A k \in Jobs : jobs'[k].status = "completed" => jobs[k].status = "completed"
<1> DEFINE new == [jobs[j] EXCEPT !.status = "failed", !.over = "unclosed"]
<1>1. jobs[j] \in JobType
  BY DEF IInv, TypeOK, CasesTypeOK
<1>2. new \in JobType
  BY <1>1, SettledFacts DEF Statuses, Ends
<1>3. /\ new.status = "failed" /\ new.over = "unclosed"
      /\ new.kind = jobs[j].kind /\ new.lane = jobs[j].lane /\ new.hosts = jobs[j].hosts
      /\ new.bind = jobs[j].bind /\ new.built = jobs[j].built
      /\ new.finding = jobs[j].finding
  BY <1>1 DEF JobType
<1>4. jobs' = [k \in Jobs |-> IF k = j THEN new ELSE Revoked(k)]
  BY DEF FinishUnclosed
<1> HIDE DEF new
<1>5. jobs'[j] = new /\ \A k \in Jobs : k # j => jobs'[k] = Revoked(k)
  BY <1>4
<1>6. jobs' \in [Jobs -> JobType]
  BY <1>2, <1>4, RevokedFacts
<1>7. \A k \in Jobs : Kept(k)
  BY <1>3, <1>5, RevokedFacts DEF Kept
<1>8. ActiveJobs' = {}
  BY <1>3, <1>5, RevokedFacts DEF ActiveJobs
<1>9. gen' = gen + 1 /\ state' = "paused"
  BY DEF FinishUnclosed
<1>10. \A k \in Jobs : jobs'[k].status = "completed" => jobs[k].status = "completed"
  <2>1. \A k \in Jobs : Revoked(k).status = "completed" => jobs[k].status = "completed"
    <3> TAKE k \in Jobs
    <3>1. jobs[k] \in JobType
      BY DEF IInv, TypeOK, CasesTypeOK
    <3> QED BY <3>1 DEF Revoked, JobType
  <2> QED BY <2>1, <1>3, <1>5
<1> QED BY <1>3, <1>5, <1>6, <1>7, <1>8, <1>9, <1>10, NoneActive DEF States

(* A run whose result is refused stops the case when it is not closed.         *)
LEMMA StopRefusedFacts ==
  ASSUME IInv, NEW j \in Jobs, StopRefused(j)
  PROVE  /\ jobs' \in [Jobs -> JobType] /\ state' \in States
         /\ \A k \in Jobs : Kept(k) /\ jobs'[k].status = Revoked(k).status
         /\ \A k \in Jobs : k # j => jobs'[k] = Revoked(k)
         /\ jobs'[j].over = "abandoned"
         /\ gen' = gen + 1 /\ ActiveJobs' = {}
         /\ WorkGoesOn' /\ BoundToApproval'
<1> DEFINE new == [Revoked(j) EXCEPT !.over = "abandoned"]
<1>1. Revoked(j) \in JobType
  BY RevokedFacts
<1>2. new \in JobType
  BY <1>1 DEF JobType
<1>3. /\ new.status = Revoked(j).status /\ new.over = "abandoned"
      /\ new.kind = Revoked(j).kind /\ new.lane = Revoked(j).lane /\ new.hosts = Revoked(j).hosts
      /\ new.bind = Revoked(j).bind /\ new.built = Revoked(j).built
      /\ new.finding = Revoked(j).finding
  BY <1>1 DEF JobType
<1>4. jobs' = [k \in Jobs |-> IF k = j THEN new ELSE Revoked(k)]
  BY DEF StopRefused
<1> HIDE DEF new
<1>5. jobs'[j] = new /\ \A k \in Jobs : k # j => jobs'[k] = Revoked(k)
  BY <1>4
<1>6. jobs' \in [Jobs -> JobType]
  BY <1>2, <1>4, RevokedFacts
<1>7. \A k \in Jobs : Kept(k) /\ jobs'[k].status = Revoked(k).status
  BY <1>3, <1>5, RevokedFacts DEF Kept
<1>8. ActiveJobs' = {}
  BY <1>7, RevokedFacts DEF ActiveJobs
<1>9. gen' = gen + 1 /\ state' = "paused"
  BY DEF StopRefused
<1> QED BY <1>3, <1>5, <1>6, <1>7, <1>8, <1>9, NoneActive DEF States

(* Only what is recorded of the end of a run changes.                          *)
LEMMA OverOnlyFacts ==
  ASSUME IInv, NEW j \in Jobs, NEW o \in Ends, jobs' = [jobs EXCEPT ![j].over = o],
         UNCHANGED <<state, gen, scope, plan>>
  PROVE  /\ jobs' \in [Jobs -> JobType]
         /\ \A k \in Jobs : Kept(k) /\ jobs'[k].status = jobs[k].status
         /\ \A k \in Jobs : k # j => jobs'[k] = jobs[k]
         /\ jobs'[j].over = o /\ ActiveJobs' = ActiveJobs
         /\ WorkGoesOn' /\ BoundToApproval'
<1> DEFINE new == [jobs[j] EXCEPT !.over = o]
<1>1. jobs \in [Jobs -> JobType] /\ jobs[j] \in JobType /\ jobs' = [jobs EXCEPT ![j] = new]
  BY DEF IInv, TypeOK, CasesTypeOK
<1>2. new \in JobType
  BY <1>1 DEF JobType, Ends
<1>3. /\ new.status = jobs[j].status /\ new.over = o
      /\ new.kind = jobs[j].kind /\ new.lane = jobs[j].lane /\ new.hosts = jobs[j].hosts
      /\ new.bind = jobs[j].bind /\ new.built = jobs[j].built
      /\ new.finding = jobs[j].finding
  BY <1>1 DEF JobType
<1> HIDE DEF new
<1>4. jobs' \in [Jobs -> JobType]
      /\ jobs'[j] = new /\ \A k \in Jobs : k # j => jobs'[k] = jobs[k]
  BY <1>1, <1>2
<1>5. \A k \in Jobs : Kept(k) /\ jobs'[k].status = jobs[k].status
  BY <1>3, <1>4 DEF Kept
<1>6. ActiveJobs' = ActiveJobs
  BY <1>5 DEF ActiveJobs
<1>7. WorkGoesOn'
  BY <1>6 DEF IInv, WorkGoesOn, ApprovedScope
<1>8. BoundToApproval'
  <2>1. ActiveJobs \subseteq Jobs
    BY DEF ActiveJobs
  <2> QED BY <1>5, <1>6, <2>1 DEF IInv, BoundToApproval, Binding, Kept
<1> QED BY <1>3, <1>4, <1>5, <1>6, <1>7, <1>8

\* The coroutine that answers for job j ends.
Leaves(j) ==
    \/ mon[j] # "none" /\ mon' = [mon EXCEPT ![j] = "none"] /\ adm' = adm
    \/ \E c \in Callers : /\ Admits(c, j) /\ mon' = mon
                          /\ adm' = [adm EXCEPT ![c] = Idle]

(* Then nobody answers for j, and the other jobs have their owners.            *)
LEMMA LeavesFacts ==
  ASSUME IInv, NEW j \in Jobs, Leaves(j)
  PROVE  /\ Owned(j) /\ jobs[j].status # "none" /\ jobs[j].over = "no"
         /\ mon'[j] = "none" /\ \A c \in Callers : ~Admits(c, j)'
         /\ \A k \in Jobs : k # j =>
              mon'[k] = mon[k] /\ \A c \in Callers : Admits(c, k)' <=> Admits(c, k)
         /\ \A k \in Jobs : Owned(k)' => Owned(k)
         /\ ~Owned(j)' /\ AdmKept
         /\ adm' \in [Callers -> {Idle} \cup Waiting \cup Owning]
         /\ mon' \in [Jobs -> {"none", "watching"} \cup Closing]
<1>1. /\ adm \in [Callers -> {Idle} \cup Waiting \cup Owning]
      /\ mon \in [Jobs -> {"none", "watching"} \cup Closing]
  BY DEF IInv, TypeOK, RunsTypeOK
<1>2. Owned(j) /\ jobs[j].status # "none" /\ jobs[j].over = "no" /\ JobSound(j)
  <2>1. JobSound(j)
    BY DEF IInv, JobsSound
  <2>2. Owned(j)
    BY DEF Leaves, Owned
  <2> QED BY <2>1, <2>2 DEF JobSound
<1>3. CASE mon[j] # "none" /\ mon' = [mon EXCEPT ![j] = "none"] /\ adm' = adm
  <2>1. \A k \in Jobs : \A c \in Callers : Admits(c, k)' <=> Admits(c, k)
    BY <1>3 DEF Admits
  <2>2. \A c \in Callers : ~Admits(c, j)
    BY <1>2, <1>3 DEF JobSound
  <2>3. mon'[j] = "none" /\ (\A k \in Jobs : k # j => mon'[k] = mon[k])
        /\ mon' \in [Jobs -> {"none", "watching"} \cup Closing]
    BY <1>1, <1>3
  <2> QED BY <1>1, <1>2, <1>3, <2>1, <2>2, <2>3 DEF Owned, AdmKept
<1>4. ASSUME NEW c \in Callers, Admits(c, j), mon' = mon, adm' = [adm EXCEPT ![c] = Idle]
      PROVE  /\ mon'[j] = "none" /\ \A d \in Callers : ~Admits(d, j)'
             /\ \A k \in Jobs : k # j =>
                  mon'[k] = mon[k] /\ \A d \in Callers : Admits(d, k)' <=> Admits(d, k)
             /\ \A k \in Jobs : Owned(k)' => Owned(k)
             /\ ~Owned(j)' /\ AdmKept
             /\ adm' \in [Callers -> {Idle} \cup Waiting \cup Owning]
             /\ mon' \in [Jobs -> {"none", "watching"} \cup Closing]
  <2>1. adm'[c] = Idle /\ \A d \in Callers : d # c => adm'[d] = adm[d]
    BY <1>1, <1>4
  <2>2. mon[j] = "none" /\ \A d \in Callers : Admits(d, j) => d = c
    BY <1>2, <1>4 DEF JobSound
  <2>3. \A d \in Callers : ~Admits(d, j)'
    BY <2>1, <2>2 DEF Admits, Idle
  <2>4. \A k \in Jobs : k # j => \A d \in Callers : Admits(d, k)' <=> Admits(d, k)
    BY <1>4, <2>1 DEF Admits, Idle
  <2>5. adm' \in [Callers -> {Idle} \cup Waiting \cup Owning]
    BY <1>1, <1>4
  <2> QED BY <1>1, <1>2, <1>4, <2>1, <2>2, <2>3, <2>4, <2>5 DEF Owned, AdmKept, Idle
<1> QED BY <1>2, <1>3, <1>4 DEF Leaves

(* The run of j is over: it is not answered for, nor on the host if it was     *)
(* closed, unless as a container that came late; and the other jobs are        *)
(* revoked at most.                                                            *)
LEMMA OverFacts ==
  ASSUME IInv, NEW j \in Jobs, Leaves(j), \A k \in Jobs : Kept(k),
         \A k \in Jobs : k # j =>
           /\ proc'[k] = proc[k] /\ jobs'[k].over = jobs[k].over
           /\ jobs'[k].status \in {"running", "completed"} => jobs'[k].status = jobs[k].status,
         jobs'[j].over # "no",
         jobs'[j].status = "running" => jobs'[j].over \in {"refused", "abandoned"},
         jobs'[j].over \in {"closed", "refused"} => proc'[j] \in {"exited", "loose"},
         jobs'[j].status = "completed" => jobs'[j].over = "closed" /\ proc'[j] = "exited"
  PROVE  JobsSound'
<1>1. /\ mon'[j] = "none" /\ \A c \in Callers : ~Admits(c, j)'
      /\ jobs[j].status # "none" /\ ~Owned(j)'
      /\ \A k \in Jobs : k # j =>
           mon'[k] = mon[k] /\ \A c \in Callers : Admits(c, k)' <=> Admits(c, k)
  BY LeavesFacts
<1>2. \A k \in Jobs : k # j => JobSound(k)'
  BY <1>1, JobStep
<1>3. JobSound(j)'
  BY <1>1 DEF JobSound, Kept
<1> QED BY <1>2, <1>3 DEF JobsSound

-----------------------------------------------------------------------------
(* The commands of the operator.                                               *)

CampTyped == camp \in [status : {"none", "active", "completed", "paused", "blocked"},
                       scope : Nat, gen : Nat]

(* The campaign keeps its type when its status is set.                         *)
LEMMA CampaignFacts ==
  ASSUME IInv, NEW status \in {"completed", "paused", "blocked"}, Campaign(status)
  PROVE  CampTyped'
<1>1. camp \in [status : {"none", "active", "completed", "paused", "blocked"},
                scope : Nat, gen : Nat]
  BY DEF IInv, TypeOK, CasesTypeOK
<1> QED BY <1>1 DEF Campaign, CampTyped

(* A step that leaves the jobs and their coroutines alone.                     *)
LEMMA QuietStep ==
  ASSUME IInv, UNCHANGED <<jobs, gen, runVars>>
  PROVE  /\ RunsTypeOK' /\ Numbered' /\ JobsSound' /\ LanesApart' /\ Exclusion'
         /\ drv' = drv => DriverSound'
         /\ ActiveJobs' = ActiveJobs
<1>1. /\ \A j \in Jobs : Kept(j) /\ (Owned(j)' <=> Owned(j))
      /\ \A j \in Jobs : \A c \in Callers : Admits(c, j)' <=> Admits(c, j)
      /\ AdmKept /\ ActiveJobs' = ActiveJobs
  BY DEF Kept, Owned, Admits, AdmKept, ActiveJobs, runVars
<1>2. RunsTypeOK'
  BY DEF IInv, TypeOK, RunsTypeOK, runVars
<1>3. Numbered'
  BY NumberedStep
<1>4. JobsSound'
  BY <1>1, JobStep DEF JobsSound, runVars
<1>5. LanesApart'
  BY <1>1, LanesStep DEF runVars
<1>6. Exclusion'
  BY <1>1, ExclusionStep
<1>7. drv' = drv => DriverSound'
  BY <1>1, DriverStep DEF runVars
<1> QED BY <1>1, <1>2, <1>3, <1>4, <1>5, <1>6, <1>7

(* The stage of the case and the approvals move while no job is active.        *)
LEMMA StageStep ==
  ASSUME IInv,
         \/ BeginDiscovery \/ FinishDiscovery \/ ProposeActions
         \/ ActivateScope \/ ActivateActions \/ Resume,
         UNCHANGED <<runVars, drv, stopping>>
  PROVE  IInv'
<1>1. UNCHANGED <<jobs, gen, camp, tasks>>
  BY DEF BeginDiscovery, FinishDiscovery, ProposeActions, ActivateScope, ActivateActions, Resume
<1>2. /\ RunsTypeOK' /\ Numbered' /\ JobsSound' /\ LanesApart' /\ Exclusion' /\ DriverSound'
      /\ ActiveJobs' = ActiveJobs
  BY <1>1, QuietStep
<1>3. ActiveJobs = {} /\ state' \in States \ {"checking", "poc_running"}
  BY DEF IInv, WorkGoesOn, ApprovedScope, Accepting, States, BeginDiscovery, FinishDiscovery,
         ProposeActions, ActivateScope, ActivateActions, Resume
<1>4. WorkGoesOn' /\ BoundToApproval'
  BY <1>2, <1>3, NoneActive
<1>5. CasesTypeOK'
  <2>1. scope' \in [ver : Nat, status : {"none", "pending", "approved"}]
    BY DEF IInv, TypeOK, CasesTypeOK, BeginDiscovery, FinishDiscovery,
           ProposeActions, ActivateScope, ActivateActions, Resume
  <2>2. plan' \in [ver : Nat, status : {"none", "pending", "approved"}, scope : Nat]
    BY DEF IInv, TypeOK, CasesTypeOK, BeginDiscovery, FinishDiscovery,
           ProposeActions, ActivateScope, ActivateActions, Resume
  <2> QED BY <1>1, <1>3, <2>1, <2>2 DEF IInv, TypeOK, CasesTypeOK
<1>6. TypeOK'
  BY <1>2, <1>5 DEF TypeOK, IInv, DriverType
<1> QED BY <1>2, <1>4, <1>6 DEF IInv

(* All active jobs are revoked and a new generation begins.                    *)
LEMMA RevokeStep ==
  ASSUME IInv, RevokeIn, UNCHANGED <<runVars, drv>>, state' \notin {"checking", "poc_running"}
  PROVE  /\ jobs' \in [Jobs -> JobType] /\ gen' \in Nat
         /\ RunsTypeOK' /\ Numbered' /\ WorkGoesOn' /\ BoundToApproval'
         /\ JobsSound' /\ DriverSound' /\ LanesApart' /\ Exclusion'
<1>1. jobs' = [j \in Jobs |-> Revoked(j)] /\ gen' = gen + 1 /\ gen \in Nat
  BY DEF RevokeIn, IInv, TypeOK, CasesTypeOK
<1>2. \A j \in Jobs : jobs'[j] = Revoked(j)
  BY <1>1
<1>3. jobs' \in [Jobs -> JobType]
  BY <1>1, RevokedFacts
<1>4. \A j \in Jobs : /\ Kept(j) /\ jobs'[j].over = jobs[j].over /\ jobs'[j].status # "running"
                      /\ jobs'[j].status = "completed" => jobs[j].status = "completed"
  BY <1>2, RevokedFacts DEF Kept
<1>5. /\ \A j \in Jobs : \A c \in Callers : Admits(c, j)' <=> Admits(c, j)
      /\ \A j \in Jobs : Owned(j)' <=> Owned(j)
      /\ AdmKept
  BY DEF Owned, Admits, AdmKept, runVars
<1>6. ActiveJobs' = {}
  BY <1>4 DEF ActiveJobs
<1>7. RunsTypeOK'
  BY DEF IInv, TypeOK, RunsTypeOK, runVars
<1>8. Numbered'
  BY <1>4, NumberedStep DEF Kept
<1>9. WorkGoesOn' /\ BoundToApproval'
  BY <1>6, NoneActive
<1>10. JobsSound'
  BY <1>4, <1>5, JobStep DEF JobsSound, runVars
<1>11. DriverSound'
  BY <1>4, DriverStep DEF runVars
<1>12. LanesApart'
  BY <1>4, <1>5, LanesStep DEF runVars
<1>13. Exclusion'
  BY <1>1, <1>4, <1>5, <1>6, ExclusionStep
<1> QED BY <1>1, <1>3, <1>7, <1>8, <1>9, <1>10, <1>11, <1>12, <1>13

(* A new scope.                                                                *)
LEMMA ScopeStep ==
  ASSUME IInv, ProposeScope \/ ExtendBudget, UNCHANGED <<runVars, drv, stopping>>
  PROVE  IInv'
<1>1. /\ SaveScope /\ RevokeIn /\ state' = "discovery_review"
      /\ scope' = [ver |-> scope.ver + 1, status |-> "pending"]
      /\ UNCHANGED <<plan, camp, tasks>>
  BY DEF ProposeScope, ExtendBudget, SaveScope
<1>2. /\ jobs' \in [Jobs -> JobType] /\ gen' \in Nat
      /\ RunsTypeOK' /\ Numbered' /\ WorkGoesOn' /\ BoundToApproval'
      /\ JobsSound' /\ DriverSound' /\ LanesApart' /\ Exclusion'
  BY <1>1, RevokeStep
<1>3. scope' \in [ver : Nat, status : {"none", "pending", "approved"}]
  BY <1>1 DEF IInv, TypeOK, CasesTypeOK
<1>4. TypeOK'
  BY <1>1, <1>2, <1>3 DEF IInv, TypeOK, CasesTypeOK, States, DriverType
<1> QED BY <1>2, <1>4 DEF IInv

-----------------------------------------------------------------------------
(* Admissions and runs.                                                        *)

(* What stays has its type.                                                    *)
LEMMA CaseSame ==
  ASSUME IInv, UNCHANGED caseVars
  PROVE  UNCHANGED <<state, gen, scope, plan, jobs>> /\ CampTyped' /\ TasksTyped'
BY DEF IInv, TypeOK, CasesTypeOK, CampTyped, TasksTyped, caseVars

(* A step of a coroutine that leaves the case alone and gives up no job.       *)
LEMMA RunStep ==
  ASSUME IInv, UNCHANGED <<state, gen, scope, plan, jobs, lanes>>, CampTyped', TasksTyped',
         preparing' \in BOOLEAN, AdmKept,
         adm' \in [Callers -> {Idle} \cup Waiting \cup Owning],
         mon' \in [Jobs -> {"none", "watching"} \cup Closing],
         proc' \in [Jobs -> {"none", "starting", "up", "exited", "loose"}],
         \A j \in Jobs : Owned(j)' <=> Owned(j), JobsSound',
         drv' \in DriverType, stopping' \in BOOLEAN, DriverSound'
  PROVE  IInv'
<1>1. /\ \A j \in Jobs : Kept(j)
      /\ ActiveJobs' = ActiveJobs
  BY DEF Kept, ActiveJobs
<1>2. CasesTypeOK'
  BY DEF IInv, TypeOK, CasesTypeOK, CampTyped, TasksTyped
<1>3. RunsTypeOK'
  BY DEF IInv, TypeOK, RunsTypeOK
<1>4. Numbered'
  BY NumberedStep
<1>5. WorkGoesOn'
  BY <1>1 DEF IInv, WorkGoesOn, ApprovedScope
<1>6. BoundToApproval'
  BY <1>1 DEF IInv, BoundToApproval, Binding
<1>7. LanesApart'
  BY <1>1, LanesStep
<1>8. Exclusion'
  BY <1>1, ExclusionStep
<1> QED BY <1>2, <1>3, <1>4, <1>5, <1>6, <1>7, <1>8 DEF IInv, TypeOK

(* The remote side of a run.                                                   *)
LEMMA RemoteStep ==
  ASSUME IInv, NEW j \in Jobs, Remote(j)
  PROVE  IInv'
<1>1. /\ UNCHANGED <<caseVars, adm, preparing, lanes, mon, drv, stopping>>
      /\ \E p \in {"up", "exited"} : proc' = [proc EXCEPT ![j] = p]
      /\ proc[j] \in {"starting", "up"}
  BY DEF Remote, RemoteUp, RemoteExits
<1>2. PICK p \in {"up", "exited"} : proc' = [proc EXCEPT ![j] = p]
  BY <1>1
<1>3. /\ proc \in [Jobs -> {"none", "starting", "up", "exited", "loose"}]
      /\ mon \in [Jobs -> {"none", "watching"} \cup Closing]
      /\ adm \in [Callers -> {Idle} \cup Waiting \cup Owning]
      /\ preparing \in BOOLEAN /\ drv \in DriverType /\ stopping \in BOOLEAN
  BY DEF IInv, TypeOK, RunsTypeOK
<1>4. proc' \in [Jobs -> {"none", "starting", "up", "exited", "loose"}]
      /\ proc'[j] = p /\ \A k \in Jobs : k # j => proc'[k] = proc[k]
  BY <1>2, <1>3
<1>5. /\ AdmKept
      /\ \A k \in Jobs : \A c \in Callers : Admits(c, k)' <=> Admits(c, k)
      /\ \A k \in Jobs : Kept(k) /\ jobs'[k] = jobs[k] /\ mon'[k] = mon[k]
      /\ \A k \in Jobs : Owned(k)' <=> Owned(k)
  BY <1>1 DEF AdmKept, Admits, Owned, Kept, caseVars
<1>6. JobsSound'
  <2>1. \A k \in Jobs : k # j => JobSound(k)'
    BY <1>4, <1>5, JobStep
  <2>2. JobSound(j)'
    <3>1. JobSound(j) /\ mon'[j] # "completed"
      BY <1>1, <1>5 DEF IInv, JobsSound, JobSound
    <3>2. /\ jobs[j].status \notin {"none", "completed"}
          /\ jobs[j].over \notin {"closed", "refused"}
      BY <1>1, <3>1 DEF JobSound
    <3> QED BY <1>5, <3>1, <3>2 DEF JobSound
  <2> QED BY <2>1, <2>2 DEF JobsSound
<1>7. DriverSound'
  BY <1>1, <1>5, DriverStep
<1> QED BY <1>1, <1>3, <1>4, <1>5, <1>6, <1>7, RunStep, CaseSame

(* A monitor has seen the end of its run.                                      *)
LEMMA SeenStep ==
  ASSUME IInv, NEW j \in Jobs, RunCompletes(j) \/ RunBreaks(j), UNCHANGED <<drv, stopping>>
  PROVE  IInv'
<1>1. /\ UNCHANGED <<caseVars, adm, preparing, lanes, proc>> /\ mon[j] = "watching"
      /\ \/ mon' = [mon EXCEPT ![j] = "completed"] /\ proc[j] = "exited"
         \/ mon' = [mon EXCEPT ![j] = "failed"]
  BY DEF RunCompletes, RunBreaks
<1>2. /\ proc \in [Jobs -> {"none", "starting", "up", "exited", "loose"}]
      /\ mon \in [Jobs -> {"none", "watching"} \cup Closing]
      /\ adm \in [Callers -> {Idle} \cup Waiting \cup Owning]
      /\ preparing \in BOOLEAN /\ drv \in DriverType /\ stopping \in BOOLEAN
  BY DEF IInv, TypeOK, RunsTypeOK
<1>3. /\ mon' \in [Jobs -> {"none", "watching"} \cup Closing]
      /\ mon'[j] \in {"completed", "failed"} /\ (mon'[j] = "completed" => proc[j] = "exited")
      /\ \A k \in Jobs : k # j => mon'[k] = mon[k]
  BY <1>1, <1>2 DEF Closing
<1>4. /\ AdmKept
      /\ \A k \in Jobs : \A c \in Callers : Admits(c, k)' <=> Admits(c, k)
      /\ \A k \in Jobs : Kept(k) /\ jobs'[k] = jobs[k] /\ proc'[k] = proc[k]
  BY <1>1 DEF AdmKept, Admits, Kept, caseVars
<1>5. \A k \in Jobs : Owned(k)' <=> Owned(k)
  BY <1>1, <1>3, <1>4 DEF Owned
<1>6. JobsSound'
  <2>1. \A k \in Jobs : k # j => JobSound(k)'
    BY <1>3, <1>4, JobStep
  <2>2. JobSound(j)'
    <3>1. JobSound(j)
      BY DEF IInv, JobsSound
    <3> QED BY <1>1, <1>3, <1>4, <1>5, <3>1 DEF JobSound
  <2> QED BY <2>1, <2>2 DEF JobsSound
<1>7. DriverSound'
  BY <1>1, <1>4, DriverStep
<1> QED BY <1>1, <1>2, <1>3, <1>4, <1>5, <1>6, <1>7, RunStep, CaseSame

(* An admission has launched its run: from now on a monitor answers for it.    *)
LEMMA LaunchedFacts ==
  ASSUME IInv, NEW c \in Callers, Launched(c)
  PROVE  /\ UNCHANGED <<caseVars, lanes, proc>> /\ preparing' \in BOOLEAN /\ AdmKept
         /\ adm' \in [Callers -> {Idle} \cup Waiting \cup Owning]
         /\ mon' \in [Jobs -> {"none", "watching"} \cup Closing]
         /\ \A j \in Jobs : Owned(j)' <=> Owned(j)
         /\ JobsSound' /\ adm[c].at = "launching" /\ adm[c].job \in Jobs
         /\ adm'[c] = Idle /\ \A d \in Callers : d # c => adm'[d] = adm[d]
<1>1. PICK j \in Jobs : j = adm[c].job
  BY CallerFacts DEF Launched
<1>2. /\ UNCHANGED <<caseVars, lanes, proc>> /\ adm[c].at = "launching"
      /\ mon' = [mon EXCEPT ![j] = "watching"] /\ adm' = [adm EXCEPT ![c] = Idle]
      /\ preparing' \in BOOLEAN
  BY <1>1 DEF Launched, Open
<1>3. /\ mon \in [Jobs -> {"none", "watching"} \cup Closing]
      /\ adm \in [Callers -> {Idle} \cup Waiting \cup Owning]
  BY DEF IInv, TypeOK, RunsTypeOK
<1>4. /\ mon' \in [Jobs -> {"none", "watching"} \cup Closing]
      /\ mon'[j] = "watching" /\ \A k \in Jobs : k # j => mon'[k] = mon[k]
  BY <1>2, <1>3
<1>5. /\ adm' \in [Callers -> {Idle} \cup Waiting \cup Owning]
      /\ adm'[c] = Idle /\ \A d \in Callers : d # c => adm'[d] = adm[d]
  BY <1>2, <1>3
<1>6. Admits(c, j) /\ Owned(j) /\ \A d \in Callers : Admits(d, j) => d = c
  BY <1>1, <1>2, CallerFacts
<1>7. /\ \A d \in Callers : ~Admits(d, j)'
      /\ \A k \in Jobs : k # j => \A d \in Callers : Admits(d, k)' <=> Admits(d, k)
  BY <1>1, <1>5, <1>6 DEF Admits, Idle
<1>8. Owned(j)' /\ \A k \in Jobs : Owned(k)' <=> Owned(k)
  BY <1>4, <1>6, <1>7 DEF Owned
<1>9. \A k \in Jobs : Kept(k) /\ jobs'[k] = jobs[k] /\ proc'[k] = proc[k]
  BY <1>2 DEF Kept, caseVars
<1>10. JobsSound'
  <2>1. \A k \in Jobs : k # j => JobSound(k)'
    BY <1>4, <1>7, <1>9, JobStep
  <2>2. JobSound(j)'
    <3>1. JobSound(j)
      BY DEF IInv, JobsSound
    <3> QED BY <1>4, <1>6, <1>7, <1>8, <1>9, <3>1 DEF JobSound
  <2> QED BY <2>1, <2>2 DEF JobsSound
<1>11. AdmKept
  BY <1>5 DEF AdmKept, Idle
<1> QED BY <1>1, <1>2, <1>4, <1>5, <1>8, <1>10, <1>11

(* A launch that failed is aborted by the same admission.                      *)
LEMMA AbortingStep ==
  ASSUME IInv, NEW c \in Callers, adm[c].at = "launching",
         adm' = [adm EXCEPT ![c].at = "aborting"],
         UNCHANGED <<state, gen, scope, plan, jobs, preparing, lanes, mon, proc, drv>>,
         CampTyped', TasksTyped', stopping' \in BOOLEAN
  PROVE  IInv'
<1>1. /\ UNCHANGED <<jobs, preparing, lanes, mon, proc, drv>> /\ adm[c].at = "launching"
      /\ adm' = [adm EXCEPT ![c].at = "aborting"]
  OBVIOUS
<1>2. /\ proc \in [Jobs -> {"none", "starting", "up", "exited", "loose"}]
      /\ mon \in [Jobs -> {"none", "watching"} \cup Closing]
      /\ adm \in [Callers -> {Idle} \cup Waiting \cup Owning]
      /\ preparing \in BOOLEAN /\ drv \in DriverType
  BY DEF IInv, TypeOK, RunsTypeOK
<1>3. adm[c] \in Owning
  BY <1>1, CallerFacts
<1>4. /\ adm'[c] \in Owning /\ adm'[c].at = "aborting" /\ adm'[c].job = adm[c].job
      /\ \A d \in Callers : d # c => adm'[d] = adm[d]
  BY <1>1, <1>2, <1>3 DEF Owning
<1>5. adm' \in [Callers -> {Idle} \cup Waiting \cup Owning]
  BY <1>1, <1>2, <1>4
<1>6. \A k \in Jobs : \A d \in Callers : Admits(d, k)' <=> Admits(d, k)
  BY <1>1, <1>4 DEF Admits
<1>7. AdmKept
  BY <1>4 DEF AdmKept
<1>8. /\ \A k \in Jobs : Kept(k) /\ jobs'[k] = jobs[k] /\ proc'[k] = proc[k] /\ mon'[k] = mon[k]
      /\ \A k \in Jobs : Owned(k)' <=> Owned(k)
  BY <1>1, <1>6 DEF Kept, Owned
<1>9. JobsSound'
  BY <1>6, <1>8, JobStep DEF JobsSound
<1>10. DriverSound'
  <2>1. Driver \in Callers
    BY DEF Callers
  <2>2. \/ adm'[Driver] = adm[Driver]
        \/ adm'[Driver].at = "aborting" /\ adm[Driver].at = "launching"
    BY <1>1, <1>4, <2>1
  <2> QED BY <1>6, <1>8, <2>1, <2>2 DEF IInv, DriverSound
<1> QED BY <1>1, <1>2, <1>5, <1>7, <1>8, <1>9, <1>10, RunStep

LEMMA LaunchFailsStep ==
  ASSUME IInv, NEW c \in Callers, LaunchFails(c), UNCHANGED <<drv, stopping>>
  PROVE  IInv'
<1>1. /\ adm[c].at = "launching" /\ adm' = [adm EXCEPT ![c].at = "aborting"]
      /\ UNCHANGED <<caseVars, preparing, lanes, mon, proc>>
  BY DEF LaunchFails
<1>2. stopping' \in BOOLEAN
  BY DEF IInv, TypeOK
<1> QED BY <1>1, <1>2, AbortingStep, CaseSame

(* A request that gave up, or that only opened the gate.                       *)
LEMMA GivenUpStep ==
  ASSUME IInv, UNCHANGED <<drv, stopping>>,
         RefusedCall \/ \E c \in Operators : ResolveFails(c)
  PROVE  IInv'
<1>1. /\ UNCHANGED <<caseVars, lanes, mon, proc>> /\ preparing' \in BOOLEAN
      /\ \/ adm' = adm
         \/ \E c \in Operators : adm[c].at = "resolving" /\ adm' = [adm EXCEPT ![c] = Idle]
  BY DEF RefusedCall, ResolveFails, Open
<1>2. /\ proc \in [Jobs -> {"none", "starting", "up", "exited", "loose"}]
      /\ mon \in [Jobs -> {"none", "watching"} \cup Closing]
      /\ adm \in [Callers -> {Idle} \cup Waiting \cup Owning]
      /\ drv \in DriverType /\ stopping \in BOOLEAN
  BY DEF IInv, TypeOK, RunsTypeOK
<1>3. \A c \in Callers : \/ adm'[c] = adm[c]
                         \/ adm[c].at = "resolving" /\ adm'[c] = Idle /\ c # Driver
  BY <1>1, <1>2, CallersAssumption DEF Callers
<1>4. adm' \in [Callers -> {Idle} \cup Waiting \cup Owning]
  BY <1>1, <1>2
<1>5. AdmKept
  BY <1>3 DEF AdmKept, Idle
<1>6. \A k \in Jobs : \A d \in Callers : Admits(d, k)' <=> Admits(d, k)
  BY <1>3 DEF Admits, Idle
<1>7. /\ \A k \in Jobs : Kept(k) /\ jobs'[k] = jobs[k] /\ proc'[k] = proc[k] /\ mon'[k] = mon[k]
      /\ \A k \in Jobs : Owned(k)' <=> Owned(k)
  BY <1>1, <1>6 DEF Kept, Owned, caseVars
<1>8. JobsSound'
  BY <1>6, <1>7, JobStep DEF JobsSound
<1>9. DriverSound'
  <2>1. Driver \in Callers
    BY DEF Callers
  <2> QED BY <1>3, <1>7, <2>1, DriverStep
<1> QED BY <1>1, <1>2, <1>4, <1>5, <1>7, <1>8, <1>9, RunStep, CaseSame

(* A request enters its lane and waits for the DNS.                            *)
LEMMA ResolveStep ==
  ASSUME IInv, NEW c \in Operators, NEW kind \in {"tool", "poc"},
         NEW finding \in Findings \cup {"none"}, NEW h \in Hosts,
         Resolve(c, kind, finding, h), UNCHANGED <<drv, stopping>>
  PROVE  IInv'
<1>1. PICK lane \in {"exclusive", "operator"} :
        /\ EnterLane(lane, {h}) /\ Close(lane)
        /\ adm' = [adm EXCEPT ![c] = [at |-> "resolving", kind |-> kind, finding |-> finding,
                                      lane |-> lane, host |-> h, built |-> Binding(kind)]]
  BY DEF Resolve, OperatorLane
<1>2. UNCHANGED <<caseVars, lanes, mon, proc>> /\ adm[c] = Idle /\ preparing' \in BOOLEAN
  BY <1>1 DEF Resolve, Close, IInv, TypeOK, RunsTypeOK
<1>3. /\ adm \in [Callers -> {Idle} \cup Waiting \cup Owning]
      /\ c \in Callers /\ c # Driver /\ Driver \in Callers
      /\ gen \in Nat /\ scope.ver \in Nat /\ plan.ver \in Nat
  BY CallersAssumption DEF IInv, TypeOK, RunsTypeOK, CasesTypeOK, Callers
<1>4. Binding(kind) \in Bindings /\ Binding(kind).gen = gen
  BY <1>3 DEF Binding, Bindings
<1>5. /\ adm'[c] \in Waiting /\ adm'[c].at = "resolving" /\ adm'[c].lane = lane
      /\ adm'[c].host = h /\ adm'[c].built = Binding(kind)
      /\ \A d \in Callers : d # c => adm'[d] = adm[d]
  BY <1>1, <1>3, <1>4 DEF Waiting
<1>6. adm' \in [Callers -> {Idle} \cup Waiting \cup Owning]
  <2>1. \A d \in Callers : adm'[d] \in {Idle} \cup Waiting \cup Owning
    BY <1>3, <1>5
  <2>2. adm' = [d \in Callers |-> adm'[d]]
    BY <1>1, <1>3
  <2> QED BY <2>1, <2>2
<1>7. \A k \in Jobs : \A d \in Callers : Admits(d, k)' <=> Admits(d, k)
  BY <1>2, <1>5 DEF Admits, Idle
<1>8. /\ \A k \in Jobs : Kept(k) /\ jobs'[k] = jobs[k] /\ proc'[k] = proc[k] /\ mon'[k] = mon[k]
      /\ \A k \in Jobs : Owned(k)' <=> Owned(k)
      /\ ActiveJobs' = ActiveJobs
  BY <1>2, <1>7 DEF Kept, Owned, caseVars, ActiveJobs
<1>9. TypeOK'
  <2>1. CasesTypeOK'
    BY <1>2 DEF IInv, TypeOK, CasesTypeOK, caseVars
  <2>2. RunsTypeOK'
    BY <1>2, <1>6 DEF IInv, TypeOK, RunsTypeOK
  <2> QED BY <2>1, <2>2 DEF IInv, TypeOK
<1>10. Numbered' /\ WorkGoesOn' /\ BoundToApproval'
  <2>1. Numbered'
    BY <1>2, NumberedStep DEF caseVars
  <2>2. WorkGoesOn'
    BY <1>2, <1>8 DEF IInv, WorkGoesOn, ApprovedScope, caseVars
  <2>3. BoundToApproval'
    BY <1>2, <1>8 DEF IInv, BoundToApproval, Binding, caseVars
  <2> QED BY <2>1, <2>2, <2>3
<1>11. JobsSound'
  BY <1>7, <1>8, JobStep DEF JobsSound
<1>12. DriverSound'
  BY <1>3, <1>5, <1>8, DriverStep
<1>13. LanesApart'
  <2>1. jobs' = jobs /\ lanes' = lanes
    BY <1>2 DEF caseVars
  <2>2. \A d \in Reserved' : \/ d \in Reserved /\ adm'[d] = adm[d] /\ d # c
                             \/ d = c /\ lane # "exclusive"
    BY <1>2, <1>5 DEF Reserved, Idle
  <2>3. lane # "exclusive" =>
          /\ \A d \in Reserved : adm[d].host # h
          /\ \A j \in lanes : h \notin jobs[j].hosts
    BY <1>1 DEF EnterLane
  <2>4. \A d \in Reserved' : \A j \in lanes' : adm'[d].host \notin jobs'[j].hosts
    BY <1>5, <2>1, <2>2, <2>3 DEF IInv, LanesApart
  <2>5. \A d, e \in Reserved' : d # e => adm'[d].host # adm'[e].host
    BY <1>5, <2>2, <2>3 DEF IInv, LanesApart
  <2> QED BY <1>8, <2>1, <2>4, <2>5 DEF IInv, LanesApart
<1>14. Exclusion'
  <2>1. gen' = gen /\ jobs' = jobs
    BY <1>2 DEF caseVars
  <2>2. lane = "exclusive" => \A k \in Jobs : Owned(k) => jobs[k].lane = "exclusive"
    BY <1>1 DEF EnterLane, IInv, LanesApart
  <2>3. \A d \in Callers : adm'[d].at = "resolving" =>
          /\ adm'[d].built.gen <= gen'
          /\ adm'[d].lane = "exclusive" /\ adm'[d].built.gen = gen' =>
               \A k \in Jobs : Owned(k)' /\ jobs'[k].lane # "exclusive" => k \in ActiveJobs'
    BY <1>3, <1>4, <1>5, <1>8, <2>1, <2>2 DEF IInv, Exclusion
  <2> QED BY <1>8, <2>1, <2>3 DEF IInv, Exclusion
<1> QED BY <1>9, <1>10, <1>11, <1>12, <1>13, <1>14 DEF IInv

(* The request is admitted.                                                    *)
LEMMA ResolvedStep ==
  ASSUME IInv, NEW c \in Operators, Resolved(c), UNCHANGED <<drv, stopping>>
  PROVE  IInv'
<1>1. c \in Callers /\ c # Driver /\ Driver \in Callers
  BY CallersAssumption DEF Callers
<1>2. PICK kind \in {"tool", "poc"}, finding \in Findings \cup {"none"}, lane \in Lanes,
       h \in Hosts, built \in Bindings :
        /\ adm[c].kind = kind /\ adm[c].finding = finding /\ adm[c].lane = lane
        /\ adm[c].host = h /\ adm[c].built = built
  BY <1>1, CallerFacts DEF Resolved
<1>3. /\ PrepareJob(kind, finding, lane, {h}, built) /\ BindLane(lane, NewJob)
      /\ mon' = [mon EXCEPT ![NewJob] = "watching"]
      /\ proc' = [proc EXCEPT ![NewJob] = "starting"]
      /\ adm' = [adm EXCEPT ![c] = Idle]
      /\ tasks' = tasks /\ preparing' \in BOOLEAN /\ adm[c].at = "resolving"
  BY <1>2 DEF Resolved, Open
<1>4. /\ NewJob \in Jobs /\ (TasksTyped' => CasesTypeOK')
      /\ Numbered' /\ WorkGoesOn' /\ BoundToApproval'
      /\ jobs[NewJob].status = "none" /\ jobs'[NewJob].status = "running"
      /\ \A j \in Jobs : j # NewJob => jobs'[j] = jobs[j]
  BY <1>3, PrepareFacts
<1>5. /\ adm \in [Callers -> {Idle} \cup Waiting \cup Owning]
      /\ mon \in [Jobs -> {"none", "watching"} \cup Closing]
      /\ proc \in [Jobs -> {"none", "starting", "up", "exited", "loose"}]
      /\ lanes \subseteq Jobs
  BY DEF IInv, TypeOK, RunsTypeOK
<1>6. adm'[c] = Idle /\ \A d \in Callers : d # c => adm'[d] = adm[d]
  BY <1>1, <1>3, <1>5
<1>7. JobsSound' /\ LanesApart' /\ Exclusion'
  <2>1. built.gen = gen
    <3>1. built = Binding(kind)
      BY <1>3 DEF PrepareJob, MayPrepare
    <3> QED BY <3>1 DEF Binding
  <2>2. lane = "exclusive" =>
          \A k \in Jobs : Owned(k) /\ jobs[k].lane # "exclusive" => k \in ActiveJobs
    BY <1>1, <1>2, <1>3, <2>1 DEF IInv, Exclusion
  <2>3. lane # "exclusive" =>
          /\ \A j \in lanes : jobs[j].hosts \cap {h} = {}
          /\ \A d \in Reserved : d # c => adm[d].host \notin {h}
    <3>1. lane # "exclusive" => c \in Reserved
      BY <1>1, <1>2, <1>3 DEF Reserved
    <3> QED BY <1>2, <3>1 DEF IInv, LanesApart
  <2>4. Answers(c)
    BY <1>3, <1>6 DEF Answers
  <2> QED BY <1>1, <1>3, <1>6, <2>2, <2>3, <2>4, AdmittedFacts
<1>8. TypeOK'
  <2>1. CasesTypeOK'
    BY <1>3, <1>4 DEF TasksTyped, IInv, TypeOK, CasesTypeOK
  <2>2. lanes' \subseteq Jobs
    BY <1>3, <1>4, <1>5 DEF BindLane
  <2>3. RunsTypeOK'
    BY <1>3, <1>4, <1>5, <2>2 DEF RunsTypeOK
  <2> QED BY <2>1, <2>3 DEF IInv, TypeOK
<1>9. DriverSound'
  <2>1. \A j \in Jobs : jobs[j].status # "none" =>
          jobs'[j].status = jobs[j].status /\ jobs'[j].kind = jobs[j].kind
    BY <1>4
  <2> QED BY <1>1, <1>6, <2>1 DEF IInv, DriverSound, Admits
<1> QED BY <1>4, <1>7, <1>8, <1>9 DEF IInv

(* An agent is admitted in one stretch.                                        *)
LEMMA AdmitFacts ==
  ASSUME IInv, NEW c \in Callers, NEW lane \in Lanes, NEW hosts \in SUBSET Hosts,
         Admit(c, lane, hosts), TasksTyped'
  PROVE  /\ CasesTypeOK' /\ RunsTypeOK' /\ Numbered' /\ WorkGoesOn' /\ BoundToApproval'
         /\ JobsSound' /\ LanesApart' /\ Exclusion'
         /\ NewJob \in Jobs /\ jobs[NewJob].status = "none"
         /\ jobs'[NewJob].status = "running" /\ jobs'[NewJob].kind = "agent"
         /\ \A j \in Jobs : j # NewJob => jobs'[j] = jobs[j]
         /\ adm'[c] = [at |-> "launching", job |-> NewJob]
         /\ \A d \in Callers : d # c => adm'[d] = adm[d]
         /\ adm[c] = Idle
<1>1. PICK built \in Bindings : built = Binding("agent")
  <2>1. gen \in Nat /\ scope.ver \in Nat
    BY DEF IInv, TypeOK, CasesTypeOK
  <2>2. Binding("agent") \in Bindings
    BY <2>1 DEF Binding, Bindings
  <2> QED BY <2>2
<1>2. /\ adm[c] = Idle /\ EnterLane(lane, hosts)
      /\ PrepareJob("agent", "none", lane, hosts, built) /\ BindLane(lane, NewJob)
      /\ proc' = [proc EXCEPT ![NewJob] = "starting"] /\ mon' = mon
      /\ adm' = [adm EXCEPT ![c] = [at |-> "launching", job |-> NewJob]]
      /\ preparing' \in BOOLEAN
  BY <1>1 DEF Admit, Close, IInv, TypeOK, RunsTypeOK
<1>3. /\ NewJob \in Jobs /\ CasesTypeOK'
      /\ Numbered' /\ WorkGoesOn' /\ BoundToApproval'
      /\ jobs[NewJob].status = "none" /\ jobs'[NewJob].status = "running"
      /\ jobs'[NewJob].kind = "agent"
      /\ \A j \in Jobs : j # NewJob => jobs'[j] = jobs[j]
  BY <1>2, PrepareFacts
<1>4. /\ adm \in [Callers -> {Idle} \cup Waiting \cup Owning]
      /\ mon \in [Jobs -> {"none", "watching"} \cup Closing]
      /\ proc \in [Jobs -> {"none", "starting", "up", "exited", "loose"}]
      /\ lanes \subseteq Jobs
  BY DEF IInv, TypeOK, RunsTypeOK
<1>5. /\ adm'[c] = [at |-> "launching", job |-> NewJob]
      /\ \A d \in Callers : d # c => adm'[d] = adm[d]
  BY <1>2, <1>4
<1>6. JobsSound' /\ LanesApart' /\ Exclusion'
  <2>1. lane = "exclusive" =>
          \A k \in Jobs : Owned(k) /\ jobs[k].lane # "exclusive" => k \in ActiveJobs
    BY <1>2 DEF EnterLane, IInv, LanesApart
  <2>2. lane # "exclusive" =>
          /\ \A j \in lanes : jobs[j].hosts \cap hosts = {}
          /\ \A d \in Reserved : d # c => adm[d].host \notin hosts
    BY <1>2 DEF EnterLane
  <2>3. Answers(c) /\ adm[c].at = "idle"
    BY <1>2, <1>5 DEF Answers, Idle
  <2> QED BY <1>2, <1>5, <2>1, <2>2, <2>3, AdmittedFacts
<1>7. RunsTypeOK'
  <2>1. adm' \in [Callers -> {Idle} \cup Waiting \cup Owning]
    <3>1. [at |-> "launching", job |-> NewJob] \in Owning
      BY <1>3 DEF Owning
    <3> QED BY <1>2, <1>4, <3>1
  <2>2. lanes' \subseteq Jobs
    BY <1>2, <1>3, <1>4 DEF BindLane
  <2>3. /\ proc' \in [Jobs -> {"none", "starting", "up", "exited", "loose"}]
        /\ mon' \in [Jobs -> {"none", "watching"} \cup Closing]
    BY <1>2, <1>4
  <2> QED BY <1>2, <2>1, <2>2, <2>3 DEF RunsTypeOK
<1> QED BY <1>2, <1>3, <1>5, <1>6, <1>7

(* The operator starts an agent.                                               *)
LEMMA StartAgentStep ==
  ASSUME IInv, NEW c \in Operators, NEW hosts \in Selections, StartAgent(c, hosts),
         UNCHANGED <<drv, stopping>>
  PROVE  IInv'
<1>1. c \in Callers /\ c # Driver /\ Driver \in Callers
  BY CallersAssumption DEF Callers
<1>2. PICK lane \in Lanes : Admit(c, lane, hosts)
  BY DEF StartAgent, OperatorLane, Lanes
<1>3. hosts \in SUBSET Hosts
  BY CaseAssumption
<1>4. TasksTyped'
  BY DEF StartAgent, TasksTyped, IInv, TypeOK, CasesTypeOK
<1>5. /\ CasesTypeOK' /\ RunsTypeOK' /\ Numbered' /\ WorkGoesOn' /\ BoundToApproval'
      /\ JobsSound' /\ LanesApart' /\ Exclusion'
      /\ jobs[NewJob].status = "none"
      /\ \A j \in Jobs : j # NewJob => jobs'[j] = jobs[j]
      /\ \A d \in Callers : d # c => adm'[d] = adm[d]
  BY <1>1, <1>2, <1>3, <1>4, AdmitFacts
<1>6. DriverSound'
  <2>1. \A j \in Jobs : jobs[j].status # "none" =>
          jobs'[j].status = jobs[j].status /\ jobs'[j].kind = jobs[j].kind
    BY <1>5
  <2> QED BY <1>1, <1>5, <2>1 DEF IInv, DriverSound, Admits
<1>7. TypeOK'
  BY <1>5 DEF IInv, TypeOK
<1> QED BY <1>5, <1>6, <1>7 DEF IInv

(* The campaign starts a segment.                                              *)
LEMMA StartSegmentStep ==
  ASSUME IInv, StartSegment
  PROVE  IInv'
<1>1. PICK t \in Tasks : /\ Admit(Driver, "research", TaskHosts[t])
                         /\ tasks' = [tasks EXCEPT ![t] = "running"]
                         /\ drv' = [at |-> "starting", task |-> t]
  BY DEF StartSegment, Queued
<1>2. Driver \in Callers /\ "research" \in Lanes /\ TaskHosts[t] \in SUBSET Hosts
  BY CaseAssumption DEF Callers, Lanes
<1>3. TasksTyped'
  BY <1>1 DEF TasksTyped, IInv, TypeOK, CasesTypeOK
<1>4. /\ CasesTypeOK' /\ RunsTypeOK' /\ Numbered' /\ WorkGoesOn' /\ BoundToApproval'
      /\ JobsSound' /\ LanesApart' /\ Exclusion'
      /\ NewJob \in Jobs
      /\ jobs'[NewJob].status = "running" /\ jobs'[NewJob].kind = "agent"
      /\ adm'[Driver] = [at |-> "launching", job |-> NewJob]
  BY <1>1, <1>2, <1>3, AdmitFacts
<1>5. DriverSound'
  <2>1. \A j \in Jobs : Admits(Driver, j)' => j = NewJob
    BY <1>4 DEF Admits
  <2> QED BY <1>1, <1>4, <2>1 DEF DriverSound
<1>6. TypeOK'
  <2>1. drv' \in DriverType
    BY <1>1 DEF DriverType
  <2>2. stopping' \in BOOLEAN
    BY DEF StartSegment, IInv, TypeOK
  <2> QED BY <1>4, <2>1, <2>2 DEF TypeOK
<1> QED BY <1>4, <1>5, <1>6 DEF IInv

(* The launch of an agent is verified.                                         *)
LEMMA OperatorLaunchedStep ==
  ASSUME IInv, NEW c \in Operators, Launched(c), UNCHANGED <<drv, stopping>>
  PROVE  IInv'
<1>1. c \in Callers /\ c # Driver /\ Driver \in Callers
  BY CallersAssumption DEF Callers
<1>2. /\ UNCHANGED <<caseVars, lanes, proc>> /\ preparing' \in BOOLEAN /\ AdmKept
      /\ adm' \in [Callers -> {Idle} \cup Waiting \cup Owning]
      /\ mon' \in [Jobs -> {"none", "watching"} \cup Closing]
      /\ \A j \in Jobs : Owned(j)' <=> Owned(j)
      /\ JobsSound' /\ adm'[Driver] = adm[Driver]
  BY <1>1, LaunchedFacts
<1>3. /\ proc' \in [Jobs -> {"none", "starting", "up", "exited", "loose"}]
      /\ drv' \in DriverType /\ stopping' \in BOOLEAN
  BY <1>2 DEF IInv, TypeOK, RunsTypeOK
<1>4. DriverSound'
  <2>1. \A j \in Jobs : Kept(j)
    BY <1>2 DEF Kept, caseVars
  <2> QED BY <1>2, <2>1, DriverStep
<1> QED BY <1>2, <1>3, <1>4, RunStep, CaseSame

LEMMA SegmentLaunchedStep ==
  ASSUME IInv, SegmentLaunched
  PROVE  IInv'
<1>1. Driver \in Callers /\ Launched(Driver)
      /\ drv' = [at |-> "segment", task |-> drv.task, job |-> adm[Driver].job]
      /\ stopping' = stopping
  BY DEF Callers, SegmentLaunched
<1>2. /\ UNCHANGED <<caseVars, lanes, proc>> /\ preparing' \in BOOLEAN /\ AdmKept
      /\ adm' \in [Callers -> {Idle} \cup Waiting \cup Owning]
      /\ mon' \in [Jobs -> {"none", "watching"} \cup Closing]
      /\ \A j \in Jobs : Owned(j)' <=> Owned(j)
      /\ JobsSound' /\ adm'[Driver] = Idle
      /\ adm[Driver].at = "launching" /\ adm[Driver].job \in Jobs
  BY <1>1, LaunchedFacts
<1>3. drv.at = "starting" /\ drv.task \in Tasks
  <2>1. drv.at = "starting"
    BY <1>2 DEF IInv, DriverSound
  <2> QED BY <2>1 DEF IInv, TypeOK, DriverType
<1>4. /\ proc' \in [Jobs -> {"none", "starting", "up", "exited", "loose"}]
      /\ drv' \in DriverType /\ stopping' \in BOOLEAN
  BY <1>1, <1>2, <1>3 DEF IInv, TypeOK, RunsTypeOK, DriverType
<1>5. DriverSound'
  <2>1. jobs' = jobs
    BY <1>2 DEF caseVars
  <2>2. jobs[adm[Driver].job].status # "none" /\ jobs[adm[Driver].job].kind = "agent"
    BY <1>2 DEF IInv, DriverSound, Admits
  <2>3. \A j \in Jobs : ~Admits(Driver, j)'
    BY <1>2 DEF Admits, Idle
  <2> QED BY <1>1, <1>2, <2>1, <2>2, <2>3 DEF DriverSound, Idle
<1> QED BY <1>2, <1>4, <1>5, RunStep, CaseSame

(* The coroutine that answered for a run has ended with it.                    *)
LEMMA EndedStep ==
  ASSUME IInv, NEW j \in Jobs, Leaves(j),
         jobs' \in [Jobs -> JobType], state' \in States, UNCHANGED <<scope, plan>>,
         proc' \in [Jobs -> {"none", "starting", "up", "exited", "loose"}],
         \A k \in Jobs : Kept(k),
         \A k \in Jobs : k # j =>
           /\ proc'[k] = proc[k] /\ jobs'[k].over = jobs[k].over
           /\ jobs'[k].status \in {"running", "completed"} => jobs'[k].status = jobs[k].status,
         jobs'[j].over # "no",
         jobs'[j].status = "running" => jobs'[j].over \in {"refused", "abandoned"},
         jobs'[j].over \in {"closed", "refused"} => proc'[j] \in {"exited", "loose"},
         jobs'[j].status = "completed" => jobs'[j].over = "closed" /\ proc'[j] = "exited",
         ActiveJobs' \subseteq ActiveJobs,
         \/ gen' = gen /\ ActiveJobs \ {j} \subseteq ActiveJobs'
         \/ gen' = gen + 1,
         WorkGoesOn', BoundToApproval',
         lanes' \subseteq lanes, lanes \ lanes' \subseteq {j}, preparing' \in BOOLEAN,
         CampTyped', TasksTyped'
  PROVE  /\ CasesTypeOK' /\ RunsTypeOK' /\ Numbered' /\ WorkGoesOn' /\ BoundToApproval'
         /\ JobsSound' /\ LanesApart' /\ Exclusion'
         /\ \A k \in Jobs : Kept(k)
<1>1. /\ ~Owned(j)' /\ AdmKept /\ \A k \in Jobs : Owned(k)' => Owned(k)
      /\ adm' \in [Callers -> {Idle} \cup Waiting \cup Owning]
      /\ mon' \in [Jobs -> {"none", "watching"} \cup Closing]
  BY LeavesFacts
<1>2. lanes \subseteq Jobs /\ gen \in Nat
  BY DEF IInv, TypeOK, RunsTypeOK, CasesTypeOK
<1>3. JobsSound'
  BY OverFacts
<1>4. LanesApart'
  BY <1>1, LanesStep
<1>5. Exclusion'
  BY <1>1, ExclusionStep
<1>6. Numbered'
  BY NumberedStep DEF Kept
<1>7. RunsTypeOK'
  BY <1>1, <1>2 DEF RunsTypeOK
<1>8. CasesTypeOK'
  BY <1>2 DEF CampTyped, TasksTyped, IInv, TypeOK, CasesTypeOK
<1> QED BY <1>3, <1>4, <1>5, <1>6, <1>7, <1>8

\* The ways in which a run ends: it is finished, or its result is refused.
EndsWith(j) ==
    \/ StopRemote(j) /\ FinishClosed(j, "failed")
    \/ StopRemote(j) /\ mon[j] = "completed" /\ FinishClosed(j, "completed")
    \/ StopRemote(j) /\ FinishRefused(j)
    \/ proc' = proc /\ (FinishUnclosed(j) \/ StopRefused(j))

(* A container that was there for its monitor to see the end of is gone.       *)
LEMMA StopRemoteFacts ==
  ASSUME IInv, NEW j \in Jobs, StopRemote(j)
  PROVE  /\ proc' \in [Jobs -> {"none", "starting", "up", "exited", "loose"}]
         /\ proc'[j] \in {"exited", "loose"} /\ \A k \in Jobs : k # j => proc'[k] = proc[k]
         /\ mon[j] = "completed" => proc'[j] = "exited"
<1>1. proc \in [Jobs -> {"none", "starting", "up", "exited", "loose"}]
  BY DEF IInv, TypeOK, RunsTypeOK
<1>2. PICK p \in {"exited", "loose"} :
        proc' = [proc EXCEPT ![j] = p] /\ (proc[j] # "starting" => p = "exited")
  BY DEF StopRemote
<1>3. mon[j] = "completed" => proc[j] = "exited"
  BY DEF IInv, JobsSound, JobSound
<1> QED BY <1>1, <1>2, <1>3

LEMMA EndStep ==
  ASSUME IInv, NEW j \in Jobs, Leaves(j), EndsWith(j),
         lanes' \subseteq lanes, lanes \ lanes' \subseteq {j}, preparing' \in BOOLEAN,
         CampTyped', TasksTyped'
  PROVE  /\ CasesTypeOK' /\ RunsTypeOK' /\ Numbered' /\ WorkGoesOn' /\ BoundToApproval'
         /\ JobsSound' /\ LanesApart' /\ Exclusion'
         /\ \A k \in Jobs : Kept(k)
<1>1. jobs[j].status # "none" /\ jobs[j].over = "no"
  BY LeavesFacts
<1>2. jobs[j].status # "completed"
  BY <1>1 DEF IInv, JobsSound, JobSound
<1>3. /\ proc \in [Jobs -> {"none", "starting", "up", "exited", "loose"}]
      /\ state \in States
  BY DEF IInv, TypeOK, RunsTypeOK, CasesTypeOK
<1>4. \A k \in Jobs : /\ Revoked(k).over = jobs[k].over /\ Revoked(k).status # "running"
                      /\ Revoked(k).status = "completed" <=> jobs[k].status = "completed"
  BY RevokedFacts
<1>5. ASSUME NEW outcome \in {"completed", "failed"}, FinishClosed(j, outcome), StopRemote(j),
             outcome = "completed" => mon[j] = "completed"
      PROVE  /\ JobsSound' /\ CasesTypeOK' /\ RunsTypeOK' /\ Numbered' /\ WorkGoesOn'
             /\ BoundToApproval' /\ LanesApart' /\ Exclusion'
             /\ \A k \in Jobs : Kept(k)
  <2>1. /\ jobs' \in [Jobs -> JobType] /\ state' \in States
        /\ \A k \in Jobs : Kept(k)
        /\ \A k \in Jobs : k # j => jobs'[k] = jobs[k]
        /\ jobs'[j].over = "closed" /\ jobs'[j].status # "running"
        /\ jobs'[j].status = "completed" => outcome = "completed"
        /\ gen' = gen /\ ActiveJobs' = ActiveJobs \ {j}
        /\ WorkGoesOn' /\ BoundToApproval'
    BY <1>1, <1>5, FinishClosedFacts
  <2>2. UNCHANGED <<scope, plan>>
    BY <1>5 DEF FinishClosed
  <2>3. /\ proc' \in [Jobs -> {"none", "starting", "up", "exited", "loose"}]
        /\ proc'[j] \in {"exited", "loose"} /\ \A k \in Jobs : k # j => proc'[k] = proc[k]
        /\ jobs'[j].status = "completed" => proc'[j] = "exited"
    BY <1>5, <2>1, StopRemoteFacts
  <2> QED BY <2>1, <2>2, <2>3, EndedStep
<1>6. CASE StopRemote(j) /\ FinishRefused(j)
  <2>1. jobs' = [jobs EXCEPT ![j].over = "refused"] /\ UNCHANGED <<state, gen, scope, plan>>
    BY <1>6 DEF FinishRefused
  <2>2. /\ jobs' \in [Jobs -> JobType]
        /\ \A k \in Jobs : Kept(k) /\ jobs'[k].status = jobs[k].status
        /\ \A k \in Jobs : k # j => jobs'[k] = jobs[k]
        /\ jobs'[j].over = "refused" /\ ActiveJobs' = ActiveJobs
        /\ WorkGoesOn' /\ BoundToApproval'
    BY <2>1, OverOnlyFacts DEF Ends
  <2>3. /\ proc' \in [Jobs -> {"none", "starting", "up", "exited", "loose"}]
        /\ proc'[j] \in {"exited", "loose"} /\ \A k \in Jobs : k # j => proc'[k] = proc[k]
    BY <1>6, StopRemoteFacts
  <2> QED BY <1>2, <1>3, <2>1, <2>2, <2>3, EndedStep
<1>7. CASE FinishUnclosed(j) /\ proc' = proc
  <2>1. /\ jobs' \in [Jobs -> JobType] /\ state' \in States
        /\ \A k \in Jobs : Kept(k)
        /\ \A k \in Jobs : k # j => jobs'[k] = Revoked(k)
        /\ jobs'[j].over = "unclosed"
        /\ gen' = gen + 1 /\ ActiveJobs' = {}
        /\ WorkGoesOn' /\ BoundToApproval'
        /\ \A k \in Jobs : jobs'[k].status = "completed" => jobs[k].status = "completed"
    BY <1>1, <1>7, FinishUnclosedFacts
  <2>2. UNCHANGED <<scope, plan>>
    BY <1>7 DEF FinishUnclosed
  <2>3. \A k \in Jobs : jobs'[k].status # "running"
    BY <2>1 DEF ActiveJobs
  <2> QED BY <1>2, <1>3, <1>4, <1>7, <2>1, <2>2, <2>3, EndedStep
<1>8. CASE StopRefused(j) /\ proc' = proc
  <2>1. /\ jobs' \in [Jobs -> JobType] /\ state' \in States
        /\ \A k \in Jobs : Kept(k) /\ jobs'[k].status = Revoked(k).status
        /\ \A k \in Jobs : k # j => jobs'[k] = Revoked(k)
        /\ jobs'[j].over = "abandoned"
        /\ gen' = gen + 1 /\ ActiveJobs' = {}
        /\ WorkGoesOn' /\ BoundToApproval'
    BY <1>8, StopRefusedFacts
  <2>2. UNCHANGED <<scope, plan>>
    BY <1>8 DEF StopRefused
  <2> QED BY <1>2, <1>3, <1>4, <1>8, <2>1, <2>2, EndedStep
<1> QED BY <1>5, <1>6, <1>7, <1>8 DEF EndsWith

(* A monitor closes its run.                                                   *)
LEMMA CloseStep ==
  ASSUME IInv, NEW j \in Jobs, CloseRun(j) \/ CloseFails(j) \/ CloseRefused(j),
         UNCHANGED <<drv, stopping>>
  PROVE  IInv'
<1>1. /\ mon[j] # "none" /\ mon' = [mon EXCEPT ![j] = "none"]
      /\ lanes' = lanes \ {j} /\ UNCHANGED <<adm, preparing, camp, tasks>>
      /\ EndsWith(j)
  BY DEF CloseRun, CloseFails, CloseRefused, Over, Closing, EndsWith
<1>2. Leaves(j)
  BY <1>1 DEF Leaves
<1>3. CampTyped' /\ TasksTyped' /\ preparing' \in BOOLEAN
  BY <1>1 DEF CampTyped, TasksTyped, IInv, TypeOK, CasesTypeOK, RunsTypeOK
<1>4. /\ CasesTypeOK' /\ RunsTypeOK' /\ Numbered' /\ WorkGoesOn' /\ BoundToApproval'
      /\ JobsSound' /\ LanesApart' /\ Exclusion'
      /\ \A k \in Jobs : Kept(k)
  BY <1>1, <1>2, <1>3, EndStep
<1>5. DriverSound'
  BY <1>1, <1>4, DriverStep
<1>6. TypeOK'
  BY <1>4 DEF IInv, TypeOK
<1> QED BY <1>4, <1>5, <1>6 DEF IInv

(* An admission aborts a launch.                                               *)
LEMMA AbortFacts ==
  ASSUME IInv, NEW c \in Callers, AbortClosed(c) \/ AbortUnclosed(c), CampTyped'
  PROVE  /\ CasesTypeOK' /\ RunsTypeOK' /\ Numbered' /\ WorkGoesOn' /\ BoundToApproval'
         /\ JobsSound' /\ LanesApart' /\ Exclusion'
         /\ \A k \in Jobs : Kept(k)
         /\ adm'[c] = Idle /\ \A d \in Callers : d # c => adm'[d] = adm[d]
<1>1. PICK j \in Jobs : j = adm[c].job
  BY CallerFacts DEF AbortClosed, AbortUnclosed
<1>2. /\ adm[c].at = "aborting" /\ adm' = [adm EXCEPT ![c] = Idle]
      /\ UNCHANGED <<lanes, mon, tasks>> /\ preparing' \in BOOLEAN
      /\ EndsWith(j)
  BY <1>1 DEF AbortClosed, AbortUnclosed, Aborted, Open, EndsWith
<1>3. Leaves(j)
  BY <1>1, <1>2 DEF Leaves, Admits
<1>4. TasksTyped'
  BY <1>2 DEF TasksTyped, IInv, TypeOK, CasesTypeOK
<1>5. adm'[c] = Idle /\ \A d \in Callers : d # c => adm'[d] = adm[d]
  BY <1>2 DEF IInv, TypeOK, RunsTypeOK
<1> QED BY <1>2, <1>3, <1>4, <1>5, EndStep

LEMMA OperatorAbortStep ==
  ASSUME IInv, NEW c \in Operators, AbortClosed(c) \/ AbortUnclosed(c),
         UNCHANGED <<camp, drv, stopping>>
  PROVE  IInv'
<1>1. c \in Callers /\ c # Driver /\ Driver \in Callers
  BY CallersAssumption DEF Callers
<1>2. CampTyped'
  BY DEF CampTyped, IInv, TypeOK, CasesTypeOK
<1>3. /\ CasesTypeOK' /\ RunsTypeOK' /\ Numbered' /\ WorkGoesOn' /\ BoundToApproval'
      /\ JobsSound' /\ LanesApart' /\ Exclusion'
      /\ \A k \in Jobs : Kept(k)
      /\ adm'[Driver] = adm[Driver]
  BY <1>1, <1>2, AbortFacts
<1>4. DriverSound'
  BY <1>3, DriverStep
<1>5. TypeOK'
  BY <1>3 DEF IInv, TypeOK
<1> QED BY <1>3, <1>4, <1>5 DEF IInv

(* The campaign ends with a segment that could not be launched.                *)
LEMMA SegmentFailsStep ==
  ASSUME IInv, SegmentFails
  PROVE  IInv'
<1>1. Driver \in Callers
  BY DEF Callers
<1>2. CASE LaunchFails(Driver) /\ UNCHANGED <<drv, stopping>>
  BY <1>1, <1>2, LaunchFailsStep
<1>3. CASE /\ AbortClosed(Driver) \/ AbortUnclosed(Driver)
           /\ Campaign("blocked") /\ drv' = NoDriver /\ stopping' = stopping
  <2>1. CampTyped'
    BY <1>3, CampaignFacts
  <2>2. /\ CasesTypeOK' /\ RunsTypeOK' /\ Numbered' /\ WorkGoesOn' /\ BoundToApproval'
        /\ JobsSound' /\ LanesApart' /\ Exclusion'
        /\ adm'[Driver] = Idle
    BY <1>1, <1>3, <2>1, AbortFacts
  <2>3. DriverSound'
    BY <1>3, <2>2 DEF DriverSound, Admits, Idle, NoDriver
  <2>4. TypeOK'
    BY <1>3, <2>2 DEF IInv, TypeOK, DriverType, NoDriver
  <2> QED BY <2>2, <2>3, <2>4 DEF IInv
<1> QED BY <1>2, <1>3 DEF SegmentFails

-----------------------------------------------------------------------------
(* The campaign, the operator who stops it, and a kill of the daemon.          *)

(* A step of the driver between its segments.                                  *)
LEMMA BetweenStep ==
  ASSUME IInv, UNCHANGED <<state, gen, scope, plan, jobs, runVars>>, CampTyped', TasksTyped',
         drv' \in DriverType, stopping' \in BOOLEAN, DriverSound'
  PROVE  IInv'
<1>1. /\ RunsTypeOK' /\ Numbered' /\ JobsSound' /\ LanesApart' /\ Exclusion'
      /\ ActiveJobs' = ActiveJobs
  BY QuietStep
<1>2. WorkGoesOn'
  BY <1>1 DEF IInv, WorkGoesOn, ApprovedScope
<1>3. BoundToApproval'
  BY <1>1 DEF IInv, BoundToApproval, Binding
<1>4. CasesTypeOK'
  BY DEF IInv, TypeOK, CasesTypeOK, CampTyped, TasksTyped
<1> QED BY <1>1, <1>2, <1>3, <1>4 DEF IInv, TypeOK

(* A driver that is between segments has no admission.                         *)
LEMMA IdleDriver ==
  ASSUME adm[Driver].at = "idle", adm' = adm, drv'.at \in {"none", "next"}
  PROVE  DriverSound'
BY DEF DriverSound, Admits

LEMMA IdleDriverFacts ==
  ASSUME IInv, drv.at # "starting"
  PROVE  adm[Driver].at = "idle"
<1>1. Driver \in Callers
  BY DEF Callers
<1>2. adm[Driver].at \in {"idle", "resolving", "launching", "aborting"}
  BY <1>1, CallerFacts
<1> QED BY <1>2 DEF IInv, DriverSound

LEMMA CampaignStep ==
  ASSUME IInv, StartCampaign \/ CampaignEnds \/ SegmentOver \/ SegmentLost \/ SegmentLeft
  PROVE  IInv'
<1>1. /\ UNCHANGED <<state, gen, scope, plan, jobs, runVars>>
      /\ drv.at # "starting" /\ drv' \in {NoDriver, [at |-> "next"]} /\ stopping' \in BOOLEAN
  BY DEF StartCampaign, CampaignEnds, SegmentOver, SegmentLost, SegmentLeft, BeginResearch, NoDriver,
         IInv, TypeOK, caseVars
<1>2. drv' \in DriverType /\ drv'.at \in {"none", "next"}
  BY <1>1 DEF NoDriver, DriverType
<1>3. DriverSound'
  BY <1>1, <1>2, IdleDriver, IdleDriverFacts DEF runVars
<1>4. CampTyped'
  <2>1. CASE StartCampaign
    BY <2>1 DEF StartCampaign, BeginResearch, CampTyped, IInv, TypeOK, CasesTypeOK
  <2>2. CASE CampaignEnds
    BY <2>2, CampaignFacts DEF CampaignEnds
  <2>3. CASE SegmentOver
    <3>1. camp' = camp \/ Campaign("blocked")
      BY <2>3 DEF SegmentOver
    <3>2. camp' = camp => CampTyped'
      BY DEF CampTyped, IInv, TypeOK, CasesTypeOK
    <3> QED BY <3>1, <3>2, CampaignFacts
  <2>4. CASE SegmentLost
    BY <2>4, CampaignFacts DEF SegmentLost
  <2>5. CASE SegmentLeft
    BY <2>5 DEF SegmentLeft, CampTyped, IInv, TypeOK, CasesTypeOK, caseVars
  <2> QED BY <2>1, <2>2, <2>3, <2>4, <2>5
<1>5. TasksTyped'
  <2>1. tasks \in [Tasks -> {"none", "queued", "running", "done", "inconclusive"}]
    BY DEF IInv, TypeOK, CasesTypeOK
  <2>2. CASE StartCampaign
    BY <2>2 DEF StartCampaign, BeginResearch, TasksTyped
  <2>3. CASE CampaignEnds \/ SegmentLost \/ SegmentLeft
    BY <2>1, <2>3 DEF CampaignEnds, SegmentLost, SegmentLeft, TasksTyped, caseVars
  <2>4. CASE SegmentOver
    <3>1. PICK more \in SUBSET {u \in Tasks : tasks[u] = "none"} :
            tasks' = [u \in Tasks |->
              IF u = drv.task THEN IF jobs[drv.job].status = "completed" THEN "done" ELSE "inconclusive"
              ELSE IF u \in more THEN "queued" ELSE tasks[u]]
      BY <2>4 DEF SegmentOver, RecordSegment
    <3> QED BY <2>1, <3>1 DEF TasksTyped
  <2> QED BY <2>2, <2>3, <2>4
<1> QED BY <1>1, <1>2, <1>3, <1>4, <1>5, BetweenStep

(* Cancelling the driver in an abort leaves the job to nobody.                 *)
LEMMA AbortCancelled ==
  ASSUME IInv, adm[Driver].at = "aborting", adm' = [adm EXCEPT ![Driver] = Idle],
         jobs' = [jobs EXCEPT ![adm[Driver].job].over = "abandoned"], drv' = NoDriver,
         UNCHANGED <<state, gen, scope, plan, tasks, lanes, proc, preparing, mon>>,
         CampTyped', stopping' \in BOOLEAN
  PROVE  IInv'
<1>1. Driver \in Callers
  BY DEF Callers
<1>2. PICK j \in Jobs : j = adm[Driver].job
  BY <1>1, CallerFacts
<1>3. Leaves(j)
  BY <1>1, <1>2 DEF Leaves, Admits
<1>4. /\ ~Owned(j)' /\ AdmKept /\ \A k \in Jobs : Owned(k)' => Owned(k)
      /\ adm' \in [Callers -> {Idle} \cup Waiting \cup Owning]
      /\ mon' \in [Jobs -> {"none", "watching"} \cup Closing]
  BY <1>3, LeavesFacts
<1>5. /\ jobs' \in [Jobs -> JobType]
      /\ \A k \in Jobs : Kept(k) /\ jobs'[k].status = jobs[k].status
      /\ \A k \in Jobs : k # j => jobs'[k] = jobs[k]
      /\ jobs'[j].over = "abandoned" /\ ActiveJobs' = ActiveJobs
      /\ WorkGoesOn' /\ BoundToApproval'
  BY <1>2, OverOnlyFacts DEF Ends
<1>6. jobs[j].status # "completed"
  <2>1. jobs[j].over = "no"
    BY <1>3, LeavesFacts
  <2> QED BY <2>1 DEF IInv, JobsSound, JobSound
<1>7. JobsSound'
  BY <1>3, <1>5, <1>6, OverFacts
<1>8. Numbered' /\ LanesApart' /\ Exclusion'
  <2>1. Numbered'
    BY <1>5, NumberedStep
  <2>2. LanesApart'
    BY <1>4, <1>5, LanesStep
  <2>3. Exclusion'
    BY <1>4, <1>5, ExclusionStep
  <2> QED BY <2>1, <2>2, <2>3
<1>9. DriverSound'
  <2>1. adm'[Driver] = Idle
    BY <1>1 DEF IInv, TypeOK, RunsTypeOK
  <2> QED BY <2>1 DEF DriverSound, Admits, Idle, NoDriver
<1>10. TypeOK'
  <2>1. CasesTypeOK'
    BY <1>5 DEF IInv, TypeOK, CasesTypeOK, CampTyped
  <2>2. RunsTypeOK'
    BY <1>4 DEF IInv, TypeOK, RunsTypeOK
  <2>3. drv' \in DriverType
    BY DEF DriverType, NoDriver
  <2> QED BY <2>1, <2>2, <2>3 DEF TypeOK
<1> QED BY <1>5, <1>7, <1>8, <1>9, <1>10 DEF IInv

(* Cancelling the driver in a segment cancels the monitor, which then closes.  *)
LEMMA SegmentCancelled ==
  ASSUME IInv, drv.at = "segment", mon' = [mon EXCEPT ![drv.job] = Cancelled(drv.job)],
         drv' = [drv EXCEPT !.at = "cancelled"],
         UNCHANGED <<state, gen, scope, plan, jobs, tasks, lanes, proc, adm, preparing>>,
         CampTyped', stopping' \in BOOLEAN
  PROVE  IInv'
<1>1. drv \in DriverType
  BY DEF IInv, TypeOK
<1>2. drv \in [at : {"segment", "cancelled"}, task : Tasks, job : Jobs]
  BY <1>1 DEF DriverType
<1>3. drv' \in DriverType /\ drv'.at = "cancelled" /\ drv'.job = drv.job
  BY <1>2 DEF DriverType
<1>4. PICK j \in Jobs : j = drv.job
  BY <1>2
<1>5. /\ mon \in [Jobs -> {"none", "watching"} \cup Closing]
      /\ proc' \in [Jobs -> {"none", "starting", "up", "exited", "loose"}]
      /\ adm' \in [Callers -> {Idle} \cup Waiting \cup Owning]
      /\ preparing' \in BOOLEAN
  BY DEF IInv, TypeOK, RunsTypeOK
<1>6. Cancelled(j) = IF mon[j] = "watching" THEN "cancelled" ELSE mon[j]
  BY <1>4 DEF Cancelled, Cut, IInv, DriverSound
<1>7. mon' = [mon EXCEPT ![j] = IF mon[j] = "watching" THEN "cancelled" ELSE mon[j]]
  BY <1>4, <1>6
<1>8. /\ mon'[j] = IF mon[j] = "watching" THEN "cancelled" ELSE mon[j]
      /\ \A k \in Jobs : k # j => mon'[k] = mon[k]
      /\ mon' \in [Jobs -> {"none", "watching"} \cup Closing]
  BY <1>5, <1>7 DEF Closing
<1>9. /\ AdmKept
      /\ \A k \in Jobs : \A c \in Callers : Admits(c, k)' <=> Admits(c, k)
      /\ \A k \in Jobs : Kept(k) /\ jobs'[k] = jobs[k] /\ proc'[k] = proc[k]
  BY DEF AdmKept, Admits, Kept
<1>10. \A k \in Jobs : Owned(k)' <=> Owned(k)
  BY <1>8, <1>9 DEF Owned
<1>11. JobsSound'
  <2>1. \A k \in Jobs : k # j => JobSound(k)'
    BY <1>8, <1>9, JobStep
  <2>2. JobSound(j)'
    <3>1. JobSound(j)
      BY DEF IInv, JobsSound
    <3> QED BY <1>8, <1>9, <1>10, <3>1 DEF JobSound
  <2> QED BY <2>1, <2>2 DEF JobsSound
<1>12. DriverSound'
  <2>1. adm[Driver].at \notin {"launching", "aborting", "resolving"}
    BY DEF IInv, DriverSound
  <2>2. jobs[j].status # "none" /\ jobs[j].kind = "agent"
    BY <1>4 DEF IInv, DriverSound
  <2> QED BY <1>3, <1>4, <2>1, <2>2 DEF DriverSound, Admits
<1>13. TasksTyped'
  BY DEF TasksTyped, IInv, TypeOK, CasesTypeOK
<1> QED BY <1>3, <1>5, <1>8, <1>9, <1>10, <1>11, <1>12, <1>13, RunStep

(* A pause cancels the driver where it waits.                                  *)
LEMMA PauseStep ==
  ASSUME IInv, Pause, stopping' \in BOOLEAN
  PROVE  IInv'
<1>1. /\ CancelDriver /\ CampTyped'
      /\ UNCHANGED <<state, gen, scope, plan, tasks, lanes, proc>>
  BY CampaignFacts DEF Pause
<1>2. TasksTyped'
  BY <1>1 DEF TasksTyped, IInv, TypeOK, CasesTypeOK
<1>3. CASE drv.at \in {"none", "cancelled"} /\ UNCHANGED <<jobs, drv, adm, preparing, mon>>
  <2>1. DriverSound'
    BY <1>1, <1>3, QuietStep DEF runVars
  <2>2. drv' \in DriverType
    BY <1>3 DEF IInv, TypeOK
  <2> QED BY <1>1, <1>2, <1>3, <2>1, <2>2, BetweenStep DEF runVars
<1>4. CASE drv.at = "next" /\ drv' = NoDriver /\ UNCHANGED <<jobs, adm, preparing, mon>>
  <2>1. drv'.at = "none" /\ drv' \in DriverType
    BY <1>4 DEF NoDriver, DriverType
  <2>2. DriverSound'
    BY <1>4, <2>1, IdleDriver, IdleDriverFacts
  <2> QED BY <1>1, <1>2, <1>4, <2>1, <2>2, BetweenStep DEF runVars
<1>5. CASE /\ adm[Driver].at = "launching"
           /\ adm' = [adm EXCEPT ![Driver].at = "aborting"]
           /\ UNCHANGED <<jobs, drv, preparing, mon>>
  <2>1. Driver \in Callers
    BY DEF Callers
  <2> QED BY <1>1, <1>2, <1>5, <2>1, AbortingStep
<1>6. CASE /\ adm[Driver].at = "aborting"
           /\ adm' = [adm EXCEPT ![Driver] = Idle]
           /\ jobs' = [jobs EXCEPT ![adm[Driver].job].over = "abandoned"]
           /\ drv' = NoDriver
           /\ UNCHANGED <<preparing, mon>>
  BY <1>1, <1>6, AbortCancelled
<1>7. CASE /\ drv.at = "segment"
           /\ mon' = [mon EXCEPT ![drv.job] = Cancelled(drv.job)]
           /\ drv' = [drv EXCEPT !.at = "cancelled"]
           /\ UNCHANGED <<jobs, adm, preparing>>
  BY <1>1, <1>7, SegmentCancelled
<1> QED BY <1>1, <1>3, <1>4, <1>5, <1>6, <1>7 DEF CancelDriver

(* The case is stopped: every job is revoked, and every monitor is cancelled,  *)
(* which cuts the closing of a tool off.                                       *)
LEMMA StopStep ==
  ASSUME IInv, Stop
  PROVE  IInv'
<1>1. /\ jobs' = [j \in Jobs |-> IF Cut(j) THEN Abandoned(Revoked(j)) ELSE Revoked(j)]
      /\ mon' = [j \in Jobs |-> Cancelled(j)]
      /\ lanes' = {j \in lanes : ~Cut(j)}
      /\ state' = "paused" /\ gen' = gen + 1 /\ stopping' = FALSE
      /\ UNCHANGED <<scope, plan, camp, tasks, adm, preparing, proc, drv>>
  BY DEF Stop
<1>2. /\ adm \in [Callers -> {Idle} \cup Waiting \cup Owning] /\ preparing \in BOOLEAN
      /\ mon \in [Jobs -> {"none", "watching"} \cup Closing]
      /\ proc \in [Jobs -> {"none", "starting", "up", "exited", "loose"}]
      /\ lanes \subseteq Jobs /\ gen \in Nat
  BY DEF IInv, TypeOK, RunsTypeOK, CasesTypeOK
<1>3. ASSUME NEW j \in Jobs
      PROVE  /\ jobs'[j] \in JobType /\ Kept(j) /\ jobs'[j].status # "running"
             /\ jobs'[j].status = "completed" => jobs[j].status = "completed"
             /\ ~Cut(j) => jobs'[j].over = jobs[j].over
             /\ Cut(j) => Owned(j) /\ jobs'[j].over = "abandoned" /\ \A c \in Callers : ~Admits(c, j)
  <2>1. JobSound(j)
    BY DEF IInv, JobsSound
  <2>2. /\ Revoked(j) \in JobType
        /\ Revoked(j).status # "running"
        /\ Revoked(j).status = "none" <=> jobs[j].status = "none"
        /\ Revoked(j).kind = jobs[j].kind /\ Revoked(j).lane = jobs[j].lane
        /\ Revoked(j).hosts = jobs[j].hosts /\ Revoked(j).over = jobs[j].over
        /\ Revoked(j).bind = jobs[j].bind /\ Revoked(j).built = jobs[j].built
        /\ Revoked(j).finding = jobs[j].finding
        /\ Revoked(j).status = "completed" <=> jobs[j].status = "completed"
    BY RevokedFacts
  <2>3. CASE Cut(j)
    <3>1. mon[j] # "none"
      BY <2>3 DEF Cut, Closing
    <3>2. Owned(j) /\ jobs[j].status # "none" /\ jobs[j].over = "no"
          /\ \A c \in Callers : ~Admits(c, j)
      BY <2>1, <3>1 DEF Owned, JobSound
    <3>3. jobs'[j] = [Revoked(j) EXCEPT !.over = "abandoned"]
      BY <1>1, <2>2, <2>3, <3>2 DEF Abandoned
    <3>4. /\ jobs'[j] \in JobType /\ jobs'[j].over = "abandoned"
          /\ jobs'[j].status = Revoked(j).status
          /\ jobs'[j].kind = Revoked(j).kind /\ jobs'[j].lane = Revoked(j).lane
          /\ jobs'[j].hosts = Revoked(j).hosts
          /\ jobs'[j].bind = Revoked(j).bind /\ jobs'[j].built = Revoked(j).built
          /\ jobs'[j].finding = Revoked(j).finding
      BY <2>2, <3>3 DEF JobType
    <3> QED BY <2>2, <2>3, <3>2, <3>4 DEF Kept
  <2>4. CASE ~Cut(j)
    <3>1. jobs'[j] = Revoked(j)
      BY <1>1, <2>4
    <3> QED BY <2>2, <2>4, <3>1 DEF Kept
  <2> QED BY <2>3, <2>4
<1>4. jobs' = [j \in Jobs |-> jobs'[j]]
  BY <1>1
<1>5. jobs' \in [Jobs -> JobType] /\ ActiveJobs' = {}
  BY <1>3, <1>4 DEF ActiveJobs
<1>6. \A j \in Jobs : \A c \in Callers : Admits(c, j)' <=> Admits(c, j)
  BY <1>1 DEF Admits
<1>7. ASSUME NEW j \in Jobs
      PROVE  /\ mon'[j] \in {"none", "watching"} \cup Closing
             /\ Cut(j) => mon'[j] = "none"
             /\ ~Cut(j) => (mon'[j] # "none" <=> mon[j] # "none")
             /\ mon'[j] = "completed" => mon[j] = "completed"
             /\ mon'[j] # "none" => mon[j] # "none"
  <2>1. mon'[j] = Cancelled(j) /\ mon[j] \in {"none", "watching"} \cup Closing
    BY <1>1, <1>2
  <2> QED BY <2>1 DEF Cancelled, Cut, Closing
<1>8. mon' \in [Jobs -> {"none", "watching"} \cup Closing]
  <2>1. mon' = [j \in Jobs |-> mon'[j]]
    BY <1>1
  <2> QED BY <1>7, <2>1
<1>9. \A j \in Jobs : Owned(j)' <=> Owned(j) /\ ~Cut(j)
  BY <1>3, <1>6, <1>7 DEF Owned
<1>10. JobsSound'
  <2>1. SUFFICES ASSUME NEW j \in Jobs
                 PROVE  JobSound(j)'
    BY DEF JobsSound
  <2>2. JobSound(j)
    BY DEF IInv, JobsSound
  <2>3. CASE Cut(j)
    BY <1>1, <1>3, <1>6, <1>7, <1>9, <2>2, <2>3 DEF JobSound, Kept
  <2>4. CASE ~Cut(j)
    BY <1>1, <1>3, <1>6, <1>7, <1>9, <2>2, <2>4 DEF JobSound, Kept
  <2> QED BY <2>3, <2>4
<1>11. AdmKept
  BY <1>1 DEF AdmKept
<1>12. LanesApart'
  BY <1>1, <1>2, <1>3, <1>9, <1>11, LanesStep
<1>13. Exclusion'
  BY <1>1, <1>3, <1>5, <1>9, <1>11, ExclusionStep
<1>14. Numbered' /\ WorkGoesOn' /\ BoundToApproval'
  <2>1. Numbered'
    BY <1>3, NumberedStep DEF Kept
  <2> QED BY <1>1, <1>5, <2>1, NoneActive
<1>15. DriverSound'
  BY <1>1, <1>3, DriverStep
<1>16. TypeOK'
  <2>1. CasesTypeOK'
    BY <1>1, <1>2, <1>5 DEF IInv, TypeOK, CasesTypeOK, States
  <2>2. RunsTypeOK'
    BY <1>1, <1>2, <1>8 DEF RunsTypeOK
  <2> QED BY <1>1, <2>1, <2>2 DEF IInv, TypeOK
<1> QED BY <1>10, <1>12, <1>13, <1>14, <1>15, <1>16 DEF IInv

(* The daemon is killed and started again: nobody answers for the jobs it had. *)
LEMMA CrashStep ==
  ASSUME IInv, Crash
  PROVE  IInv'
<1>1. /\ jobs' = [j \in Jobs |-> Abandoned(Revoked(j))]
      /\ adm' = [c \in Callers |-> Idle] /\ preparing' = FALSE /\ lanes' = {}
      /\ mon' = [j \in Jobs |-> "none"]
      /\ drv' = NoDriver /\ stopping' = FALSE
      /\ UNCHANGED <<scope, plan, tasks, proc>>
  BY DEF Crash, RestartController
<1>2. /\ proc \in [Jobs -> {"none", "starting", "up", "exited", "loose"}]
      /\ gen \in Nat /\ state \in States
  BY DEF IInv, TypeOK, RunsTypeOK, CasesTypeOK
<1>3. ASSUME NEW j \in Jobs
      PROVE  /\ jobs'[j] \in JobType /\ Kept(j) /\ jobs'[j].status # "running"
             /\ jobs'[j].status # "none" => jobs'[j].over # "no"
             /\ jobs'[j].status = "none" => jobs'[j].over = jobs[j].over
             /\ jobs'[j].status = "completed" => jobs[j].status = "completed"
             /\ jobs'[j].over \in {"closed", "refused"} => jobs[j].over = jobs'[j].over
             /\ jobs[j].over # "no" => jobs'[j].over = jobs[j].over
  <2>1. /\ Revoked(j) \in JobType
        /\ Revoked(j).status # "running"
        /\ Revoked(j).status = "none" <=> jobs[j].status = "none"
        /\ Revoked(j).kind = jobs[j].kind /\ Revoked(j).lane = jobs[j].lane
        /\ Revoked(j).hosts = jobs[j].hosts /\ Revoked(j).over = jobs[j].over
        /\ Revoked(j).bind = jobs[j].bind /\ Revoked(j).built = jobs[j].built
        /\ Revoked(j).finding = jobs[j].finding
        /\ Revoked(j).status = "completed" <=> jobs[j].status = "completed"
    BY RevokedFacts
  <2>2. jobs'[j] = Abandoned(Revoked(j))
    BY <1>1
  <2>3. CASE Revoked(j).status # "none" /\ Revoked(j).over = "no"
    <3>1. jobs'[j] = [Revoked(j) EXCEPT !.over = "abandoned"]
      BY <2>2, <2>3 DEF Abandoned
    <3>2. /\ jobs'[j] \in JobType /\ jobs'[j].over = "abandoned"
          /\ jobs'[j].status = Revoked(j).status
          /\ jobs'[j].kind = Revoked(j).kind /\ jobs'[j].lane = Revoked(j).lane
          /\ jobs'[j].hosts = Revoked(j).hosts
          /\ jobs'[j].bind = Revoked(j).bind /\ jobs'[j].built = Revoked(j).built
          /\ jobs'[j].finding = Revoked(j).finding
      BY <2>1, <3>1 DEF JobType
    <3> QED BY <2>1, <2>3, <3>2 DEF Kept
  <2>4. CASE ~(Revoked(j).status # "none" /\ Revoked(j).over = "no")
    <3>1. jobs'[j] = Revoked(j)
      BY <2>2, <2>4 DEF Abandoned
    <3> QED BY <2>1, <2>4, <3>1 DEF Kept
  <2> QED BY <2>3, <2>4
<1>4. jobs' = [j \in Jobs |-> jobs'[j]]
  BY <1>1
<1>5. jobs' \in [Jobs -> JobType] /\ ActiveJobs' = {}
  BY <1>3, <1>4 DEF ActiveJobs
<1>6. gen' \in Nat /\ state' \in States \ {"checking", "poc_running"}
  <2>1. CASE ActiveJobs # {}
    BY <1>2, <2>1 DEF Crash, RestartController, States
  <2>2. CASE ActiveJobs = {}
    <3>1. state \notin {"checking", "poc_running"}
      BY <2>2 DEF IInv, WorkGoesOn
    <3> QED BY <1>2, <2>2, <3>1 DEF Crash, RestartController, States
  <2> QED BY <2>1, <2>2
<1>7. CampTyped'
  BY CampaignFacts DEF Crash, RestartController
<1>8. \A c \in Callers : adm'[c] = Idle
  BY <1>1
<1>9. \A j \in Jobs : mon'[j] = "none" /\ ~Owned(j)' /\ \A c \in Callers : ~Admits(c, j)'
  BY <1>1, <1>8 DEF Owned, Admits, Idle
<1>10. JobsSound'
  <2>1. SUFFICES ASSUME NEW j \in Jobs
                 PROVE  JobSound(j)'
    BY DEF JobsSound
  <2>2. JobSound(j)
    BY DEF IInv, JobsSound
  <2> QED BY <1>1, <1>3, <1>9, <2>2 DEF JobSound, Kept
<1>11. LanesApart' /\ Exclusion'
  <2>1. Reserved' = {} /\ lanes' = {}
    BY <1>1, <1>8 DEF Reserved, Idle
  <2>2. LanesApart'
    BY <1>9, <2>1 DEF LanesApart
  <2>3. Exclusion'
    BY <1>5, <1>8 DEF Exclusion, Idle
  <2> QED BY <2>2, <2>3
<1>12. Numbered' /\ WorkGoesOn' /\ BoundToApproval'
  <2>1. Numbered'
    BY <1>3, NumberedStep DEF Kept
  <2> QED BY <1>5, <1>6, <2>1, NoneActive
<1>13. DriverSound'
  <2>1. Driver \in Callers
    BY DEF Callers
  <2> QED BY <1>1, <1>8, <2>1 DEF DriverSound, Admits, Idle, NoDriver
<1>14. TypeOK'
  <2>1. CasesTypeOK'
    BY <1>1, <1>5, <1>6, <1>7 DEF IInv, TypeOK, CasesTypeOK, CampTyped
  <2>2. RunsTypeOK'
    BY <1>1, <1>2 DEF RunsTypeOK
  <2> QED BY <1>1, <2>1, <2>2 DEF TypeOK, DriverType, NoDriver
<1> QED BY <1>10, <1>11, <1>12, <1>13, <1>14 DEF IInv

-----------------------------------------------------------------------------
(* The invariant.                                                              *)

LEMMA InitInv ==
  ASSUME Init
  PROVE  IInv
<1>1. /\ \A j \in Jobs : jobs[j] = NoJob /\ mon[j] = "none" /\ proc[j] = "none"
      /\ \A c \in Callers : adm[c] = Idle
      /\ lanes = {} /\ drv = NoDriver /\ state = "created" /\ Driver \in Callers
  BY DEF Init, CasesInit, RunsInit, Callers
<1>2. NoJob \in JobType /\ NoJob.status = "none" /\ NoJob.over = "no"
  BY DEF NoJob, JobType, Lanes, Bindings, Unbound
<1>3. \A j \in Jobs : ~Owned(j) /\ \A c \in Callers : ~Admits(c, j)
  BY <1>1 DEF Owned, Admits, Idle
<1>4. CasesTypeOK
  BY <1>2 DEF Init, CasesInit, CasesTypeOK, States
<1>5. TypeOK
  BY <1>4 DEF Init, RunsInit, TypeOK, RunsTypeOK, DriverType, NoDriver
<1>6. Created = {} /\ ActiveJobs = {}
  BY <1>1, <1>2 DEF Created, ActiveJobs
<1>7. Numbered
  <2>1. 0 \in 0..MaxJobs /\ 1..0 = {}
    BY CaseAssumption
  <2> QED BY <1>6, <2>1 DEF Numbered
<1>8. WorkGoesOn /\ BoundToApproval
  BY <1>1, <1>6 DEF WorkGoesOn, BoundToApproval
<1>9. JobsSound
  BY <1>1, <1>2, <1>3 DEF JobsSound, JobSound
<1>10. DriverSound
  BY <1>1 DEF DriverSound, Admits, Idle, NoDriver
<1>11. LanesApart
  <2>1. Reserved = {}
    BY <1>1 DEF Reserved, Idle
  <2> QED BY <1>1, <1>3, <2>1 DEF LanesApart
<1>12. Exclusion
  BY <1>1, <1>6 DEF Exclusion, Idle
<1> QED BY <1>5, <1>7, <1>8, <1>9, <1>10, <1>11, <1>12 DEF IInv

LEMMA StepInv ==
  ASSUME IInv, [Next]_vars
  PROVE  IInv'
<1>1. CASE Command
  <2>1. CASE ProposeScope \/ ExtendBudget
    BY <1>1, <2>1, ScopeStep DEF Command
  <2>2. CASE ~(ProposeScope \/ ExtendBudget)
    BY <1>1, <2>2, StageStep DEF Command
  <2> QED BY <2>1, <2>2
<1>2. ASSUME NEW c \in Operators, Request(c)
      PROVE  IInv'
  BY <1>2, ResolveStep, StartAgentStep DEF Request
<1>3. ASSUME NEW c \in Operators, Admission(c)
      PROVE  IInv'
  <2>1. c \in Callers
    BY DEF Callers
  <2>2. CASE Resolved(c) /\ UNCHANGED <<drv, stopping>>
    BY <2>2, ResolvedStep
  <2>3. CASE ResolveFails(c) /\ UNCHANGED <<drv, stopping>>
    BY <2>3, GivenUpStep
  <2>4. CASE Launched(c) /\ UNCHANGED <<drv, stopping>>
    BY <2>4, OperatorLaunchedStep
  <2>5. CASE LaunchFails(c) /\ UNCHANGED <<drv, stopping>>
    BY <2>1, <2>5, LaunchFailsStep
  <2>6. CASE (AbortClosed(c) \/ AbortUnclosed(c)) /\ UNCHANGED <<camp, drv, stopping>>
    BY <2>6, OperatorAbortStep
  <2> QED BY <1>3, <2>2, <2>3, <2>4, <2>5, <2>6 DEF Admission
<1>4. CASE RefusedCall /\ UNCHANGED <<drv, stopping>>
  BY <1>4, GivenUpStep
<1>5. ASSUME NEW j \in Jobs, Remote(j) \/ Monitor(j)
      PROVE  IInv'
  BY <1>5, RemoteStep, SeenStep, CloseStep DEF Monitor
<1>6. CASE StartCampaign \/ CampaignEnds \/ SegmentOver \/ SegmentLost \/ SegmentLeft
  BY <1>6, CampaignStep
<1>7. CASE StartSegment \/ SegmentLaunched \/ SegmentFails
  BY <1>7, StartSegmentStep, SegmentLaunchedStep, SegmentFailsStep
<1>8. CASE PauseCampaign \/ StopPausesCampaign
  <2>1. Pause /\ stopping' \in BOOLEAN
    BY <1>8 DEF PauseCampaign, StopPausesCampaign, IInv, TypeOK
  <2> QED BY <2>1, PauseStep
<1>9. CASE Stop
  BY <1>9, StopStep
<1>10. CASE Crash
  BY <1>10, CrashStep
<1>11. CASE UNCHANGED vars
  <2>1. UNCHANGED <<state, gen, scope, plan, jobs, runVars>> /\ CampTyped' /\ TasksTyped'
    BY <1>11, CaseSame DEF vars
  <2>2. drv' \in DriverType /\ stopping' \in BOOLEAN /\ DriverSound'
    BY <1>11, <2>1, QuietStep DEF vars, IInv, TypeOK
  <2> QED BY <2>1, <2>2, BetweenStep
<1> QED
  BY <1>1, <1>2, <1>3, <1>4, <1>5, <1>6, <1>7, <1>8, <1>9, <1>10, <1>11 DEF Next

(* What all the theorems rest on.                                              *)
THEOREM Invariant == Spec => []IInv
BY InitInv, StepInv, PTL DEF Spec

(* Every variable keeps its type, and no case has more jobs than its budget.   *)
THEOREM TypeCorrect == Spec => []TypeOK
<1>1. IInv => TypeOK
  BY DEF IInv
<1> QED BY <1>1, Invariant, PTL

(* An active job runs what is approved now (prepare_job compares the binding   *)
(* of the snapshot, and every revocation begins a new generation).             *)
THEOREM Bound == Spec => []BoundToApproval
<1>1. IInv => BoundToApproval
  BY DEF IInv
<1> QED BY <1>1, Invariant, PTL

(* The case is at work exactly while a job is active; every active job is      *)
(* answered for, unless an abort was cancelled or its result was refused       *)
(* (finish_job raises, and _finished drops the error); and what is on the host *)
(* belongs to a run that is answered for, that is known as not closed, or that *)
(* nobody was left to close, or was created late by one that did not succeed.  *)
THEOREM RunsAccounted == Spec => []Accounted
<1>1. ASSUME IInv
      PROVE  Accounted
  <2>1. \A j \in Jobs : JobSound(j) /\ jobs[j].over \in Ends
    <3>1. \A j \in Jobs : jobs[j] \in JobType
      BY <1>1 DEF IInv, TypeOK, CasesTypeOK
    <3> QED BY <1>1, <3>1 DEF IInv, JobsSound, JobType, Ends
  <2>2. (state \in {"checking", "poc_running"}) <=> (ActiveJobs # {})
    BY <1>1 DEF IInv, WorkGoesOn
  <2>3. \A j \in ActiveJobs : Owned(j) \/ jobs[j].over \in {"refused", "abandoned"}
    BY <2>1 DEF ActiveJobs, JobSound
  <2>4. ASSUME NEW j \in Created, OnHost(j)
        PROVE  \/ Owned(j) /\ jobs[j].over = "no"
               \/ jobs[j].over \in {"unclosed", "abandoned"}
               \/ proc[j] = "loose" /\ jobs[j].status # "completed"
    <3>1. JobSound(j) /\ jobs[j].over \in Ends /\ jobs[j].status # "none"
      BY <2>1 DEF Created
    <3> QED BY <2>4, <3>1 DEF JobSound, OnHost, Ends
  <2> QED BY <2>2, <2>3, <2>4 DEF Accounted
<1> QED BY <1>1, Invariant, PTL

(* Watched runs are apart on their hosts unless a revoked exclusive one is     *)
(* still being closed (the lanes of ComposeRunService and prepare_job's check  *)
(* of the active jobs together).                                               *)
THEOREM Apart == Spec => []HostsApart
<1>1. ASSUME IInv
      PROVE  HostsApart
  <2>1. SUFFICES ASSUME NEW j \in Created, NEW k \in Created, Owned(j), Owned(k), j # k,
                        jobs[j].hosts \cap jobs[k].hosts # {}
                 PROVE  \E i \in {j, k} : jobs[i].lane = "exclusive" /\ jobs[i].status # "running"
    BY DEF HostsApart
  <2>2. j \in Jobs /\ k \in Jobs
    BY DEF Created
  <2>3. ~(j \in lanes /\ k \in lanes)
    BY <1>1, <2>1 DEF IInv, LanesApart
  <2>4. jobs[j].lane = "exclusive" \/ jobs[k].lane = "exclusive"
    BY <1>1, <2>1, <2>2, <2>3 DEF IInv, LanesApart
  <2>5. CASE jobs[j].lane = "exclusive"
    BY <1>1, <2>1, <2>2, <2>5 DEF IInv, Exclusion, ActiveJobs
  <2>6. CASE jobs[k].lane = "exclusive"
    BY <1>1, <2>1, <2>2, <2>6 DEF IInv, Exclusion, ActiveJobs
  <2> QED BY <2>4, <2>5, <2>6
<1> QED BY <1>1, Invariant, PTL

-----------------------------------------------------------------------------
(* The results.                                                                *)

TrueResults == \A j \in Jobs : TrueResult(j)

(* A step that completes no job and does not touch a recorded end.             *)
LEMMA NoResult ==
  ASSUME \A j \in Jobs : /\ jobs'[j].status = "completed" => jobs[j].status = "completed"
                         /\ jobs[j].over # "no" => jobs'[j].over = jobs[j].over
  PROVE  TrueResults
BY DEF TrueResults, TrueResult

LEMMA RevokedResult ==
  ASSUME IInv, NEW j \in Jobs
  PROVE  /\ Revoked(j).status = "completed" => jobs[j].status = "completed"
         /\ Revoked(j).over = jobs[j].over
         /\ Abandoned(Revoked(j)).status = Revoked(j).status
         /\ jobs[j].over # "no" => Abandoned(Revoked(j)) = Revoked(j)
<1>1. jobs[j] \in JobType /\ Revoked(j) \in JobType /\ Revoked(j).over = jobs[j].over
  BY RevokedFacts DEF IInv, TypeOK, CasesTypeOK
<1>2. Revoked(j).status = "completed" => jobs[j].status = "completed"
  BY <1>1 DEF Revoked, JobType
<1>3. Abandoned(Revoked(j)).status = Revoked(j).status
  BY <1>1 DEF Abandoned, JobType
<1> QED BY <1>1, <1>2, <1>3 DEF Abandoned

(* The end of a run: it is a success only with the outcome of a completed one. *)
LEMMA EndResult ==
  ASSUME IInv, NEW j \in Jobs, Leaves(j),
         \/ FinishUnclosed(j)
         \/ FinishRefused(j) \/ StopRefused(j)
         \/ FinishClosed(j, "failed")
         \/ mon[j] = "completed" /\ FinishClosed(j, "completed")
  PROVE  TrueResults
<1>1. /\ jobs[j].status # "none" /\ jobs[j].over = "no"
      /\ mon[j] = "completed" => proc[j] = "exited"
  BY LeavesFacts DEF IInv, JobsSound, JobSound
<1>2. CASE FinishUnclosed(j)
  <2>1. \A k \in Jobs : k # j => jobs'[k] = Revoked(k)
    BY <1>1, <1>2, FinishUnclosedFacts
  <2>2. \A k \in Jobs : jobs'[k].status = "completed" => jobs[k].status = "completed"
    BY <1>1, <1>2, FinishUnclosedFacts
  <2>3. \A k \in Jobs : jobs[k].over # "no" => jobs'[k].over = jobs[k].over
    BY <1>1, <2>1, RevokedResult
  <2> QED BY <2>2, <2>3, NoResult
<1>3. ASSUME NEW outcome \in {"completed", "failed"}, FinishClosed(j, outcome),
             outcome = "completed" => mon[j] = "completed"
      PROVE  TrueResults
  <2>1. /\ \A k \in Jobs : k # j => jobs'[k] = jobs[k]
        /\ jobs'[j].status = "completed" => j \in ActiveJobs /\ outcome = "completed"
        /\ gen' = gen
    BY <1>1, <1>3, FinishClosedFacts
  <2>2. j \in ActiveJobs => jobs[j].built = Binding(jobs[j].kind)
    BY DEF IInv, BoundToApproval
  <2> QED BY <1>1, <1>3, <2>1, <2>2 DEF TrueResults, TrueResult
<1>4. CASE FinishRefused(j)
  <2>1. \A k \in Jobs : jobs'[k].status = jobs[k].status /\ (k # j => jobs'[k] = jobs[k])
    BY <1>4, OverOnlyFacts DEF FinishRefused, Ends
  <2> QED BY <1>1, <2>1, NoResult
<1>5. CASE StopRefused(j)
  <2>1. \A k \in Jobs : jobs'[k].status = Revoked(k).status /\ (k # j => jobs'[k] = Revoked(k))
    BY <1>5, StopRefusedFacts
  <2> QED BY <1>1, <2>1, RevokedResult, NoResult
<1> QED BY <1>2, <1>3, <1>4, <1>5

(* Preparing a job records no result.                                          *)
LEMMA PreparedResult ==
  ASSUME IInv, NEW kind \in {"agent", "tool", "poc"},
         NEW finding \in Findings \cup {"none"}, NEW lane \in Lanes,
         NEW hosts \in SUBSET Hosts, NEW built \in Bindings,
         PrepareJob(kind, finding, lane, hosts, built)
  PROVE  TrueResults
<1>1. /\ NewJob \in Jobs /\ jobs[NewJob].status = "none"
      /\ jobs'[NewJob].status = "running" /\ jobs'[NewJob].over = "no"
      /\ \A j \in Jobs : j # NewJob => jobs'[j] = jobs[j]
  BY PrepareFacts
<1>2. jobs[NewJob].over = "no"
  BY <1>1 DEF IInv, JobsSound, JobSound
<1> QED BY <1>1, <1>2, NoResult

LEMMA StepResults ==
  ASSUME IInv, Next
  PROVE  TrueResults
<1>1. CASE UNCHANGED jobs
  BY <1>1, NoResult
<1>2. CASE RevokeIn
  <2>1. \A j \in Jobs : jobs'[j] = Revoked(j)
    BY <1>2 DEF RevokeIn
  <2> QED BY <2>1, RevokedResult, NoResult
<1>3. ASSUME NEW c \in Callers, Resolved(c)
      PROVE  TrueResults
  <2>1. PICK kind \in {"tool", "poc"}, finding \in Findings \cup {"none"}, lane \in Lanes,
       h \in Hosts, built \in Bindings :
          /\ adm[c].kind = kind /\ adm[c].finding = finding /\ adm[c].lane = lane
        /\ adm[c].host = h /\ adm[c].built = built
    BY <1>3, CallerFacts DEF Resolved
  <2>2. PrepareJob(kind, finding, lane, {h}, built)
    BY <1>3, <2>1 DEF Resolved
  <2> QED BY <2>2, PreparedResult
<1>4. ASSUME NEW c \in Callers, NEW lane \in Lanes, NEW hosts \in SUBSET Hosts,
             Admit(c, lane, hosts)
      PROVE  TrueResults
  <2>1. gen \in Nat /\ scope.ver \in Nat
    BY DEF IInv, TypeOK, CasesTypeOK
  <2>2. Binding("agent") \in Bindings
    BY <2>1 DEF Binding, Bindings
  <2> QED BY <1>4, <2>2, PreparedResult DEF Admit
<1>5. ASSUME NEW c \in Callers, AbortClosed(c) \/ AbortUnclosed(c)
      PROVE  TrueResults
  <2>1. PICK j \in Jobs : j = adm[c].job
    BY <1>5, CallerFacts DEF AbortClosed, AbortUnclosed
  <2>2. Leaves(j) /\ (FinishUnclosed(j) \/ FinishClosed(j, "failed"))
    BY <1>5, <2>1 DEF AbortClosed, AbortUnclosed, Aborted, Leaves, Admits
  <2> QED BY <2>2, EndResult
<1>6. ASSUME NEW j \in Jobs, CloseRun(j) \/ CloseFails(j) \/ CloseRefused(j)
      PROVE  TrueResults
  <2>1. /\ Leaves(j)
        /\ \/ FinishUnclosed(j)
           \/ FinishRefused(j) \/ StopRefused(j)
           \/ FinishClosed(j, "failed")
           \/ mon[j] = "completed" /\ FinishClosed(j, "completed")
    BY <1>6 DEF CloseRun, CloseFails, CloseRefused, Over, Leaves, Closing
  <2> QED BY <2>1, EndResult
<1>7. CASE Pause
  <2>1. CASE adm[Driver].at = "aborting"
             /\ jobs' = [jobs EXCEPT ![adm[Driver].job].over = "abandoned"]
    <3>1. Driver \in Callers
      BY DEF Callers
    <3>2. PICK j \in Jobs : j = adm[Driver].job /\ Owned(j)
      BY <2>1, <3>1, CallerFacts
    <3>3. jobs[j].over = "no" /\ jobs[j] \in JobType /\ jobs \in [Jobs -> JobType]
      BY <3>2 DEF IInv, JobsSound, JobSound, TypeOK, CasesTypeOK
    <3>4. jobs' = [jobs EXCEPT ![j] = [jobs[j] EXCEPT !.over = "abandoned"]]
      BY <2>1, <3>2, <3>3
    <3>5. /\ jobs'[j].status = jobs[j].status
          /\ \A k \in Jobs : k # j => jobs'[k] = jobs[k]
      BY <3>3, <3>4 DEF JobType
    <3> QED BY <3>3, <3>5, NoResult
  <2>2. CASE UNCHANGED jobs
    BY <2>2, <1>1
  <2> QED BY <1>7, <2>1, <2>2 DEF Pause, CancelDriver
<1>8. CASE Stop
  <2>1. \A j \in Jobs : jobs'[j] = IF Cut(j) THEN Abandoned(Revoked(j)) ELSE Revoked(j)
    BY <1>8 DEF Stop
  <2> QED BY <2>1, RevokedResult, NoResult
<1>9. CASE Crash
  <2>1. \A j \in Jobs : jobs'[j] = Abandoned(Revoked(j))
    BY <1>9 DEF Crash, RestartController
  <2> QED BY <2>1, RevokedResult, NoResult
<1>10. CASE Command
  BY <1>1, <1>2, <1>10 DEF Command, BeginDiscovery, FinishDiscovery, ProposeScope, ExtendBudget,
    SaveScope, ActivateScope, ProposeActions, ActivateActions, Resume
<1>11. ASSUME NEW c \in Operators, Request(c) \/ Admission(c)
       PROVE  TrueResults
  <2>1. c \in Callers
    BY DEF Callers
  <2>2. CASE \E hosts \in Selections : StartAgent(c, hosts)
    <3>1. PICK hosts \in Selections, lane \in Lanes : Admit(c, lane, hosts)
      BY <2>2 DEF StartAgent, OperatorLane, Lanes
    <3> QED BY <1>4, <2>1, <3>1, CaseAssumption
  <2>3. CASE Resolved(c) \/ AbortClosed(c) \/ AbortUnclosed(c)
    BY <1>3, <1>5, <2>1, <2>3
  <2>4. CASE UNCHANGED jobs
    BY <2>4, <1>1
  <2> QED BY <1>11, <2>2, <2>3, <2>4
    DEF Request, Admission, Resolve, ResolveFails, Launched, LaunchFails, caseVars
<1>12. CASE StartSegment \/ SegmentLaunched \/ SegmentFails
  <2>1. Driver \in Callers
    BY DEF Callers
  <2>2. CASE StartSegment
    <3>1. PICK t \in Tasks : Admit(Driver, "research", TaskHosts[t])
      BY <2>2 DEF StartSegment, Queued
    <3>2. "research" \in Lanes /\ TaskHosts[t] \in SUBSET Hosts
      BY CaseAssumption DEF Lanes
    <3> QED BY <1>4, <2>1, <3>1, <3>2
  <2>3. CASE AbortClosed(Driver) \/ AbortUnclosed(Driver)
    BY <1>5, <2>1, <2>3
  <2>4. CASE UNCHANGED jobs
    BY <2>4, <1>1
  <2> QED BY <1>12, <2>2, <2>3, <2>4
    DEF SegmentLaunched, SegmentFails, Launched, LaunchFails, caseVars
<1>13. CASE StartCampaign \/ CampaignEnds \/ SegmentOver \/ SegmentLost \/ SegmentLeft
            \/ (RefusedCall /\ UNCHANGED <<drv, stopping>>)
  <2>1. UNCHANGED jobs
    BY <1>13 DEF StartCampaign, BeginResearch, CampaignEnds, SegmentOver, SegmentLost, SegmentLeft,
      RefusedCall, caseVars
  <2> QED BY <2>1, <1>1
<1>14. ASSUME NEW j \in Jobs, Remote(j) \/ Monitor(j)
       PROVE  TrueResults
  <2>1. CASE UNCHANGED jobs
    BY <2>1, <1>1
  <2>2. CASE CloseRun(j) \/ CloseFails(j) \/ CloseRefused(j)
    BY <2>2, <1>6
  <2> QED BY <1>14, <2>1, <2>2
    DEF Remote, RemoteUp, RemoteExits, Monitor, RunCompletes, RunBreaks, caseVars
<1>15. CASE PauseCampaign \/ StopPausesCampaign
  BY <1>7, <1>15 DEF PauseCampaign, StopPausesCampaign
<1> QED
  BY <1>8, <1>9, <1>10, <1>11, <1>12, <1>13, <1>14, <1>15 DEF Next

(* A success is the end of a container its monitor saw while the job was not   *)
(* revoked (finish_job and the monitor's two validations); a recorded end is   *)
(* final.                                                                      *)
THEOREM ResultsTrue == Spec => ResultsSound
<1>1. ASSUME IInv, [Next]_vars
      PROVE  [TrueResults]_vars
  BY <1>1, StepResults
<1>2. Spec => [][TrueResults]_vars
  BY <1>1, Invariant, PTL DEF Spec
<1> QED BY <1>2, PTL DEF ResultsSound, TrueResults

-----------------------------------------------------------------------------
(* The refinement of Approval: what a step does to the records of the jobs.    *)

(* The record of a job: it is bound to what it was compiled from, and it has   *)
(* no verdict before its run is over.                                          *)
RecordSound(j) ==
    /\ jobs[j].bind = jobs[j].built
    /\ jobs[j].status \in {"completed", "failed"} => jobs[j].over # "no"
RecordsSound == \A j \in Jobs : RecordSound(j)

EndKept(j) == jobs'[j].over = "no" => jobs[j].over = "no"

(* Jobs go on as they were.                                                    *)
Unseen ==
    /\ UNCHANGED <<scope, gen, plan>>
    /\ \A j \in Jobs : Kept(j) /\ EndKept(j) /\ jobs'[j].status = jobs[j].status

(* All active jobs are revoked, if there are any.                              *)
Revokes ==
    /\ \A j \in Jobs : Kept(j) /\ EndKept(j) /\ jobs'[j].status = Revoked(j).status
    /\ scope'.ver >= scope.ver /\ gen' >= gen /\ plan'.ver >= plan.ver
    /\ ActiveJobs # {} => gen' > gen

(* A run ends, as closed or not.                                               *)
RunEnds(j) ==
    /\ Owned(j)
    /\ FinishUnclosed(j) \/ \E outcome \in {"completed", "failed"} : FinishClosed(j, outcome)

Prepares ==
    \E kind \in {"agent", "tool", "poc"}, finding \in Findings \cup {"none"}, lane \in Lanes,
       hosts \in SUBSET Hosts, built \in Bindings : PrepareJob(kind, finding, lane, hosts, built)

Change == Unseen \/ Revokes \/ (\E j \in Jobs : RunEnds(j)) \/ Prepares

LEMMA SameJobs ==
  ASSUME UNCHANGED <<scope, gen, plan, jobs>>
  PROVE  Change
BY DEF Change, Unseen, Kept, EndKept

(* What a revocation of all jobs is, also one that abandons some.              *)
LEMMA RevokedChange ==
  ASSUME IInv, \A j \in Jobs : jobs'[j] = Revoked(j) \/ jobs'[j] = Abandoned(Revoked(j)),
         scope'.ver >= scope.ver, gen' >= gen, plan'.ver >= plan.ver,
         ActiveJobs # {} => gen' > gen
  PROVE  Change
<1>1. ASSUME NEW j \in Jobs
      PROVE  Kept(j) /\ EndKept(j) /\ jobs'[j].status = Revoked(j).status
  <2>1. /\ Revoked(j) \in JobType /\ Revoked(j).over = jobs[j].over
        /\ Revoked(j).status = "none" <=> jobs[j].status = "none"
        /\ Revoked(j).kind = jobs[j].kind /\ Revoked(j).lane = jobs[j].lane
        /\ Revoked(j).hosts = jobs[j].hosts
        /\ Revoked(j).bind = jobs[j].bind /\ Revoked(j).built = jobs[j].built
        /\ Revoked(j).finding = jobs[j].finding
        /\ Revoked(j).status = "completed" <=> jobs[j].status = "completed"
    BY RevokedFacts
  <2>2. CASE jobs'[j] = Revoked(j)
    BY <2>1, <2>2 DEF Kept, EndKept
  <2>3. CASE jobs'[j] = Abandoned(Revoked(j))
    BY <2>1, <2>3 DEF Kept, EndKept, Abandoned, JobType
  <2> QED BY <2>2, <2>3
<1> QED BY <1>1 DEF Change, Revokes

(* Nobody is active, so nobody is revoked.                                     *)
LEMMA NobodyRevoked ==
  ASSUME IInv, ActiveJobs = {}, jobs' = jobs, gen' = gen,
         scope'.ver >= scope.ver, plan'.ver >= plan.ver
  PROVE  Change
<1>1. gen \in Nat
  BY DEF IInv, TypeOK, CasesTypeOK
<1>2. \A j \in Jobs : Revoked(j) = jobs[j]
  BY DEF Revoked
<1> QED BY <1>1, <1>2, RevokedChange

LEMMA CommandChange ==
  ASSUME IInv, Command
  PROVE  Change
<1>1. /\ gen \in Nat /\ scope.ver \in Nat /\ plan.ver \in Nat
      /\ scope \in [ver : Nat, status : {"none", "pending", "approved"}]
      /\ plan \in [ver : Nat, status : {"none", "pending", "approved"}, scope : Nat]
      /\ (state \in {"checking", "poc_running"}) <=> (ActiveJobs # {})
      /\ ActiveJobs # {} => ApprovedScope
  BY DEF IInv, TypeOK, CasesTypeOK, WorkGoesOn
<1>2. CASE BeginDiscovery \/ FinishDiscovery \/ Resume
  BY <1>2, SameJobs DEF BeginDiscovery, FinishDiscovery, Resume
<1>3. CASE ProposeScope \/ ExtendBudget
  <2>1. /\ \A j \in Jobs : jobs'[j] = Revoked(j)
        /\ scope'.ver = scope.ver + 1 /\ gen' = gen + 1 /\ plan' = plan
    BY <1>3 DEF ProposeScope, ExtendBudget, SaveScope, RevokeIn
  <2> QED BY <1>1, <2>1, RevokedChange
<1>4. CASE ActivateScope
  <2>1. ActiveJobs = {} /\ scope'.ver = scope.ver /\ plan' = plan /\ jobs' = jobs /\ gen' = gen
    BY <1>1, <1>4 DEF ActivateScope, ApprovedScope
  <2> QED BY <1>1, <2>1, NobodyRevoked
<1>5. CASE ProposeActions \/ ActivateActions
  <2>1. /\ ActiveJobs = {} /\ scope' = scope /\ jobs' = jobs /\ gen' = gen
        /\ plan'.ver \in {plan.ver, plan.ver + 1}
    BY <1>1, <1>5 DEF ProposeActions, ActivateActions
  <2> QED BY <1>1, <2>1, NobodyRevoked
<1> QED BY <1>2, <1>3, <1>4, <1>5 DEF Command

LEMMA AdmitChange ==
  ASSUME IInv, NEW c \in Callers,
         \/ Resolved(c)
         \/ \E lane \in Lanes, hosts \in SUBSET Hosts : Admit(c, lane, hosts)
  PROVE  Change
<1>1. CASE Resolved(c)
  <2>1. PICK kind \in {"tool", "poc"}, finding \in Findings \cup {"none"}, lane \in Lanes,
       h \in Hosts, built \in Bindings :
          /\ adm[c].kind = kind /\ adm[c].finding = finding /\ adm[c].lane = lane
        /\ adm[c].host = h /\ adm[c].built = built
    BY <1>1, CallerFacts DEF Resolved
  <2>2. PrepareJob(kind, finding, lane, {h}, built)
    BY <1>1, <2>1 DEF Resolved
  <2>3. {h} \in SUBSET Hosts
    OBVIOUS
  <2> QED BY <2>2, <2>3 DEF Change, Prepares
<1>2. ASSUME NEW lane \in Lanes, NEW hosts \in SUBSET Hosts, Admit(c, lane, hosts)
      PROVE  Change
  <2>1. gen \in Nat /\ scope.ver \in Nat
    BY DEF IInv, TypeOK, CasesTypeOK
  <2>2. Binding("agent") \in Bindings
    BY <2>1 DEF Binding, Bindings
  <2> QED BY <1>2, <2>2 DEF Admit, Change, Prepares
<1> QED BY <1>1, <1>2

(* A job whose record of its end changes goes on as it was.                    *)
LEMMA OverOnlyChange ==
  ASSUME IInv, NEW j \in Jobs, NEW o \in Ends \ {"no"}, jobs' = [jobs EXCEPT ![j].over = o],
         UNCHANGED <<state, gen, scope, plan>>
  PROVE  Change
<1>1. /\ \A k \in Jobs : Kept(k) /\ jobs'[k].status = jobs[k].status
      /\ \A k \in Jobs : k # j => jobs'[k] = jobs[k]
      /\ jobs'[j].over = o
  BY OverOnlyFacts
<1>2. \A k \in Jobs : EndKept(k)
  BY <1>1 DEF EndKept
<1> QED BY <1>1, <1>2 DEF Change, Unseen

LEMMA EndChange ==
  ASSUME IInv,
         \/ \E c \in Callers : AbortClosed(c) \/ AbortUnclosed(c)
         \/ \E j \in Jobs : CloseRun(j) \/ CloseFails(j) \/ CloseRefused(j)
  PROVE  Change
<1>1. ASSUME NEW c \in Callers, AbortClosed(c) \/ AbortUnclosed(c)
      PROVE  Change
  <2>1. PICK j \in Jobs : j = adm[c].job /\ Owned(j)
    BY <1>1, CallerFacts DEF AbortClosed, AbortUnclosed
  <2>2. FinishUnclosed(j) \/ FinishClosed(j, "failed")
    BY <1>1, <2>1 DEF AbortClosed, AbortUnclosed
  <2> QED BY <2>1, <2>2 DEF Change, RunEnds
<1>2. ASSUME NEW j \in Jobs, CloseRun(j) \/ CloseFails(j)
      PROVE  Change
  <2>1. /\ Owned(j)
        /\ FinishUnclosed(j) \/ FinishClosed(j, "failed") \/ FinishClosed(j, "completed")
    BY <1>2 DEF CloseRun, CloseFails, Closing, Owned
  <2> QED BY <2>1 DEF Change, RunEnds
<1>3. ASSUME NEW j \in Jobs, CloseRefused(j)
      PROVE  Change
  <2>1. CASE FinishRefused(j)
    <3>1. /\ jobs' = [jobs EXCEPT ![j].over = "refused"]
          /\ UNCHANGED <<state, gen, scope, plan>>
      BY <2>1 DEF FinishRefused
    <3> QED BY <3>1, OverOnlyChange DEF Ends
  <2>2. CASE StopRefused(j)
    <3>1. /\ \A k \in Jobs : Kept(k) /\ jobs'[k].status = Revoked(k).status
          /\ \A k \in Jobs : k # j => jobs'[k] = Revoked(k)
          /\ jobs'[j].over = "abandoned" /\ gen' = gen + 1
      BY <2>2, StopRefusedFacts
    <3>2. \A k \in Jobs : EndKept(k)
      BY <3>1, RevokedFacts DEF EndKept
    <3>3. /\ gen \in Nat /\ scope.ver \in Nat /\ plan.ver \in Nat
          /\ UNCHANGED <<scope, plan>>
      BY <2>2 DEF StopRefused, IInv, TypeOK, CasesTypeOK
    <3> QED BY <3>1, <3>2, <3>3 DEF Change, Revokes
  <2> QED BY <1>3, <2>1, <2>2 DEF CloseRefused
<1> QED BY <1>1, <1>2, <1>3

(* A pause may abandon the launch it interrupts, which keeps its status.       *)
LEMMA PauseChange ==
  ASSUME IInv, Pause
  PROVE  Change
<1>1. UNCHANGED <<scope, gen, plan>>
  BY DEF Pause
<1>2. CASE UNCHANGED jobs
  BY <1>1, <1>2, SameJobs
<1>3. CASE adm[Driver].at = "aborting"
           /\ jobs' = [jobs EXCEPT ![adm[Driver].job].over = "abandoned"]
  <2>1. Driver \in Callers
    BY DEF Callers
  <2>2. PICK j \in Jobs : j = adm[Driver].job
    BY <1>3, <2>1, CallerFacts
  <2>3. UNCHANGED <<state, gen, scope, plan>>
    BY DEF Pause
  <2> QED BY <1>3, <2>2, <2>3, OverOnlyChange DEF Ends
<1> QED BY <1>2, <1>3 DEF Pause, CancelDriver

(* The stop of the case, and a restart of the daemon.                          *)
LEMMA StopChange ==
  ASSUME IInv, Stop \/ Crash
  PROVE  Change
<1>1. gen \in Nat /\ scope.ver \in Nat /\ plan.ver \in Nat
  BY DEF IInv, TypeOK, CasesTypeOK
<1>2. UNCHANGED <<scope, plan>> /\ gen' \in {gen, gen + 1} /\ (ActiveJobs # {} => gen' = gen + 1)
  BY DEF Stop, Crash, RestartController
<1>3. \A j \in Jobs : jobs'[j] = Revoked(j) \/ jobs'[j] = Abandoned(Revoked(j))
  BY DEF Stop, Crash, RestartController
<1> QED BY <1>1, <1>2, <1>3, RevokedChange

LEMMA StepChange ==
  ASSUME IInv, [Next]_vars
  PROVE  Change
<1>1. ASSUME NEW c \in Operators, Request(c) \/ Admission(c)
      PROVE  Change
  <2>1. c \in Callers
    BY DEF Callers
  <2>2. CASE \E hosts \in Selections : StartAgent(c, hosts)
    <3>1. PICK hosts \in Selections, lane \in Lanes : Admit(c, lane, hosts)
      BY <2>2 DEF StartAgent, OperatorLane, Lanes
    <3>2. hosts \in SUBSET Hosts
      BY CaseAssumption
    <3> QED BY <2>1, <3>1, <3>2, AdmitChange
  <2>3. CASE Resolved(c)
    BY <2>1, <2>3, AdmitChange
  <2>4. CASE AbortClosed(c) \/ AbortUnclosed(c)
    BY <2>1, <2>4, EndChange
  <2>5. CASE UNCHANGED caseVars
    BY <2>5, SameJobs DEF caseVars
  <2> QED BY <1>1, <2>2, <2>3, <2>4, <2>5
    DEF Request, Admission, Resolve, ResolveFails, Launched, LaunchFails
<1>2. ASSUME NEW j \in Jobs, Remote(j) \/ Monitor(j)
      PROVE  Change
  <2>1. CASE CloseRun(j) \/ CloseFails(j) \/ CloseRefused(j)
    BY <2>1, EndChange
  <2>2. CASE UNCHANGED caseVars
    BY <2>2, SameJobs DEF caseVars
  <2> QED BY <1>2, <2>1, <2>2 DEF Remote, RemoteUp, RemoteExits, Monitor, RunCompletes, RunBreaks
<1>3. CASE StartSegment \/ SegmentLaunched \/ SegmentFails
  <2>1. Driver \in Callers
    BY DEF Callers
  <2>2. CASE StartSegment
    <3>1. PICK t \in Tasks : Admit(Driver, "research", TaskHosts[t])
      BY <2>2 DEF StartSegment, Queued
    <3>2. "research" \in Lanes /\ TaskHosts[t] \in SUBSET Hosts
      BY CaseAssumption DEF Lanes
    <3> QED BY <2>1, <3>1, <3>2, AdmitChange
  <2>3. CASE AbortClosed(Driver) \/ AbortUnclosed(Driver)
    BY <2>1, <2>3, EndChange
  <2>4. CASE UNCHANGED caseVars
    BY <2>4, SameJobs DEF caseVars
  <2> QED BY <1>3, <2>2, <2>3, <2>4
    DEF SegmentLaunched, SegmentFails, Launched, LaunchFails
<1>4. CASE \/ StartCampaign \/ CampaignEnds \/ SegmentOver \/ SegmentLost \/ SegmentLeft
           \/ RefusedCall /\ UNCHANGED <<drv, stopping>>
           \/ UNCHANGED vars
  <2>1. UNCHANGED <<scope, gen, plan, jobs>>
    BY <1>4 DEF StartCampaign, BeginResearch, CampaignEnds, SegmentOver, SegmentLost, SegmentLeft,
      RefusedCall, caseVars, vars
  <2> QED BY <2>1, SameJobs
<1>5. CASE PauseCampaign \/ StopPausesCampaign
  BY <1>5, PauseChange DEF PauseCampaign, StopPausesCampaign
<1> QED BY <1>1, <1>2, <1>3, <1>4, <1>5, CommandChange, StopChange DEF Next

(* Records stay sound.                                                         *)
LEMMA RecordsStep ==
  ASSUME IInv, RecordsSound, Change
  PROVE  RecordsSound'
<1>1. CASE Unseen
  BY <1>1 DEF Unseen, RecordsSound, RecordSound, Kept, EndKept
<1>2. CASE Revokes
  <2>1. ASSUME NEW j \in Jobs, Revoked(j).status \in {"completed", "failed"}
        PROVE  jobs[j].status = Revoked(j).status
    <3>1. jobs[j] \in JobType
      BY DEF IInv, TypeOK, CasesTypeOK
    <3> QED BY <2>1, <3>1 DEF Revoked, JobType
  <2> QED BY <1>2, <2>1 DEF Revokes, RecordsSound, RecordSound, Kept, EndKept
<1>3. ASSUME NEW j \in Jobs, RunEnds(j)
      PROVE  RecordsSound'
  <2>1. jobs[j].status # "none"
    BY <1>3 DEF RunEnds, IInv, JobsSound, JobSound
  <2>2. CASE FinishUnclosed(j)
    <3>1. /\ \A k \in Jobs : Kept(k) /\ (k # j => jobs'[k] = Revoked(k))
          /\ jobs'[j].over = "unclosed"
      BY <2>1, <2>2, FinishUnclosedFacts
    <3>2. ASSUME NEW k \in Jobs
          PROVE  /\ Revoked(k).over = jobs[k].over
                 /\ Revoked(k).status \in {"completed", "failed"} => jobs[k].status = Revoked(k).status
      <4>1. jobs[k] \in JobType
        BY DEF IInv, TypeOK, CasesTypeOK
      <4> QED BY <4>1, RevokedFacts DEF Revoked, JobType
    <3> QED BY <3>1, <3>2 DEF RecordsSound, RecordSound, Kept
  <2>3. ASSUME NEW outcome \in {"completed", "failed"}, FinishClosed(j, outcome)
        PROVE  RecordsSound'
    <3>1. /\ \A k \in Jobs : Kept(k) /\ (k # j => jobs'[k] = jobs[k])
          /\ jobs'[j].over = "closed"
      BY <2>1, <2>3, FinishClosedFacts
    <3> QED BY <3>1 DEF RecordsSound, RecordSound, Kept
  <2> QED BY <1>3, <2>2, <2>3 DEF RunEnds
<1>4. ASSUME NEW kind \in {"agent", "tool", "poc"},
             NEW finding \in Findings \cup {"none"}, NEW lane \in Lanes,
             NEW hosts \in SUBSET Hosts, NEW built \in Bindings,
             PrepareJob(kind, finding, lane, hosts, built)
      PROVE  RecordsSound'
  <2>1. /\ NewJob \in Jobs /\ jobs'[NewJob].status = "running"
        /\ \A j \in Jobs : j # NewJob => jobs'[j] = jobs[j]
        /\ BoundToApproval'
    BY <1>4, PrepareFacts
  <2>2. jobs'[NewJob].bind = jobs'[NewJob].built
    BY <2>1 DEF BoundToApproval, ActiveJobs
  <2> QED BY <2>1, <2>2 DEF RecordsSound, RecordSound
<1> QED BY <1>1, <1>2, <1>3, <1>4 DEF Change, Prepares

(* A job is bound to what it was compiled from, and only a run that is over    *)
(* has a verdict.                                                              *)
THEOREM Records == Spec => [](IInv /\ RecordsSound)
<1>1. Init => RecordsSound
  BY DEF Init, CasesInit, RecordsSound, RecordSound, NoJob
<1>2. IInv /\ RecordsSound /\ [Next]_vars => RecordsSound'
  BY StepChange, RecordsStep
<1> QED BY <1>1, <1>2, Invariant, PTL DEF Spec

GrantNow == [scope |-> scope.ver, gen |-> gen, plan |-> plan.ver, kinds |-> Approved]
RunOf(j) == [status |-> jobs[j].status, kind |-> jobs[j].kind,
             finding |-> jobs[j].finding, under |-> jobs[j].built]
RunsNow == [j \in Jobs |-> RunOf(j)]

(* The grant is that of before as long as scope, generation and plan are.      *)
LEMMA GrantStays ==
  ASSUME UNCHANGED <<scope, gen, plan>>
  PROVE  GrantNow' = GrantNow
BY DEF GrantNow, Approved, ApprovedScope, ApprovedAction

(* One run is touched, in its status only.                                     *)
LEMMA StatusMoves ==
  ASSUME IInv, NEW j \in Jobs, NEW s, Kept(j), jobs'[j].status = s,
         \A k \in Jobs : k # j => jobs'[k] = jobs[k]
  PROVE  RunsNow' = [RunsNow EXCEPT ![j].status = s]
<1>1. RunOf(j)' = [RunOf(j) EXCEPT !.status = s]
  BY DEF RunOf, Kept
<1>2. \A k \in Jobs : k # j => RunOf(k)' = RunOf(k)
  BY DEF RunOf
<1>3. RunsNow' = [k \in Jobs |-> RunOf(k)']
  BY DEF RunsNow
<1>4. RunsNow' = [RunsNow EXCEPT ![j] = [RunOf(j) EXCEPT !.status = s]]
  BY <1>1, <1>2, <1>3 DEF RunsNow
<1> QED BY <1>4 DEF RunsNow

(* All runs but those of "ended", which fail, are revoked.                     *)
LEMMA RunsRevoked ==
  ASSUME IInv, NEW ended \in SUBSET Jobs, \A j \in ended : jobs[j].status \in {"running", "revoked"},
         \A j \in Jobs : Kept(j),
         \A j \in Jobs : jobs'[j].status = IF j \in ended THEN "failed" ELSE Revoked(j).status,
         scope'.ver >= scope.ver, gen' >= gen, plan'.ver >= plan.ver,
         ActiveJobs # {} \/ ended # {} => gen' > gen
  PROVE  Granted!Revoke(ended)
<1>1. ASSUME NEW j \in Jobs
      PROVE  RunOf(j)' = IF j \in ended THEN [RunOf(j) EXCEPT !.status = "failed"]
                         ELSE IF RunOf(j).status = "running"
                              THEN [RunOf(j) EXCEPT !.status = "revoked"]
                         ELSE RunOf(j)
  <2>1. jobs[j] \in JobType
    BY DEF IInv, TypeOK, CasesTypeOK
  <2>2. Revoked(j).status = IF jobs[j].status = "running" THEN "revoked" ELSE jobs[j].status
    BY <2>1 DEF Revoked, ActiveJobs, JobType
  <2>3. RunOf(j)' = [status |-> jobs'[j].status, kind |-> jobs[j].kind,
                        finding |-> jobs[j].finding, under |-> jobs[j].built]
    BY DEF RunOf, Kept
  <2> QED BY <2>2, <2>3 DEF RunOf
<1>2. RunsNow' = [j \in Jobs |-> RunOf(j)']
  BY DEF RunsNow
<1>3. RunsNow' = [j \in Jobs |->
         IF j \in ended THEN [RunsNow[j] EXCEPT !.status = "failed"]
         ELSE IF RunsNow[j].status = "running" THEN [RunsNow[j] EXCEPT !.status = "revoked"]
         ELSE RunsNow[j]]
  BY <1>1, <1>2 DEF RunsNow
<1>4. \A j \in ended : RunsNow[j].status \in {"running", "revoked"}
  BY DEF RunsNow, RunOf
<1>5. (\E j \in Jobs : RunsNow[j].status = "running") => ActiveJobs # {}
  BY DEF RunsNow, RunOf, ActiveJobs
<1>6. /\ GrantNow'.scope = scope'.ver /\ GrantNow'.gen = gen' /\ GrantNow'.plan = plan'.ver
      /\ GrantNow'.kinds = Approved'
      /\ GrantNow.scope = scope.ver /\ GrantNow.gen = gen /\ GrantNow.plan = plan.ver
  BY DEF GrantNow
<1>7. Approved' \subseteq {"agent", "tool", "poc"}
  BY DEF Approved
<1> QED BY <1>3, <1>4, <1>5, <1>6, <1>7
  DEF Granted!Revoke, Granted!Open, Granted!Kinds, GrantNow, RunsNow, RunOf

LEMMA EndApproval ==
  ASSUME IInv, RecordsSound, NEW j \in Jobs, RunEnds(j)
  PROVE  Granted!Next
<1>1. jobs[j].status \in {"running", "revoked"}
  <2>1. jobs[j] \in JobType /\ jobs[j].status # "none" /\ jobs[j].over = "no"
    BY DEF RunEnds, IInv, JobsSound, JobSound, TypeOK, CasesTypeOK
  <2> QED BY <2>1 DEF RecordsSound, RecordSound, JobType
<1>2. CASE FinishUnclosed(j)
  <2>1. /\ \A k \in Jobs : Kept(k) /\ (k # j => jobs'[k] = Revoked(k))
        /\ gen' = gen + 1 /\ gen \in Nat /\ scope.ver \in Nat /\ plan.ver \in Nat
        /\ UNCHANGED <<scope, plan>>
    BY <1>1, <1>2, FinishUnclosedFacts DEF FinishUnclosed, IInv, TypeOK, CasesTypeOK
  <2>2. jobs'[j].status = "failed"
    <3>1. jobs[j] \in JobType
      BY DEF IInv, TypeOK, CasesTypeOK
    <3> QED BY <1>2, <3>1 DEF FinishUnclosed, JobType
  <2>3. Granted!Revoke({j})
    BY <1>1, <2>1, <2>2, RunsRevoked
  <2>4. GrantNow' # GrantNow
    BY <2>1 DEF GrantNow
  <2> QED BY <2>3, <2>4 DEF Granted!Next, GrantNow
<1>3. ASSUME NEW outcome \in {"completed", "failed"}, FinishClosed(j, outcome)
      PROVE  Granted!Next
  <2>1. /\ \A k \in Jobs : Kept(k) /\ (k # j => jobs'[k] = jobs[k])
        /\ jobs'[j].status = "completed" => j \in ActiveJobs
        /\ UNCHANGED <<scope, gen, plan>>
    BY <1>1, <1>3, FinishClosedFacts DEF FinishClosed
  <2>2. jobs'[j].status \in {"completed", "failed"}
    <3>1. PICK verdict \in Verdicts(j, outcome) :
            jobs' = [jobs EXCEPT ![j].status = verdict, ![j].over = "closed"]
      BY <1>3 DEF FinishClosed
    <3>2. verdict \in {"completed", "failed"} /\ jobs \in [Jobs -> JobType]
      BY DEF Verdicts, IInv, TypeOK, CasesTypeOK
    <3> QED BY <3>1, <3>2 DEF JobType
  <2>3. RunsNow' = [RunsNow EXCEPT ![j].status = jobs'[j].status] /\ GrantNow' = GrantNow
    BY <2>1, StatusMoves, GrantStays
  <2>4. /\ RunsNow[j].status = jobs[j].status
        /\ RunsNow'[j] # RunsNow[j]
    <3>1. RunsNow[j].status = jobs[j].status /\ RunsNow'[j].status = jobs'[j].status
      BY DEF RunsNow, RunOf
    <3> QED BY <1>1, <2>2, <3>1
  <2>5. CASE jobs'[j].status = "completed"
    <3>1. jobs[j].status = "running"
      BY <2>1, <2>5 DEF ActiveJobs
    <3>2. Granted!Succeed(j)
      BY <2>3, <2>4, <2>5, <3>1 DEF Granted!Succeed, GrantNow, RunsNow, RunOf
    <3> QED BY <2>4, <3>2 DEF Granted!Next, Granted!Touched, RunsNow, RunOf
  <2>6. CASE jobs'[j].status = "failed"
    <3>1. Granted!Fail(j)
      BY <1>1, <2>3, <2>4, <2>6 DEF Granted!Fail, Granted!Open, GrantNow, RunsNow, RunOf
    <3> QED BY <2>4, <3>1 DEF Granted!Next, Granted!Touched, RunsNow, RunOf
  <2> QED BY <2>2, <2>5, <2>6
<1> QED BY <1>2, <1>3 DEF RunEnds

LEMMA BeginApproval ==
  ASSUME IInv, RecordsSound, NEW kind \in {"agent", "tool", "poc"},
         NEW finding \in Findings \cup {"none"}, NEW lane \in Lanes,
         NEW hosts \in SUBSET Hosts, NEW built \in Bindings,
         PrepareJob(kind, finding, lane, hosts, built)
  PROVE  Granted!Next
<1>1. PICK n \in Jobs : n = NewJob
  BY PrepareFacts
<1>2. /\ jobs[n].status = "none" /\ jobs'[n].status = "running" /\ jobs'[n].kind = kind
      /\ jobs'[n].finding = finding
      /\ \A j \in Jobs : j # n => jobs'[j] = jobs[j]
      /\ BoundToApproval'
  BY <1>1, PrepareFacts
<1>3. UNCHANGED <<scope, gen, plan>> /\ MayPrepare(kind, finding, lane, hosts, built)
  BY DEF PrepareJob
<1>4. jobs'[n].built = Binding(kind)
  BY <1>2, <1>3 DEF BoundToApproval, ActiveJobs, Binding
<1> DEFINE new == [status |-> "running", kind |-> kind, finding |-> finding,
                   under |-> Binding(kind)]
<1>5. RunOf(n)' = new /\ \A j \in Jobs : j # n => RunOf(j)' = RunOf(j)
  BY <1>2, <1>4 DEF RunOf
<1>6. RunsNow' = [RunsNow EXCEPT ![n] = new] /\ GrantNow' = GrantNow
  <2>1. RunsNow' = [j \in Jobs |-> RunOf(j)']
    BY DEF RunsNow
  <2> QED BY <1>3, <1>5, <2>1, GrantStays DEF RunsNow
<1>7. kind \in Approved
  BY <1>3 DEF MayPrepare, ReadyForChecks, ReadyForAction, Approved
<1>8. kind = "poc" =>
        ~\E j \in Jobs : /\ RunsNow[j].status # "none" /\ RunsNow[j].kind = "poc"
                         /\ RunsNow[j].under.plan = plan.ver /\ RunsNow[j].finding = finding
  BY <1>3 DEF MayPrepare, Attempted, Created, RecordsSound, RecordSound, RunsNow, RunOf
<1>9. RunsNow[n].status = "none" /\ RunsNow'[n] # RunsNow[n]
  <2>1. RunsNow[n].status = "none" /\ RunsNow'[n].status = "running"
    BY <1>2 DEF RunsNow, RunOf
  <2> QED BY <2>1
<1>10. Granted!Begin(n, kind, finding)
  BY <1>6, <1>7, <1>8, <1>9
  DEF Granted!Begin, Granted!Attempted, Granted!Under, GrantNow, RunsNow, RunOf, Binding
<1> QED BY <1>9, <1>10 DEF Granted!Next, Granted!Touched, Granted!Kinds, RunsNow, RunOf

LEMMA StepApproval ==
  ASSUME IInv, RecordsSound, Change
  PROVE  [Granted!Next]_(Granted!vars)
<1>1. CASE Unseen
  <2>1. \A j \in Jobs : RunOf(j)' = RunOf(j)
    BY <1>1 DEF Unseen, Kept, RunOf
  <2>2. RunsNow' = [j \in Jobs |-> RunOf(j)']
    BY DEF RunsNow
  <2>3. RunsNow' = RunsNow /\ GrantNow' = GrantNow
    BY <1>1, <2>1, <2>2, GrantStays DEF Unseen, RunsNow
  <2> QED BY <2>3 DEF Granted!vars, GrantNow, RunsNow, RunOf
<1>2. CASE Revokes
  <2>1. Granted!Revoke({})
    BY <1>2, RunsRevoked DEF Revokes
  <2>2. CASE GrantNow' # GrantNow
    BY <2>1, <2>2 DEF Granted!Next, GrantNow
  <2>3. CASE GrantNow' = GrantNow
    <3>1. gen' = gen /\ gen \in Nat
      BY <2>3 DEF GrantNow, IInv, TypeOK, CasesTypeOK
    <3>2. ActiveJobs = {}
      BY <1>2, <3>1 DEF Revokes
    <3>3. \A j \in Jobs : RunOf(j)' = RunOf(j)
      BY <1>2, <3>2 DEF Revokes, Revoked, Kept, RunOf
    <3>4. RunsNow' = [j \in Jobs |-> RunOf(j)']
      BY DEF RunsNow
    <3>5. RunsNow' = RunsNow
      BY <3>3, <3>4 DEF RunsNow
    <3> QED BY <2>3, <3>5 DEF Granted!vars, GrantNow, RunsNow, RunOf
  <2> QED BY <2>2, <2>3
<1>3. CASE \E j \in Jobs : RunEnds(j)
  BY <1>3, EndApproval
<1>4. CASE Prepares
  BY <1>4, BeginApproval DEF Prepares
<1> QED BY <1>1, <1>2, <1>3, <1>4 DEF Change

(* The daemon, with its campaign, its operators and its deaths, implements     *)
(* Approval: a revoked run never runs or succeeds again, a run begins under    *)
(* what is approved then, and each action of a plan is tried once.             *)
THEOREM DaemonImplementsApproval == Spec => ImplementsApproval
<1>1. Init => Granted!Init
  <2>1. ASSUME Init
        PROVE  Granted!Init
    <3>1. \A j \in Jobs : jobs[j].status = "none"
      BY <2>1 DEF Init, CasesInit, NoJob
    <3>2. Approved = {}
      BY <2>1 DEF Init, CasesInit, Approved, ApprovedAction, ApprovedScope
    <3> QED BY <3>1, <3>2 DEF Granted!Init
  <2> QED BY <2>1
<1>2. IInv /\ RecordsSound /\ [Next]_vars => [Granted!Next]_(Granted!vars)
  BY StepChange, StepApproval
<1> QED BY <1>1, <1>2, Records, PTL DEF Spec, ImplementsApproval, Granted!Spec
=============================================================================
