--------------------------- MODULE MCSecurityLab ----------------------------
(* An instance of SecurityLab for TLC.                                       *)
EXTENDS SecurityLab, TLC

MCSelections == {{"h2"}}
MCTaskHosts == [t \in Tasks |-> {"h1"}]

\* A plan for an earlier scope is never used again.
PlanStatus == IF plan.scope = scope.ver THEN plan.status ELSE "none"

\* The actions of the plan of now that were tried; findings have no meaning of
\* their own and only count by which jobs and requests are for the same one.
Tried == {j \in Created :
    jobs[j].kind = "poc" /\ jobs[j].bind.plan = plan.ver /\ PlanStatus # "none"}
TriedFor(finding) == {j \in Tried : jobs[j].finding = finding}

Unexplained(j) == OnHost(j) /\ ~(proc[j] = "loose" /\ jobs[j].status # "completed")

\* Generations and versions only count by whether they are those of now, and a
\* job that nobody answers for by what it leaves behind: an active one keeps
\* others out.
JobView(j) ==
    LET job == jobs[j]
        attempted == IF j \in Tried THEN TriedFor(job.finding) ELSE {}
        active == <<job.kind, job.lane, job.hosts, job.bind.gen = gen,
                    job.bind = Binding(job.kind), job.built = Binding(job.kind)>>
    IN  IF job.status = "none" THEN <<>>
        ELSE IF ~Owned(j)
        THEN <<job.over = "no", job.over \in {"closed", "refused"} /\ Unexplained(j), attempted,
               IF job.status = "running" THEN active ELSE <<>>,
               IF j \in lanes THEN <<job.lane, job.hosts>> ELSE <<>>,
               IF drv.at = "segment" /\ drv.job = j
               THEN <<Recorded(j), job.status = "completed">> ELSE <<>>>>
        ELSE <<attempted, job.status, active, job.over, mon[j], proc[j], j \in lanes>>

AdmView(c) ==
    IF adm[c].at = "resolving"
    THEN <<adm[c].kind, TriedFor(adm[c].finding), adm[c].lane, adm[c].host,
           adm[c].built = Binding(adm[c].kind)>>
    ELSE adm[c]

\* The bound of the third job: it is a second action of the plan of the second,
\* and after the second only a request for such a one waits.
Bound ==
    /\ Cardinality(Created) = 2 => \A c \in Callers :
         adm[c].at = "resolving" => adm[c].kind = "poc" /\ jobs[2].kind = "poc"
    /\ Cardinality(Created) = 3 =>
         jobs[2].kind = "poc" /\ jobs[3].kind = "poc" /\ jobs[3].bind = jobs[2].bind

View ==
    <<state, scope.status, PlanStatus,
      [j \in Jobs |-> JobView(j)], [c \in Callers |-> AdmView(c)],
      IF camp.status = "active" THEN <<camp.scope = scope.ver, camp.gen = gen>> ELSE <<>>,
      IF camp.status = "active" \/ drv # NoDriver THEN tasks ELSE <<>>,
      preparing, drv, stopping>>
=============================================================================
