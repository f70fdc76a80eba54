------------------------------ MODULE Approval -------------------------------
(* What the Security Lab promises of the runs of a case, whatever the          *)
(* operator, the campaign, the remote host and restarts do: a run begins only  *)
(* under the approval in force and ends with its own verdict; one that loses   *)
(* its approval never gets it back and is never a success.                     *)
EXTENDS Naturals

CONSTANTS Runs, Findings

VARIABLES
    grant,      \* versions of scope and action plan, the generation, and the
                \* kinds of runs that are approved
    run         \* status and kind of each run, the finding an action of a plan
                \* is to demonstrate, and what it was approved under

vars == <<grant, run>>

Kinds == {"agent", "tool", "poc"}

Under(kind) == [scope |-> grant.scope, gen |-> grant.gen,
                plan |-> IF kind = "poc" THEN grant.plan ELSE 0]

Open(r) == run[r].status \in {"running", "revoked"}

\* An action plan has one action for a finding, and at most one run of it ever
\* begins.
Attempted(finding) == \E r \in Runs :
    /\ run[r].status # "none" /\ run[r].kind = "poc"
    /\ run[r].under.plan = grant.plan /\ run[r].finding = finding

Init ==
    /\ grant.kinds = {}
    /\ \A r \in Runs : run[r].status = "none"

Begin(r, kind, finding) ==
    /\ run[r].status = "none" /\ kind \in grant.kinds
    /\ kind = "poc" => ~Attempted(finding)
    /\ run' = [run EXCEPT ![r] = [status |-> "running", kind |-> kind, finding |-> finding,
                                  under |-> Under(kind)]]
    /\ UNCHANGED grant

Fail(r) ==
    /\ Open(r)
    /\ run' = [run EXCEPT ![r].status = "failed"]
    /\ UNCHANGED grant

Succeed(r) ==
    /\ run[r].status = "running"
    /\ run' = [run EXCEPT ![r].status = "completed"]
    /\ UNCHANGED grant

\* Something is proposed, approved or stopped: what runs is revoked, but for
\* the runs that end with this very step; and if anything was open, no later
\* approval is the one it had.
Revoke(ended) ==
    /\ \A r \in ended : Open(r)
    /\ run' = [r \in Runs |->
         IF r \in ended THEN [run[r] EXCEPT !.status = "failed"]
         ELSE IF run[r].status = "running" THEN [run[r] EXCEPT !.status = "revoked"]
         ELSE run[r]]
    /\ grant'.scope >= grant.scope /\ grant'.gen >= grant.gen /\ grant'.plan >= grant.plan
    /\ grant'.kinds \subseteq Kinds
    /\ (\E r \in Runs : run[r].status = "running") \/ ended # {} => grant'.gen > grant.gen

\* The runs whose record a step changes.
Touched == {r \in Runs : run'[r] # run[r]}

Next ==
    \/ \E r \in Touched :
          \/ \E kind \in Kinds, finding \in Findings \cup {"none"} : Begin(r, kind, finding)
          \/ Fail(r) \/ Succeed(r)
    \/ grant' # grant /\ \E ended \in SUBSET Runs : Revoke(ended)

Spec == Init /\ [][Next]_vars
=============================================================================
