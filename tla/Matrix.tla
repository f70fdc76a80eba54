------------------------------- MODULE Matrix -------------------------------
(* The traffic matrix (ngfw_lab runner.py): a ladder of scenarios, one load   *)
(* job each, watched by the guard.  A window that stops a kind skips the rest *)
(* of its ladder, a warning repeats the step once, a safety stop or an abort  *)
(* ends the run.  Warm-up and repetitions are the same step again and left    *)
(* out.                                                                       *)
EXTENDS LoadJobs

CONSTANT Ladder         \* the kinds of the scenarios, in order

VARIABLES
    mpc,        \* where the run is
    step,       \* the scenario
    attempt,    \* 1, or 2 after a warning
    job,        \* the slot of the current load, or "none"
    pend,       \* the outcome an interrupted window will have
    stopped,    \* stopped_kinds
    rows,       \* the status of every finished window
    mgap,       \* a gap "stop could not be confirmed" is in the report
    mdisk       \* the status in summary.json

matrixVars == <<mpc, step, attempt, job, pend, stopped, rows, mgap, mdisk>>

Kinds == {Ladder[i] : i \in DOMAIN Ladder}

ASSUME LadderAssumption == Ladder \in Seq(Kinds)

\* "STOP" is SCENARIO_STOP or INVALID: both stop the kind.
Statuses == {"PASS", "WARN", "STOP", "GLOBAL_STOP"}

MatrixTypeOK ==
    /\ mpc \in {"idle", "start", "step", "watch", "stop", "idling", "finish", "abort"}
    /\ step \in 1..Len(Ladder) + 1
    /\ attempt \in 1..2
    /\ job \in Slots \cup {"none"}
    /\ pend \in Statuses
    /\ stopped \subseteq Kinds
    /\ rows \subseteq [step : DOMAIN Ladder, attempt : 1..2, status : Statuses]
    /\ mgap \in BOOLEAN
    /\ mdisk \in {"none", "running", "completed", "aborted"}

MatrixInit ==
    /\ mpc = "idle" /\ step = 1 /\ attempt = 1 /\ job = "none" /\ pend = "PASS"
    /\ stopped = {} /\ rows = {} /\ mgap = FALSE /\ mdisk = "none"

\* A new report directory.
MatrixOpen ==
    /\ mpc' = "start" /\ step' = 1 /\ attempt' = 1 /\ job' = "none"
    /\ pend' = "PASS" /\ stopped' = {} /\ rows' = {} /\ mgap' = FALSE
    /\ mdisk' = "running"

Row(status) == [step |-> step, attempt |-> attempt, status |-> status]

\* The inventory and version read-backs.
MatrixStart ==
    /\ mpc = "start"
    /\ mpc' \in {"abort", "step"}
    /\ UNCHANGED <<step, attempt, job, pend, stopped, rows, mgap, mdisk, jobVars>>

StepSkipped ==
    /\ mpc = "step" /\ step <= Len(Ladder) /\ Ladder[step] \in stopped
    /\ step' = step + 1 /\ attempt' = 1
    /\ UNCHANGED <<mpc, job, pend, stopped, rows, mgap, mdisk, jobVars>>

\* How a window ends.  A stop stops the kind; GLOBAL_STOP and whatever is no
\* WindowStop leave run() altogether.
WindowEnds(status) ==
    /\ rows' = rows \cup {Row(status)}
    /\ mpc' = IF status = "GLOBAL_STOP" THEN "abort" ELSE "idling"
    /\ stopped' = IF status = "STOP" THEN stopped \cup {Ladder[step]} ELSE stopped
    /\ job' = "none" /\ pend' = status

StepLaunches ==
    /\ mpc = "step" /\ step <= Len(Ladder) /\ Ladder[step] \notin stopped
    /\ \/ /\ \E s \in Slots : Popen(s) /\ job' = s
          /\ mpc' = "watch"
          /\ UNCHANGED <<pend, stopped, rows>>
       \/ \* monitor() before the launch raised, or Popen did
          /\ \E status \in {"STOP", "GLOBAL_STOP"} : WindowEnds(status)
          /\ UNCHANGED jobVars
    /\ UNCHANGED <<step, attempt, mgap, mdisk>>

\* qualification.classify, and the comparison with the baseline.  An error is
\* a warning the first time only.
WindowFinishes ==
    /\ mpc = "watch" /\ local[job] = "zero"
    /\ \E status \in Statuses : (status = "WARN" => attempt = 1) /\ WindowEnds(status)
    /\ Forget(stopper)
    /\ UNCHANGED <<step, attempt, mgap, mdisk>>

\* The guard, the operator, the deadline, or a nonzero exit.
WindowBreaks ==
    /\ mpc = "watch"
    /\ \/ local[job] = "running" /\ pend' \in {"STOP", "GLOBAL_STOP"}
       \/ local[job] = "bad" /\ pend' = "GLOBAL_STOP"
    /\ mpc' = "stop"
    /\ stopper' = [stopper EXCEPT ![job] = "called"]
    /\ UNCHANGED <<step, attempt, job, stopped, rows, mgap, mdisk,
                   endpoints, local, run, child, cancel>>

\* The remote stop returned, or could not be confirmed and the run goes on;
\* the local client is terminated either way.
BrokenStops ==
    /\ mpc = "stop"
    /\ \/ stopper[job] = "done" /\ Forget(stopper) /\ UNCHANGED mgap
       \/ /\ stopper[job] \in {"called", "touched", "lost"}
          /\ mgap' = TRUE
          /\ \E stops \in {stopper, [stopper EXCEPT ![job] = "lost"]} : Forget(stops)
    /\ WindowEnds(pend)
    /\ UNCHANGED <<step, attempt, mdisk>>

\* The idle pause and the fresh healthy sample; only a warning repeats.
Idles ==
    /\ mpc = "idling"
    /\ \/ /\ mpc' = "step"
          /\ IF pend = "WARN" /\ attempt = 1
             THEN attempt' = 2 /\ UNCHANGED step
             ELSE attempt' = 1 /\ step' = step + 1
       \/ mpc' = "abort" /\ UNCHANGED <<step, attempt>>
    /\ UNCHANGED <<job, pend, stopped, rows, mgap, mdisk, jobVars>>

LadderEnds ==
    /\ mpc = "step" /\ step > Len(Ladder)
    /\ mpc' \in {"finish", "abort"}
    /\ UNCHANGED <<step, attempt, job, pend, stopped, rows, mgap, mdisk, jobVars>>

\* The process is over, and its variables with it; its report stays.
MatrixOver ==
    /\ mpc' = "idle" /\ step' = 1 /\ attempt' = 1 /\ job' = "none"
    /\ pend' = "PASS" /\ stopped' = {} /\ rows' = {}

\* The final inventory may still turn a completed run into an aborted one.
MatrixClose ==
    /\ mpc \in {"finish", "abort"}
    /\ mdisk' \in (IF mpc = "finish" THEN {"completed", "aborted"} ELSE {"aborted"})
    /\ MatrixOver
    /\ UNCHANGED <<mgap, jobVars>>

MatrixStep ==
    \/ MatrixStart \/ StepSkipped \/ StepLaunches \/ WindowFinishes \/ WindowBreaks
    \/ BrokenStops \/ Idles \/ LadderEnds
=============================================================================
