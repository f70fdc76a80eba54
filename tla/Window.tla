------------------------------- MODULE Window -------------------------------
(* One extreme measurement window (extreme/controller.py execute_window): the *)
(* read-backs that must hold before any load, the baseline sample, the load   *)
(* itself, the recovery that must be seen, and the read-backs after it.  The  *)
(* receipt on disk says INVALID_MEASUREMENT until the window has closed.      *)
EXTENDS Executor

VARIABLES
    wpc,        \* where execute_window is
    wout,       \* report['outcome']
    wrec,       \* report['recovery']
    wbase,      \* the baseline sample has been taken
    wbefore,    \* the guest inventory has been read before the load
    streak,     \* consecutive normalised samples
    wdisk       \* the outcome in receipt.json

windowVars == <<wpc, wout, wrec, wbase, wbefore, streak, wdisk>>

Outcomes == {"INVALID_MEASUREMENT", "COMPLETED", "SAFETY_STOP"}

WindowTypeOK ==
    /\ wpc \in {"idle", "preflight", "baseline", "measure", "proof",
                "recover", "normalize", "after", "close"}
    /\ wout \in Outcomes
    /\ wrec \in {"none", "RECOVERED", "SAFETY_STOP"}
    /\ wbase \in BOOLEAN /\ wbefore \in BOOLEAN
    /\ streak \in 0..2
    /\ wdisk \in Outcomes \cup {"none"}

WindowInit ==
    /\ wpc = "idle" /\ wout = "INVALID_MEASUREMENT" /\ wrec = "none"
    /\ wbase = FALSE /\ wbefore = FALSE /\ streak = 0 /\ wdisk = "none"

\* A run id is a new directory: its receipt is written before anything else.
WindowOpen ==
    /\ wpc' = "preflight" /\ wout' = "INVALID_MEASUREMENT" /\ wrec' = "none"
    /\ wbase' = FALSE /\ wbefore' = FALSE /\ streak' = 0
    /\ wdisk' = "INVALID_MEASUREMENT"

\* An exception: recovery is owed as soon as there is a baseline.
WindowFails(err) ==
    /\ wout' = IF err = "abort" THEN "SAFETY_STOP" ELSE "INVALID_MEASUREMENT"
    /\ wpc' = IF wbase THEN "recover" ELSE "after"
    /\ UNCHANGED <<wrec, wbase, wbefore, streak, wdisk>>

\* Campaign receipts, topology, isolation, inventory, audit-loss epoch,
\* identity and native health.  The guest inventory is read once the topology
\* and the isolation evidence have been accepted.
WindowPreflight(isolated) ==
    /\ wpc = "preflight"
    /\ \/ /\ isolated
          /\ wpc' = "baseline" /\ wbefore' = TRUE
          /\ UNCHANGED <<wout, wrec, wbase, streak, wdisk>>
       \/ /\ wbefore' \in (IF isolated THEN BOOLEAN ELSE {FALSE})
          /\ \E e \in Errors :
                wout' = IF e = "abort" THEN "SAFETY_STOP" ELSE "INVALID_MEASUREMENT"
          /\ wpc' = "after"
          /\ UNCHANGED <<wrec, wbase, streak, wdisk>>
    /\ UNCHANGED <<jobVars, execVars>>

\* The first monitor() is the baseline of the recovery.  The stabilisation
\* before the measurement is the same call once more, and left out.
WindowBaseline ==
    /\ wpc = "baseline"
    /\ \/ /\ wbase' = TRUE
          /\ \E n \in 1..Width : Execute(n)
          /\ wpc' = "measure"
          /\ UNCHANGED <<wout, wrec, wbefore, streak, wdisk>>
       \/ \E e \in Errors : WindowFails(e) /\ UNCHANGED <<jobVars, execVars>>

\* execute_components came back, or its opening monitor() raised.
WindowLoaded ==
    /\ wpc = "measure" /\ xpc = "back"
    /\ Collected
    /\ IF xerr = "none"
       THEN wpc' = "proof" /\ UNCHANGED <<wout, wrec, wbase, wbefore, streak, wdisk>>
       ELSE WindowFails(xerr)

\* Held-receiver and mixed-timing evidence of a load that ended well.
WindowProof ==
    /\ wpc = "proof"
    /\ \/ /\ wout' = "COMPLETED" /\ wpc' = "recover"
          /\ UNCHANGED <<wrec, wbase, wbefore, streak, wdisk>>
       \/ WindowFails("blocked")
    /\ UNCHANGED <<jobVars, execVars>>

RecoveryFails ==
    /\ wout' = "SAFETY_STOP" /\ wrec' = "SAFETY_STOP" /\ wpc' = "after"
    /\ UNCHANGED <<wbase, wbefore, streak, wdisk>>

\* mutant: a load whose stop was not confirmed may recover as any other
WindowRecoverAnyway ==
    /\ wpc = "recover"
    /\ \/ wpc' = "normalize" /\ streak' = 0
          /\ UNCHANGED <<wout, wrec, wbase, wbefore, wdisk>>
       \/ RecoveryFails
    /\ UNCHANGED <<jobVars, execVars>>

\* No recovery is declared over a load whose stop is unconfirmed; else the
\* pause, monitored, and then samples until two in a row are normal.
WindowRecover ==
    /\ wpc = "recover"
    /\ \/ /\ ~unconf
          /\ wpc' = "normalize" /\ streak' = 0
          /\ UNCHANGED <<wout, wrec, wbase, wbefore, wdisk>>
       \/ RecoveryFails
    /\ UNCHANGED <<jobVars, execVars>>

\* mutant: the second normal sample is not noticed
WindowNormalizeOn ==
    /\ wpc = "normalize"
    /\ \E next \in {0, streak + 1} : streak' = next
    /\ UNCHANGED <<wpc, wout, wrec, wbase, wbefore, wdisk, jobVars, execVars>>

WindowNormalize ==
    /\ wpc = "normalize"
    /\ \/ /\ streak' = streak + 1
          /\ IF streak' = 2
             THEN wrec' = "RECOVERED" /\ wpc' = "after"
             ELSE UNCHANGED <<wrec, wpc>>
          /\ UNCHANGED <<wout, wbase, wbefore, wdisk>>
       \/ /\ streak' = 0
          /\ UNCHANGED <<wpc, wout, wrec, wbase, wbefore, wdisk>>
    /\ UNCHANGED <<jobVars, execVars>>

\* The deadline of the normalisation, or a monitor() that raises.
NormalizeFails ==
    /\ wpc = "normalize" /\ RecoveryFails
    /\ UNCHANGED <<jobVars, execVars>>

\* The read-backs after the window: unchanged, a new audit loss, any other
\* change, or not to be had.  Only a safety stop survives a bad one.
WindowAfter ==
    /\ wpc = "after"
    /\ \E seen \in {"same", "loss", "changed", "unavailable"} :
        /\ ~wbefore => seen = "unavailable"
        /\ seen = "same" => endpoints \in {"legacy", "ngfw"}
        /\ wout' = CASE seen = "same" -> wout
                     [] seen = "loss" -> "SAFETY_STOP"
                     [] OTHER -> IF wout = "SAFETY_STOP" THEN wout
                                 ELSE "INVALID_MEASUREMENT"
    /\ wpc' = "close"
    /\ UNCHANGED <<wrec, wbase, wbefore, streak, wdisk, jobVars, execVars>>

\* The process is over, and its variables with it.
WindowOver ==
    /\ wpc' = "idle" /\ wout' = "INVALID_MEASUREMENT" /\ wrec' = "none"
    /\ wbase' = FALSE /\ wbefore' = FALSE /\ streak' = 0

\* The final receipt.
WindowClose ==
    /\ wpc = "close"
    /\ wdisk' = wout
    /\ WindowOver
    /\ UNCHANGED <<jobVars, execVars>>

WindowStep ==
    \/ WindowBaseline \/ WindowLoaded \/ WindowProof \/ WindowRecover
    \/ WindowNormalize \/ NormalizeFails \/ WindowAfter
=============================================================================
