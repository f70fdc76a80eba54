----------------------------- MODULE Endpoints ------------------------------
(* The endpoint switch and the direct-path capacity run (control_capacity.py).*)
(* A capacity receipt is made in four invocations: capture the device path,   *)
(* switch the endpoints to the direct network and measure, switch them back,  *)
(* finalize.  Each of them takes the lab's lock and trusts what the others    *)
(* left on disk: endpoint-switch.json, the anchor, receipt.json.              *)
EXTENDS Executor

CONSTANT Configs        \* endpoint configurations an operator may install

VARIABLES
    cpc,        \* where the invocation is
    candidate,  \* the mode of the Compose file being installed, or "none"
    config,     \* the configuration the endpoints run
    switch,     \* endpoint-switch.json
    managed,    \* the .extreme-managed marker
    anchor,     \* the configuration in the captured anchor, or "none"
    isolation,  \* the negative isolation evidence, and the topology it names
    restarted,  \* an endpoint restarted since the capacity run looked
    capacity,   \* receipt.json of the capacity run, and what it was run on
    final       \* control-capacity.json: the configuration it vouches for

switchVars == <<config, switch, managed>>
capVars == <<anchor, isolation, restarted, capacity, final>>
endpointVars == <<cpc, candidate, switchVars, capVars>>

NoRun == [status |-> "NONE", on |-> "none"]
NoEvidence == [age |-> "none", on |-> "none"]

EndpointsTypeOK ==
    /\ cpc \in {"idle", "record", "promote", "verify", "failed",
                "inspect", "load", "pause", "judge"}
    /\ candidate \in {"legacy", "ngfw", "direct", "none"}
    /\ config \in Configs
    /\ switch \in [status : {"IN_PROGRESS", "INSTALLED", "FAILED"}, mode : Modes \cup {"none"}]
    /\ managed \in BOOLEAN
    /\ anchor \in Configs \cup {"none"}
    /\ isolation \in [age : {"none", "old", "fresh"}, on : Configs \cup {"none"}]
    /\ restarted \in BOOLEAN
    /\ capacity \in [status : {"NONE", "MEASURED_PENDING_DUT_RETURN", "OTHER"},
                     on : Configs \cup {"none"}]
    /\ final \in Configs \cup {"none"}

EndpointsInit ==
    /\ cpc = "idle" /\ candidate = "none"
    /\ config \in Configs
    /\ switch = [status |-> "INSTALLED", mode |-> endpoints]
    /\ managed = (endpoints # "legacy")
    /\ anchor = "none" /\ isolation = NoEvidence /\ restarted = FALSE
    /\ capacity = NoRun /\ final = "none"

-----------------------------------------------------------------------------
(* install-endpoints                                                         *)

\* The ordinary role may not downgrade a lab the extreme tools manage.
LegacyRefused ==
    managed \/ switch.mode \in {"direct", "ngfw"}

\* Any other install marks the lab as managed, before it has looked at what it
\* is to install; the record of the last switch is not touched yet.
InstallBegins(mode) ==
    /\ mode = "legacy" => ~LegacyRefused
    /\ managed' = (managed \/ mode # "legacy")
    /\ cpc' = "record" /\ candidate' = mode
    /\ UNCHANGED <<config, switch, capVars, jobVars, execVars>>

\* mutant: only the end of a transition is recorded
InstallRecordsLate ==
    /\ cpc = "record"
    /\ \/ cpc' = "promote" /\ UNCHANGED candidate
       \/ cpc' = "idle" /\ candidate' = "none"
    /\ UNCHANGED <<config, switch, managed, capVars, jobVars, execVars>>

\* The transition is on record before the endpoints change.  A candidate that
\* cannot be read ends the install outside its error handling: the old record
\* stays, beside the new mark.
InstallRecords ==
    /\ cpc = "record"
    /\ \/ /\ switch' = [status |-> "IN_PROGRESS", mode |-> "none"]
          /\ cpc' = "promote" /\ UNCHANGED candidate
       \/ cpc' = "idle" /\ candidate' = "none" /\ UNCHANGED switch
    /\ UNCHANGED <<config, managed, capVars, jobVars, execVars>>

\* Copy, build, replace compose.yml, and "up --force-recreate": what fails
\* leaves the endpoints of before, or neither of them running.
InstallPromotes ==
    /\ cpc = "promote"
    /\ \/ Recreate(candidate) /\ config' \in Configs /\ cpc' = "verify"
       \/ cpc' = "failed" /\ UNCHANGED <<config, jobVars>>
       \/ cpc' = "failed" /\ Recreate("broken") /\ UNCHANGED config
    /\ UNCHANGED <<candidate, switch, managed, capVars, execVars>>

\* Image identity, inspection and receiver health of what runs now.
InstallVerifies ==
    /\ cpc = "verify"
    /\ \/ /\ switch' = [status |-> "INSTALLED", mode |-> candidate]
          /\ cpc' = "idle" /\ candidate' = "none"
       \/ cpc' = "failed" /\ UNCHANGED <<switch, candidate>>
    /\ UNCHANGED <<config, managed, capVars, jobVars, execVars>>

\* The exception is recorded as a failed transition.
InstallFails ==
    /\ cpc = "failed"
    /\ switch' = [switch EXCEPT !.status = "FAILED"]
    /\ cpc' = "idle" /\ candidate' = "none"
    /\ UNCHANGED <<config, managed, capVars, jobVars, execVars>>

-----------------------------------------------------------------------------
(* capture-dut, run, finalize                                                *)

SwitchedTo(mode) == switch = [status |-> "INSTALLED", mode |-> mode]

\* The read-back of two endpoints on two networks; it names their topology.
Topology == endpoints \in {"legacy", "ngfw"}

\* validate_isolation: evidence there is, and of the topology that runs now.
Isolated == Topology /\ isolation.age # "none" /\ isolation.on = config

\* runner.py check-isolation, with the appliance powered off by the operator.
CheckIsolation ==
    /\ Topology
    /\ isolation' = [age |-> "fresh", on |-> config]
    /\ UNCHANGED <<cpc, candidate, switchVars, anchor, restarted, capacity, final, jobVars, execVars>>

CaptureAnchor ==
    /\ SwitchedTo("ngfw") /\ endpoints = "ngfw" /\ Isolated
    /\ anchor' = config
    /\ UNCHANGED <<cpc, candidate, switchVars, isolation, restarted, capacity, final, jobVars, execVars>>

CapacityBegins ==
    /\ SwitchedTo("direct") /\ anchor # "none"
    /\ cpc' = "inspect"
    /\ UNCHANGED <<candidate, switchVars, capVars>>

\* The receipt, written once, whatever happened; evidence of isolation taken
\* before this moment is no evidence about the time after the run.  The other
\* statuses (BLOCKED, SAFETY_STOP, CAPACITY_NOT_PROVEN, and INVALID_MEASUREMENT
\* for a receiver log that cannot be had) are refused by finalize alike.
CapacityEnds(measured) ==
    /\ \E logs \in BOOLEAN :
          capacity' = [status |-> IF measured /\ logs THEN "MEASURED_PENDING_DUT_RETURN"
                                  ELSE "OTHER",
                       on |-> config]
    /\ isolation' = [isolation EXCEPT !.age = IF @ = "fresh" THEN "old" ELSE @]
    /\ cpc' = "idle"
    /\ UNCHANGED <<candidate, switchVars, anchor, restarted, final>>

\* The direct endpoints must be configured as the anchor was.
CapacityInspects ==
    /\ cpc = "inspect"
    /\ \/ /\ endpoints = "direct" /\ config = anchor
          /\ restarted' = FALSE
          /\ \E n \in 1..Width : Execute(n)
          /\ cpc' = "load"
          /\ UNCHANGED <<candidate, switchVars, anchor, isolation, capacity, final>>
       \/ CapacityEnds(FALSE) /\ UNCHANGED <<jobVars, execVars>>

\* Any gap means the remote load may still run.
CapacityLoaded ==
    /\ cpc = "load" /\ xpc = "back"
    /\ Collected
    /\ IF xerr = "none" /\ ~unconf
       THEN cpc' = "pause" /\ UNCHANGED <<candidate, switchVars, capVars>>
       ELSE CapacityEnds(FALSE)

CapacityRecovers ==
    /\ cpc = "pause"
    /\ \/ cpc' = "judge" /\ UNCHANGED <<candidate, switchVars, capVars>>
       \/ CapacityEnds(FALSE)
    /\ UNCHANGED <<jobVars, execVars>>

\* Containers, networks and configuration as before; measured results and
\* sampled resources decide whether the capacity is measured.
CapacityJudges ==
    /\ cpc = "judge"
    /\ \E measured \in BOOLEAN : (measured => ~restarted) /\ CapacityEnds(measured)
    /\ UNCHANGED <<jobVars, execVars>>

\* Docker restarts an endpoint.
EndpointRestarts ==
    /\ cpc \in {"load", "pause", "judge"} /\ ~restarted
    /\ Recreate(endpoints)
    /\ restarted' = TRUE
    /\ UNCHANGED <<cpc, candidate, switchVars, anchor, isolation, capacity, final, execVars>>

Finalize ==
    /\ SwitchedTo("ngfw")
    /\ capacity.status = "MEASURED_PENDING_DUT_RETURN"
    /\ config = capacity.on /\ endpoints = "ngfw"
    /\ Isolated /\ isolation.age = "fresh"
    /\ final' = config
    /\ UNCHANGED <<cpc, candidate, switchVars, anchor, isolation, restarted, capacity, jobVars, execVars>>

EndpointStep ==
    \/ InstallRecords \/ InstallPromotes \/ InstallVerifies \/ InstallFails
    \/ CapacityInspects \/ CapacityLoaded \/ CapacityRecovers \/ CapacityJudges
=============================================================================
