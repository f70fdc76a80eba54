----------------------------- MODULE LoadControl -----------------------------
(* What traffic/job.py promises to the controllers of the NGFW lab: a load     *)
(* that is stopped before its job has settled on it does not outlive the       *)
(* job's second look, and a stop is answered only for a load that is over,     *)
(* silent for good, or about to be ended by its own job.                       *)
EXTENDS Naturals

CONSTANT Slots

VARIABLES
    phase,      \* "none", "asked", "begun" (the generator was started), "kept"
    sending,    \* loads whose generator runs
    doomed,     \* loads that somebody has asked to stop
    answered    \* stops that were answered, until the answer is read

vars == <<phase, sending, doomed, answered>>

Init ==
    /\ phase = [s \in Slots |-> "none"]
    /\ sending = {} /\ doomed = {} /\ answered = {}

\* A load is asked for under a fresh id: no old stop and no old answer is its.
Launch(s) ==
    /\ phase[s] = "none"
    /\ phase' = [phase EXCEPT ![s] = "asked"]
    /\ answered' = answered \ {s}
    /\ UNCHANGED <<sending, doomed>>

\* Its generator starts, at most once, and maybe after somebody stopped it.
Begin(s) ==
    /\ phase[s] = "asked"
    /\ phase' = [phase EXCEPT ![s] = "begun"]
    /\ sending' = sending \cup {s}
    /\ UNCHANGED <<doomed, answered>>

\* Nobody had stopped it: from now on a stop must end the generator itself.
Keep(s) ==
    /\ phase[s] = "begun" /\ s \notin doomed
    /\ phase' = [phase EXCEPT ![s] = "kept"]
    /\ UNCHANGED <<sending, doomed, answered>>

\* The generator ends or is killed.
Silence(s) ==
    /\ s \in sending
    /\ sending' = sending \ {s}
    /\ UNCHANGED <<phase, doomed, answered>>

Stop(s) ==
    /\ phase[s] # "none"
    /\ doomed' = doomed \cup {s}
    /\ UNCHANGED <<phase, sending, answered>>

\* The stop returns: a load that was kept is silent, and one that was not yet
\* will never be.
Answer(s) ==
    /\ answered' = answered \cup {s}
    /\ sending' \in {sending, sending \ {s}}
    /\ phase[s] \in {"asked", "begun"} => s \in doomed
    /\ phase[s] = "kept" => s \notin sending'
    /\ UNCHANGED <<phase, doomed>>

\* The job is over, and nothing of it is left.
End(s) ==
    /\ phase[s] # "none"
    /\ phase' = [phase EXCEPT ![s] = "none"]
    /\ sending' = sending \ {s} /\ doomed' = doomed \ {s}
    /\ UNCHANGED answered

\* The containers are replaced, and all jobs with them.
EndAll ==
    /\ phase' = [s \in Slots |-> "none"]
    /\ sending' = {} /\ doomed' = {}
    /\ UNCHANGED answered

\* Answers are read, or given up.
Forget ==
    /\ answered' \in SUBSET answered
    /\ UNCHANGED <<phase, sending, doomed>>

Next ==
    \/ Forget
    \/ \E s \in Slots :
          \/ Launch(s) \/ Begin(s) \/ Keep(s) \/ Silence(s)
          \/ Stop(s) \/ Answer(s) \/ End(s)
    \/ EndAll

Spec == Init /\ [][Next]_vars
=============================================================================
