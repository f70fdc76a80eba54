------------------------------ MODULE TurnLog ------------------------------
(***************************************************************************)
(* What the RP gateway promises about the committed history of one Party,  *)
(* without saying how: a sequence of turns that only grows at its end, in  *)
(* which an idempotency key and a request identifier each occur at most    *)
(* once, and replies that only ever quote turns of the sequence.           *)
(* Narration.tla implements it with claims, retries and recoveries.        *)
(***************************************************************************)
EXTENDS Naturals, Sequences

CONSTANTS
  Entry      \* what a turn is made of: records [key, input]

VARIABLES
  log,       \* the turns of rp_turns, the n-th being that of version n
  answered   \* set of [key, input, ver]: the success replies given

logVars == <<log, answered>>

Fresh(entry) ==
  \A n \in 1..Len(log) : /\ log[n].key # entry.key
                         /\ log[n].input.rid # entry.input.rid

Reply(entry, n) == [key |-> entry.key, input |-> entry.input, ver |-> n]

Init == log = <<>> /\ answered = {}

(* The history grows by one turn, of the version its client expected; that *)
(* client may be answered in the same step.                                *)
Extend ==
  \E entry \in Entry :
    /\ Fresh(entry)
    /\ entry.input.expected = Len(log)
    /\ log' = Append(log, entry)
    /\ answered' \in {answered, answered \union {Reply(entry, Len(log) + 1)}}

(* A retry is answered with the turn that is already there.                *)
Replay ==
  \E n \in 1..Len(log) :
    /\ answered' = answered \union {Reply(log[n], n)}
    /\ UNCHANGED log

Next == Extend \/ Replay

Spec == Init /\ [][Next]_logVars
=============================================================================
