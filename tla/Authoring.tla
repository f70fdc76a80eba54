----------------------------- MODULE Authoring -----------------------------
(***************************************************************************)
(* How the next turn of one RP Party is written, to whoever acts while it  *)
(* is being written, without saying how: one author at a time prepares a   *)
(* prompt, hands it to the provider and commits the answer as the turn     *)
(* after the version that the prompt was assembled at, or stops.           *)
(* Narration.tla implements it with claims, retries, recoveries and stale  *)
(* coroutines; Corrections.tla, which has one narration with a prompt, is  *)
(* built on it.                                                            *)
(***************************************************************************)
EXTENDS Naturals

CONSTANTS
  Seeding    \* TRUE: turns may also be written without an author

VARIABLES
  version,   \* the turns of the Party are 1..version
  phase,     \* what the author is doing, "idle" for no author
  asked      \* the version its prompt was assembled at, 0 for no prompt

authoringVars == <<version, phase, asked>>

Init == version = 0 /\ phase = "idle" /\ asked = 0

Begin ==
  /\ phase = "idle"
  /\ phase' = "preparing"
  /\ UNCHANGED <<version, asked>>

Ask ==
  /\ phase = "preparing"
  /\ phase' = "calling"
  /\ asked' = version
  /\ UNCHANGED version

Commit ==
  /\ phase = "calling"
  /\ asked = version
  /\ version' = version + 1
  /\ phase' = "idle"
  /\ asked' = 0

(* The author has failed, or is not the author any more.                   *)
Stop == phase' = "idle" /\ asked' = 0 /\ UNCHANGED version

Seed == Seeding /\ version' = version + 1 /\ UNCHANGED <<phase, asked>>

Next == Begin \/ Ask \/ Commit \/ Stop \/ Seed

Spec == Init /\ [][Next]_authoringVars
=============================================================================
