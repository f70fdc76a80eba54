---------------------------- MODULE Corrections ----------------------------
(***************************************************************************)
(* Explicit player corrections of one RP Party: a correction is drafted    *)
(* against a catalog of targets, becomes a proposal when its service job   *)
(* succeeds, is accepted or rejected by the player, and once accepted is   *)
(* an immutable overlay for the narrator prompt of the next turn           *)
(* (main.py draft_correction and decide_correction, RPTurnEngine           *)
(* decide_player_correction, RPNarrator and RPPromptBuilder).              *)
(*                                                                         *)
(* decide_correction is a plain def: it runs in a worker thread of the     *)
(* server and reads the catalog before its transaction starts, while the   *)
(* event loop commits turns, appends story memory and reads the provider.  *)
(*                                                                         *)
(* Abstractions.  Turns and memory snapshots are only ever appended and    *)
(* the World rules of a Party never change, so a catalog is named by the   *)
(* version and the memory revision it was read at, and two catalogs have   *)
(* one hash when these agree; the target of a draft is one of its catalog, *)
(* so it is found unchanged under an equal hash.  One narration is in      *)
(* flight at a time (module Narration).                                    *)
(*                                                                         *)
(* A definition marked "mutant" is a wrong variant of the definition after *)
(* it that bears its purpose; the specification uses none of them.  Put in *)
(* its place it makes one property fail, which shows that the property can.*)
(***************************************************************************)
EXTENDS Naturals, FiniteSets

CONSTANTS
  Corrections,   \* idempotency keys of drafts, each naming one correction
  Deciders,      \* worker threads that serve decision requests
  Keys,          \* idempotency keys of decisions
  None,          \* no correction, no decision request, not read yet
  Oversize,      \* corrections whose overlay exceeds limits.correction_chars
  MaxVersion     \* bound on the turns of the Party, for TLC

ASSUME NoneAssumption == None \notin Corrections /\ None \notin Nat
ASSUME OversizeAssumption == Oversize \subseteq Corrections
ASSUME VersionAssumption == MaxVersion \in Nat

VARIABLES
  version,    \* rp_parties.current_version
  memory,     \* revision of the latest rp_story_memory snapshot
  status,     \* of each correction: its service job, then its proposal
  base,       \* base_party_version
  catalog,    \* what catalog_hash names: [ver, mem]
  decidedBy,  \* decision_idempotency_key
  overlays,   \* rp_player_correction_overlays
  reads,      \* what each worker thread has read for a decision request
  narr,       \* the narration in flight
  prompt,     \* the overlay in its prompt
  used,       \* history: the overlay in the prompt of each committed turn
  replies     \* history: [corr, decision, key] of every success reply

proposalVars == <<status, base, catalog, decidedBy>>
narrationVars == <<narr, prompt, used>>
vars == <<version, memory, proposalVars, overlays, reads, narrationVars, replies>>

Decisions == {"accept", "reject"}
Statuses == {"absent", "queued", "none", "pending", "accepted", "rejected", "stale"}
Catalog == [ver : Nat, mem : Nat]
Read == [ver : Nat, mem : Nat \union {None}] \union {None}
(* late: the provider already had the prompt of that turn when the overlay *)
(* was accepted (history).                                                 *)
Overlay == [corr : Corrections, revision : Nat, applies : Nat, late : BOOLEAN]

Init ==
  /\ version = 0
  /\ memory = 0
  /\ status = [c \in Corrections |-> "absent"]
  /\ base = [c \in Corrections |-> 0]
  /\ catalog = [c \in Corrections |-> [ver |-> 0, mem |-> 0]]
  /\ decidedBy = [c \in Corrections |-> None]
  /\ overlays = {}
  /\ reads = [d \in Deciders |-> None]
  /\ narr = "idle"
  /\ prompt = None
  /\ used = [v \in 1..MaxVersion |-> None]
  /\ replies = {}
-----------------------------------------------------------------------------
(* draft_correction: catalog and job in one stretch of the event loop,     *)
(* which is also where turns and memory are written.  The Party needs a    *)
(* committed turn.                                                         *)
Draft(c) ==
  /\ status[c] = "absent"
  /\ version > 0
  /\ status' = [status EXCEPT ![c] = "queued"]
  /\ base' = [base EXCEPT ![c] = version]
  /\ catalog' = [catalog EXCEPT ![c] = [ver |-> version, mem |-> memory]]
  /\ UNCHANGED <<version, memory, decidedBy, overlays, reads, narrationVars, replies>>

(* persist_player_correction_result for a draft, or the end of the job     *)
(* without one: no_target, rejected output, attempts exhausted.            *)
Propose(c) ==
  /\ status[c] = "queued"
  /\ \E s \in {"pending", "none"} : status' = [status EXCEPT ![c] = s]
  /\ UNCHANGED <<version, memory, base, catalog, decidedBy, overlays, reads,
                 narrationVars, replies>>
-----------------------------------------------------------------------------
(* decide_correction reads the turns, then the memory, each through a      *)
(* connection of its own.  Nothing depends on the rest of the request      *)
(* before its transaction, so it is chosen there.                          *)
ReadTurns(d) ==
  /\ reads[d] = None
  /\ reads' = [reads EXCEPT ![d] = [ver |-> version, mem |-> None]]
  /\ UNCHANGED <<version, memory, proposalVars, overlays, narrationVars, replies>>

ReadMemory(d) ==
  /\ reads[d] # None
  /\ reads[d].mem = None
  /\ reads' = [reads EXCEPT ![d].mem = memory]
  /\ UNCHANGED <<version, memory, proposalVars, overlays, narrationVars, replies>>

(* decide_player_correction, one transaction.  A client sends the version  *)
(* its draft was made at, or the one it sees now.                          *)
Requests == UNION {[corr : {c}, decision : Decisions,
                    expected : {base[c], version}, key : Keys] : c \in Corrections}
Recorded(decision) == IF decision = "accept" THEN "accepted" ELSE "rejected"
Replays(q) ==
  /\ decidedBy[q.corr] = q.key
  /\ status[q.corr] = Recorded(q.decision)
  /\ q.expected = base[q.corr]
StaleIfCatalogMoved(q, seen) ==                                          \* mutant
  q.expected # base[q.corr] \/ seen # catalog[q.corr]
Stale(q, seen) ==
  \/ version # q.expected
  \/ q.expected # base[q.corr]
  \/ seen # catalog[q.corr]
NextPromptFree(q) == FALSE                                               \* mutant
NextPromptOwned(q) == \E o \in overlays : o.applies = q.expected + 1
KeyUnspent(q) == FALSE                                                   \* mutant
KeySpent(q) == \E c \in Corrections \ {q.corr} : decidedBy[c] = q.key

Record(q, s) ==
  /\ status' = [status EXCEPT ![q.corr] = s]
  /\ decidedBy' = [decidedBy EXCEPT ![q.corr] = q.key]
  /\ UNCHANGED <<base, catalog>>
Answer(q) ==
  replies' = replies \union {[corr |-> q.corr, decision |-> q.decision, key |-> q.key]}

DecideAgain(q) ==
  /\ status[q.corr] \in {"accepted", "rejected", "stale"}
  /\ IF Replays(q) THEN Answer(q) ELSE UNCHANGED replies
  /\ UNCHANGED <<proposalVars, overlays>>

DecideStale(q, seen) ==
  /\ status[q.corr] = "pending" /\ ~KeySpent(q)
  /\ Stale(q, seen)
  /\ Record(q, "stale")
  /\ UNCHANGED <<overlays, replies>>

Reject(q, seen) ==
  /\ status[q.corr] = "pending" /\ ~KeySpent(q) /\ ~Stale(q, seen)
  /\ q.decision = "reject"
  /\ Record(q, "rejected")
  /\ Answer(q)
  /\ UNCHANGED overlays

(* The key has decided another correction, which violates a unique index   *)
(* and rolls the transaction back, or another correction has the next      *)
(* prompt: an error, nothing changes.                                      *)
Refuse(q, seen) ==
  /\ status[q.corr] = "pending"
  /\ \/ KeySpent(q)
     \/ ~Stale(q, seen) /\ q.decision = "accept" /\ NextPromptOwned(q)
  /\ UNCHANGED <<proposalVars, overlays, replies>>

Accept(q, seen) ==
  /\ status[q.corr] = "pending" /\ ~KeySpent(q) /\ ~Stale(q, seen)
  /\ q.decision = "accept" /\ ~NextPromptOwned(q)
  /\ overlays' = overlays \union
       {[corr |-> q.corr, revision |-> Cardinality(overlays) + 1,
         applies |-> q.expected + 1, late |-> narr = "calling"]}
  /\ Record(q, "accepted")
  /\ Answer(q)

Decide(d) ==
  /\ reads[d] # None
  /\ reads[d].mem # None
  /\ \E q \in Requests : \/ DecideAgain(q)
                         \/ DecideStale(q, reads[d])
                         \/ Reject(q, reads[d])
                         \/ Refuse(q, reads[d])
                         \/ Accept(q, reads[d])
  /\ reads' = [reads EXCEPT ![d] = None]
  /\ UNCHANGED <<version, memory, narrationVars>>
-----------------------------------------------------------------------------
(* narrate_turn with its claim; an opening is the narration of version 1.  *)
BeginNarration ==
  /\ narr = "idle"
  /\ version < MaxVersion
  /\ narr' = "preparing"
  /\ UNCHANGED <<version, memory, proposalVars, overlays, reads, prompt, used, replies>>

OverlayOfLastTurn == {o \in overlays : o.applies = version}               \* mutant
OverlayKept == {o \in overlays : o.applies \in {version, version + 1}}    \* mutant

(* derived_context and build_turn: the overlay for the next version goes   *)
(* into the prompt, or the prompt is refused because it is too long.       *)
NextOverlay == {o \in overlays : o.applies = version + 1}
Fits == \A o \in NextOverlay : o.corr \notin Oversize

Assemble ==
  /\ narr = "preparing"
  /\ Fits
  /\ prompt' = IF NextOverlay = {} THEN None ELSE (CHOOSE o \in NextOverlay : TRUE).corr
  /\ narr' = "calling"
  /\ UNCHANGED <<version, memory, proposalVars, overlays, reads, used, replies>>

PromptTooLong ==
  /\ narr = "preparing"
  /\ ~Fits
  /\ narr' = "idle"
  /\ UNCHANGED <<version, memory, proposalVars, overlays, reads, prompt, used, replies>>

(* complete_narration with the provider's answer.                          *)
Commit ==
  /\ narr = "calling"
  /\ version' = version + 1
  /\ used' = [used EXCEPT ![version + 1] = prompt]
  /\ narr' = "idle"
  /\ prompt' = None
  /\ UNCHANGED <<memory, proposalVars, overlays, reads, replies>>

GiveUpKeepsClaim ==                                                      \* mutant
  /\ narr # "idle"
  /\ narr' = "given up"
  /\ UNCHANGED <<version, memory, proposalVars, overlays, reads, prompt, used, replies>>

(* The provider fails or the coroutine is cancelled; the message may be    *)
(* sent again.                                                             *)
GiveUp ==
  /\ narr # "idle"
  /\ narr' = "idle"
  /\ prompt' = None
  /\ UNCHANGED <<version, memory, proposalVars, overlays, reads, used, replies>>

AppendMemoryTwice ==                                                     \* mutant
  /\ memory' = memory + 1
  /\ UNCHANGED <<version, proposalVars, overlays, reads, narrationVars, replies>>

(* The story_memory job of a committed turn appends a snapshot.            *)
AppendMemory ==
  /\ memory < version
  /\ memory' = memory + 1
  /\ UNCHANGED <<version, proposalVars, overlays, reads, narrationVars, replies>>

(* The process dies and is started again: requests and narration are gone. *)
Restart ==
  /\ reads' = [d \in Deciders |-> None]
  /\ narr' = "idle"
  /\ prompt' = None
  /\ UNCHANGED <<version, memory, proposalVars, overlays, used, replies>>

Next ==
  \/ \E c \in Corrections : Draft(c) \/ Propose(c)
  \/ \E d \in Deciders : ReadTurns(d) \/ ReadMemory(d) \/ Decide(d)
  \/ BeginNarration
  \/ Assemble
  \/ PromptTooLong
  \/ Commit
  \/ GiveUp
  \/ AppendMemory
  \/ Restart

Spec == Init /\ [][Next]_vars

(* A narration that is tried again and again gets its prompt built and,    *)
(* sooner or later, an answer: the failures that interrupt it are          *)
(* transient.  Nothing obliges the player to try.                          *)
Fairness == SF_vars(Assemble) /\ SF_vars(PromptTooLong) /\ SF_vars(Commit)
FairSpec == Spec /\ Fairness
-----------------------------------------------------------------------------
TypeOK ==
  /\ version \in 0..MaxVersion
  /\ memory \in 0..version
  /\ status \in [Corrections -> Statuses]
  /\ base \in [Corrections -> Nat]
  /\ catalog \in [Corrections -> Catalog]
  /\ decidedBy \in [Corrections -> Keys \union {None}]
  /\ overlays \subseteq Overlay
  /\ reads \in [Deciders -> Read]
  /\ narr \in {"idle", "preparing", "calling"}
  /\ prompt \in Corrections \union {None}
  /\ used \in [1..MaxVersion -> Corrections \union {None}]
  /\ replies \subseteq [corr : Corrections, decision : Decisions, key : Keys]

(* A turn has at most one overlay and an accepted correction exactly one,  *)
(* numbered without gaps, whatever threads decide at the same time.        *)
OverlaysUnique ==
  /\ \A o, p \in overlays :
       o.applies = p.applies \/ o.revision = p.revision \/ o.corr = p.corr => o = p
  /\ {o.revision : o \in overlays} = 1..Cardinality(overlays)
  /\ {o.corr : o \in overlays} = {c \in Corrections : status[c] = "accepted"}

(* An overlay is in the prompt of the one turn that follows the version it *)
(* was drafted against, and of no other, also when that turn is narrated   *)
(* again and again; and one accepted before that prompt was built is in it.*)
UsedInItsTurn ==
  /\ \A v \in 1..MaxVersion : used[v] # None =>
       /\ v = base[used[v]] + 1
       /\ \E o \in overlays : o.corr = used[v] /\ o.applies = v
  /\ \A o \in overlays : o.applies <= version /\ ~o.late => used[o.applies] = o.corr

(* The success replies agree with what is recorded and with each other:    *)
(* one correction has one decision under one key, and one key has decided  *)
(* one correction, for retries, rival keys and keys used again.            *)
RepliesAgree ==
  /\ \A r \in replies : status[r.corr] = Recorded(r.decision)
  /\ \A r, s \in replies : r.corr = s.corr \/ r.key = s.key => r = s

(* An accepted correction was drafted against the version that is current  *)
(* when it is accepted: no turn slips in between.                          *)
AcceptFresh ==
  [][\A o \in overlays' \ overlays :
       version = base[o.corr] /\ o.applies = version + 1]_vars

(* The narration here is that of Authoring, which Narration is shown to    *)
(* implement: one at a time, and it commits the turn its prompt was for.   *)
Narrated == INSTANCE Authoring WITH
              Seeding <- FALSE,
              phase <- narr,
              asked <- IF narr = "calling" THEN version ELSE 0
ImplementsAuthoring == Narrated!Spec

(* As long as the player keeps sending the message, the Party goes on to   *)
(* its next turn.                                                          *)
PartyProceeds ==
  \A v \in 0..(MaxVersion - 1) :
    version = v ~> (version > v \/ [](narr = "idle"))

(* What the documentation says of accept: the overlay is included in the   *)
(* next narrator prompt.                                                   *)
AcceptedIsUsed ==
  \A o \in overlays : o.applies <= version => used[o.applies] = o.corr

(* What the documentation says of accept: an overlay accepted in time      *)
(* comes into the prompt of its turn, unless the player stops before it.   *)
Awaits(c) == \E o \in overlays : o.corr = c /\ version < o.applies
AcceptedIsProjected ==
  \A c \in Corrections :
    (\E o \in overlays : o.corr = c /\ ~o.late /\ o.applies <= MaxVersion)
      ~> ((\E v \in 1..MaxVersion : used[v] = c) \/ [](narr = "idle" /\ Awaits(c)))
=============================================================================
