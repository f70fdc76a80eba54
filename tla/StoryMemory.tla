---------------------------- MODULE StoryMemory ----------------------------
(***************************************************************************)
(* The story memory of one RP Party: after every turn a story_memory job   *)
(* may compress the oldest uncovered batch of turns into one chunk, or,    *)
(* when the prompt has grown long, a batch of chunks of one level into one *)
(* chunk of the next; the narrator prompt shows the chunks and the last    *)
(* turns verbatim (rp/mechanics.py _update_story_memory, rp/memory.py,     *)
(* RPTurnEngine.append_story_memory, rp/narrator.py select_raw_turns).     *)
(*                                                                         *)
(* Abstractions.  Chunks are spans of turns without their prose, and       *)
(* whether the prompt is long or a source too large is left open, since    *)
(* both depend on the prose.  The jobs run one at a time in the order of   *)
(* their turns (JobOrder, which ServiceJobs is shown to implement), except *)
(* that the handler of a job which another gateway process has recovered   *)
(* goes on, and may append when the job is somebody else's or over.  What  *)
(* a handler reads before its model call it reads in one step.  Attempts   *)
(* are not counted: a retryable failure leaves the job pending or, at the  *)
(* last attempt, failed.                                                   *)
(*                                                                         *)
(* A definition marked "mutant" is a wrong variant of the definition after *)
(* it that bears its purpose; the specification uses none of them.  Put in *)
(* its place it makes one property fail, which shows that the property can.*)
(***************************************************************************)
EXTENDS Naturals, Sequences, FiniteSets

CONSTANTS
  Window,      \* RP_MEMORY_RAW_WINDOW_TURNS, limits.raw_window_turns
  Batch,       \* RP_MEMORY_BATCH_TURNS, limits.raw_anchor_turns
  None,        \* no job in hand
  MaxLost,     \* bound on handlers at work without their job, for TLC
  MaxVersion   \* bound on the turns of the Party, for TLC

ASSUME WindowAssumption == Window \in Nat \ {0}
ASSUME BatchAssumption == Batch \in Nat \ {0, 1}
ASSUME BoundAssumption == MaxVersion \in Nat /\ MaxLost \in Nat
ASSUME NoneAssumption == None \notin Nat

VARIABLES
  version,    \* rp_parties.current_version: the turns are 1..version
  outcome,    \* of the story_memory job of each turn
  snapshots,  \* rp_story_memory_snapshots in order of revision
  job,        \* the turn whose job is running, None when none is
  plan,       \* what its handler works on: [stage, base, chunks]
  lost        \* handlers in their model call whose job was recovered

vars == <<version, outcome, snapshots, job, plan, lost>>

Outcomes == {"pending", "updated", "not_due", "blocked", "failed"}
Chunk == [first : Nat, last : Nat, level : Nat]
NoPlan == [stage |-> "none", base |-> 0, chunks |-> <<>>]
Plan == [stage : {"none", "compressing", "appended"}, base : Nat, chunks : Seq(Chunk)]
Handler == [update : Nat, base : Nat, chunks : Seq(Chunk)]

Init ==
  /\ version = 0
  /\ outcome = <<>>
  /\ snapshots = <<>>
  /\ job = None
  /\ plan = NoPlan
  /\ lost = {}
-----------------------------------------------------------------------------
(* latest_story_memory: its chunks and its safe coverage.                  *)
Chunks == IF snapshots = <<>> THEN <<>> ELSE snapshots[Len(snapshots)].chunks
CoveredBy(chunks) == IF chunks = <<>> THEN 0 ELSE chunks[Len(chunks)].last
Coverage == CoveredBy(Chunks)

Monus(a, b) == IF a >= b THEN a - b ELSE 0

(* _first_hierarchy_batch: the first Batch neighbours of one level.        *)
SameLevel(chunks, at) ==
  \A i \in at..(at + Batch - 1) : chunks[i].level = chunks[at].level
HierarchyBatches(chunks) ==
  {at \in 1..Monus(Len(chunks) + 1, Batch) : SameLevel(chunks, at)}
FirstBatch(chunks) ==
  CHOOSE at \in HierarchyBatches(chunks) : \A k \in HierarchyBatches(chunks) : at <= k

MergedBesides(chunks, at) ==                                             \* mutant
  SubSeq(chunks, 1, at - 1)
    \o <<[first |-> chunks[at].first, last |-> chunks[at + Batch - 1].last,
          level |-> chunks[at].level + 1]>>
    \o SubSeq(chunks, at + 1, Len(chunks))

(* The two operations: raw_archive over chunks at..at+Batch-1, raw_batch   *)
(* over the first uncovered turns.                                         *)
Merged(chunks, at) ==
  SubSeq(chunks, 1, at - 1)
    \o <<[first |-> chunks[at].first, last |-> chunks[at + Batch - 1].last,
          level |-> chunks[at].level + 1]>>
    \o SubSeq(chunks, at + Batch, Len(chunks))
Extended(chunks) ==
  Append(chunks, [first |-> CoveredBy(chunks) + 1, last |-> CoveredBy(chunks) + Batch,
                  level |-> 1])

(* compressible_through is measured from the turn of the job.              *)
Due(source) == Monus(Monus(source, Window), Coverage) >= Batch
Updated(source) == \E r \in DOMAIN snapshots : snapshots[r].update = source
FailedJustBefore(source) == source > 1 /\ outcome[source - 1] = "failed"  \* mutant
FailedBefore(source) ==
  \E v \in 1..(source - 1) : outcome[v] = "failed" /\ v > Coverage
-----------------------------------------------------------------------------
CommitTurnOnly ==                                                        \* mutant
  /\ version < MaxVersion
  /\ version' = version + 1
  /\ UNCHANGED <<outcome, snapshots, job, plan, lost>>

(* A turn is committed and its job queued.                                 *)
CommitTurn ==
  /\ version < MaxVersion
  /\ version' = version + 1
  /\ outcome' = Append(outcome, "pending")
  /\ UNCHANGED <<snapshots, job, plan, lost>>

NextJobAny(v) == outcome[v] = "pending"                                   \* mutant

(* The first pending job: a claim, and the handler up to its model call or *)
(* up to a result that needs none.                                         *)
NextJob(v) == outcome[v] = "pending" /\ \A u \in 1..(v - 1) : outcome[u] # "pending"

Settle(v, result) ==
  /\ outcome' = [outcome EXCEPT ![v] = result]
  /\ UNCHANGED <<version, snapshots, job, plan, lost>>

Compress(v, chunks) ==
  /\ job' = v
  /\ plan' = [stage |-> "compressing", base |-> Len(snapshots), chunks |-> chunks]
  /\ UNCHANGED <<version, outcome, snapshots, lost>>

AlreadyUpdated(v) == Updated(v) /\ Settle(v, "updated")

Blocked(v) ==
  /\ ~Updated(v)
  /\ FailedBefore(v)
  /\ Settle(v, "blocked")

(* The chunks a handler may set out to write.  Of the turns it reads those *)
(* up to the turn of its job (_turns_for_memory_span).                     *)
Mergeable(v) ==
  /\ HierarchyBatches(Chunks) # {}
  /\ Chunks[FirstBatch(Chunks) + Batch - 1].last <= v
Plans(v) ==
  (IF Mergeable(v) THEN {Merged(Chunks, FirstBatch(Chunks))} ELSE {})
    \union (IF Due(v) THEN {Extended(Chunks)} ELSE {})

Compressed(v) ==
  /\ ~Updated(v) /\ ~FailedBefore(v)
  /\ \E chunks \in Plans(v) : Compress(v, chunks)

NotDue(v) ==
  /\ ~Updated(v) /\ ~FailedBefore(v)
  /\ ~Due(v)
  /\ Settle(v, "not_due")

RunJob ==
  /\ job = None
  /\ \E v \in 1..version :
       /\ NextJob(v)
       /\ \/ AlreadyUpdated(v) \/ Blocked(v) \/ Compressed(v) \/ NotDue(v)

AppendAnyBase(h) ==                                                      \* mutant
  /\ ~Updated(h.update)
  /\ CoveredBy(h.chunks) >= Coverage
  /\ snapshots' = Append(snapshots, [update |-> h.update, chunks |-> h.chunks])

(* append_story_memory: once for an update, and on the base that was read. *)
(* Two model calls never return the same prose, so that whoever finds the  *)
(* update there finds another snapshot, and is refused.                    *)
AppendOnBase(h) ==
  /\ ~Updated(h.update)
  /\ h.base = Len(snapshots)
  /\ CoveredBy(h.chunks) >= Coverage
  /\ snapshots' = Append(snapshots, [update |-> h.update, chunks |-> h.chunks])

InHand == [update |-> job, base |-> plan.base, chunks |-> plan.chunks]

AppendSnapshot ==
  /\ plan.stage = "compressing"
  /\ AppendOnBase(InHand)
  /\ plan' = [plan EXCEPT !.stage = "appended"]
  /\ UNCHANGED <<version, outcome, job, lost>>

(* record_service_job_result and complete_service_job.                     *)
Finish ==
  /\ plan.stage = "appended"
  /\ outcome' = [outcome EXCEPT ![job] = "updated"]
  /\ job' = None
  /\ plan' = NoPlan
  /\ UNCHANGED <<version, snapshots, lost>>

(* The source or the answer of the model is refused, or the last attempt   *)
(* of a job fails, its append refused or not; a job without a model call   *)
(* can only fail the latter way.                                           *)
FailJob ==
  /\ IF job # None
     THEN outcome' = [outcome EXCEPT ![job] = "failed"]
     ELSE \E v \in 1..version : NextJob(v) /\ outcome' = [outcome EXCEPT ![v] = "failed"]
  /\ job' = None
  /\ plan' = NoPlan
  /\ UNCHANGED <<version, snapshots, lost>>

(* A retryable failure, a cancellation or the death of the process: the    *)
(* job is pending again.                                                   *)
Abandon ==
  /\ job # None
  /\ job' = None
  /\ plan' = NoPlan
  /\ UNCHANGED <<version, outcome, snapshots, lost>>
-----------------------------------------------------------------------------
(* recover_interrupted_work of a process that starts while this one runs:  *)
(* the job is pending again, and its handler goes on.                      *)
Recover ==
  /\ plan.stage = "compressing"
  /\ Cardinality(lost) < MaxLost
  /\ lost' = lost \union {InHand}
  /\ job' = None
  /\ plan' = NoPlan
  /\ UNCHANGED <<version, outcome, snapshots>>

(* Or its loop had claimed the job and begins only now, when the job is    *)
(* pending, in another loop's hands or over.                               *)
BeginLost ==
  /\ Cardinality(lost) < MaxLost
  /\ \E v \in 1..version :
       /\ \A u \in 1..(v - 1) : outcome[u] # "pending"
       /\ ~Updated(v) /\ ~FailedBefore(v)
       /\ \E chunks \in Plans(v) :
            lost' = lost \union {[update |-> v, base |-> Len(snapshots), chunks |-> chunks]}
  /\ UNCHANGED <<version, outcome, snapshots, job, plan>>

(* Nothing asks whose the job is.                                          *)
AppendLate(h) ==
  /\ AppendOnBase(h)
  /\ lost' = lost \ {h}
  /\ UNCHANGED <<version, outcome, job, plan>>

(* It fails, is refused, is cancelled or dies: its job is not touched.     *)
LostEnds(h) ==
  /\ lost' = lost \ {h}
  /\ UNCHANGED <<version, outcome, snapshots, job, plan>>

Next ==
  \/ CommitTurn \/ RunJob \/ AppendSnapshot \/ Finish \/ FailJob \/ Abandon
  \/ Recover \/ BeginLost
  \/ \E h \in lost : AppendLate(h) \/ LostEnds(h)

Spec == Init /\ [][Next]_vars
-----------------------------------------------------------------------------
(* select_raw_turns: the turns the narrator prompt shows verbatim.         *)
AnchoredStart == (Monus(version, Window) \div Batch) * Batch
WindowTurns == {n \in 1..version : n > AnchoredStart}                     \* mutant
RawTurns == {n \in 1..version : n > AnchoredStart \/ n > Coverage}

SpanOf(chunks) == UNION {chunks[i].first..chunks[i].last : i \in DOMAIN chunks}

(* The turns of a chunk: RP_MEMORY_BATCH_TURNS to the power of its level.  *)
Size[level \in Nat] == IF level = 0 THEN 1 ELSE Batch * Size[level - 1]

(* What RPStoryMemoryChunk and RPStoryMemorySnapshot validate.             *)
ValidChunks(chunks) ==
  \A i \in DOMAIN chunks :
    /\ chunks[i].last + 1 - chunks[i].first = Size[chunks[i].level]
    /\ chunks[i].first = IF i = 1 THEN 1 ELSE chunks[i - 1].last + 1

TypeOK ==
  /\ version \in Nat
  /\ outcome \in Seq(Outcomes) /\ Len(outcome) = version
  /\ snapshots \in Seq([update : Nat, chunks : Seq(Chunk)])
  /\ job \in Nat \union {None}
  /\ plan \in Plan
  /\ lost \subseteq Handler

(* What a handler builds, of the job in hand or of one it has lost, is     *)
(* never refused by the snapshot's validators, and append_story_memory     *)
(* refuses it only when another snapshot was there first: as long as its   *)
(* base is the latest, its update is not spent and its coverage neither    *)
(* too low nor beyond the turns, so that no job fails because of an        *)
(* earlier one.                                                            *)
Handlers == lost \union (IF plan.stage = "compressing" THEN {InHand} ELSE {})
PlanSound ==
  \A h \in Handlers :
    /\ ValidChunks(h.chunks)
    /\ SpanOf(h.chunks) \subseteq 1..IF h \in lost THEN version ELSE job
    /\ h.base = Len(snapshots) =>
         ~Updated(h.update) /\ CoveredBy(h.chunks) >= Coverage

(* Chunks and verbatim turns leave no turn out of the prompt, whichever    *)
(* jobs failed, were blocked or lost half way, and at least the last       *)
(* Window turns are verbatim.                                              *)
NoBlindSpot ==
  /\ SpanOf(Chunks) \union RawTurns = 1..version
  /\ (Monus(version, Window) + 1)..version \subseteq RawTurns
  /\ Coverage <= Monus(version, Window)

(* As long as no job failed, memory keeps up: once the jobs are over, the   *)
(* turns uncovered beyond the window are fewer than a batch and one turn    *)
(* for each merge there has been.  A merge takes a job that covers nothing  *)
(* new and puts one chunk where there were Batch, so that merges are rare   *)
(* among the turns that memory covers.                                      *)
Merges(chunks) == (CoveredBy(chunks) \div Batch - Len(chunks)) \div (Batch - 1)
KeepsUp ==
  (\A v \in 1..version : outcome[v] \in {"updated", "not_due"}) =>
    version - Coverage < Window + Batch + Merges(Chunks)

(* Snapshots are only appended, the safe coverage never goes back, and     *)
(* after a failed job memory stays as it is until an operator decides: no  *)
(* job of a later turn compresses past the failure, neither in its turn    *)
(* nor late.                                                               *)
MemoryGrows ==
  [][/\ SubSeq(snapshots', 1, Len(snapshots)) = snapshots
     /\ Coverage' >= Coverage
     /\ \A v \in 1..version : outcome[v] = "failed" /\ v > Coverage =>
          \A r \in (Len(snapshots) + 1)..Len(snapshots') : snapshots'[r].update <= v]_vars

(* The jobs of story memory are those of ServiceJobs: their order, their   *)
(* single writes and their late ones are no more than JobOrder allows.     *)
Memory == {"story_memory"}
Order == INSTANCE JobOrder WITH
           Kinds <- Memory,
           queued <- version,
           over <- [k \in Memory |-> {v \in 1..version : outcome[v] # "pending"}],
           written <- [k \in Memory |-> {snapshots[r].update : r \in DOMAIN snapshots}]
ImplementsOrder == Order!Spec
=============================================================================
