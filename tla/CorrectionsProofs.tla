------------------------- MODULE CorrectionsProofs -------------------------
(* Proofs about module Corrections, for any corrections, worker threads,    *)
(* keys and turns.                                                          *)
EXTENDS Corrections, FiniteSetTheorems, TLAPS

\* A correction that is decided, and by which key.
Decided(c) == status[c] \in {"accepted", "rejected", "stale"}
KeysDecideOnce ==
  \A c, d \in Corrections : Decided(c) /\ Decided(d) /\ decidedBy[c] = decidedBy[d] => c = d

\* A success reply says what the proposal says.
RepliesRecorded ==
  \A r \in replies : status[r.corr] = Recorded(r.decision) /\ decidedBy[r.corr] = r.key

\* An overlay is for the turn after the one it was drafted against, which is
\* the next turn at most.
OverlaysDue ==
  /\ IsFiniteSet(overlays)
  /\ \A o \in overlays : o.applies = base[o.corr] + 1 /\ o.applies <= version + 1

\* What the provider works on is what was there when the prompt was built.
PromptSound ==
  /\ narr # "idle" => version < MaxVersion
  /\ narr # "calling" => prompt = None
  /\ prompt # None => \E o \in overlays : o.corr = prompt /\ o.applies = version + 1
  /\ narr = "calling" =>
       \A o \in overlays : o.applies = version + 1 /\ ~o.late => o.corr = prompt

IInv ==
  /\ TypeOK /\ KeysDecideOnce /\ RepliesRecorded /\ OverlaysUnique /\ OverlaysDue
  /\ PromptSound /\ UsedInItsTurn

\* The step property of AcceptFresh.
FreshStep ==
  \A o \in overlays' \ overlays : version = base[o.corr] /\ o.applies = version + 1

-----------------------------------------------------------------------------
LEMMA InitInv == Init => IInv
<1> SUFFICES ASSUME Init PROVE IInv
  OBVIOUS
<1>1. TypeOK
  BY VersionAssumption DEF Init, TypeOK, Statuses, Catalog, Read
<1>2. KeysDecideOnce /\ RepliesRecorded
  BY DEF Init, KeysDecideOnce, Decided, RepliesRecorded
<1>3. IsFiniteSet(overlays) /\ Cardinality(overlays) = 0
  BY FS_EmptySet DEF Init
<1>4. OverlaysUnique /\ OverlaysDue
  BY <1>3 DEF Init, OverlaysUnique, OverlaysDue
<1>5. PromptSound /\ UsedInItsTurn
  BY DEF Init, PromptSound, UsedInItsTurn
<1> QED BY <1>1, <1>2, <1>4, <1>5 DEF IInv

-----------------------------------------------------------------------------
(* Steps that decide nothing.                                              *)

(* What is decided, overlays, the narration and its history stay.          *)
LEMMA ProposalStep ==
  ASSUME IInv, NEW c \in Corrections, NEW s \in {"queued", "pending", "none"},
         status[c] \in {"absent", "queued"},
         status' = [status EXCEPT ![c] = s],
         base' \in [Corrections -> Nat], catalog' \in [Corrections -> Catalog],
         \A d \in Corrections \ {c} : base'[d] = base[d],
         UNCHANGED <<version, memory, decidedBy, overlays, reads, narrationVars, replies>>
  PROVE  IInv' /\ FreshStep
<1> USE DEF narrationVars
<1>1. TypeOK'
  BY DEF IInv, TypeOK, Statuses
<1>2. \A d \in Corrections : status'[d] = IF d = c THEN s ELSE status[d]
  BY DEF IInv, TypeOK
<1>3. \A o \in overlays : o.corr \in Corrections /\ o.corr # c
  BY DEF IInv, TypeOK, Overlay, OverlaysUnique
<1>4. KeysDecideOnce' /\ RepliesRecorded'
  <2>1. \A d \in Corrections : Decided(d)' => Decided(d)
    BY <1>2 DEF Decided
  <2>2. \A r \in replies : r.corr \in Corrections /\ r.corr # c
    BY DEF IInv, TypeOK, RepliesRecorded, Recorded
  <2> QED BY <1>2, <2>1, <2>2 DEF IInv, KeysDecideOnce, RepliesRecorded
<1>5. OverlaysUnique'
  <2>1. {d \in Corrections : status'[d] = "accepted"} = {d \in Corrections : status[d] = "accepted"}
    BY <1>2
  <2> QED BY <2>1 DEF IInv, OverlaysUnique
<1>6. OverlaysDue' /\ PromptSound'
  BY <1>3 DEF IInv, OverlaysDue, PromptSound
<1>7. UsedInItsTurn'
  <2>1. \A v \in 1..MaxVersion : used[v] # None => used[v] \in Corrections \ {c}
    BY <1>3 DEF IInv, UsedInItsTurn
  <2> QED BY <2>1 DEF IInv, UsedInItsTurn
<1>8. FreshStep
  BY DEF FreshStep
<1> QED BY <1>1, <1>4, <1>5, <1>6, <1>7, <1>8 DEF IInv

LEMMA DraftStep ==
  ASSUME IInv, NEW c \in Corrections, Draft(c) \/ Propose(c)
  PROVE  IInv' /\ FreshStep
<1>1. CASE Draft(c)
  <2>1. /\ base' \in [Corrections -> Nat] /\ catalog' \in [Corrections -> Catalog]
        /\ \A d \in Corrections \ {c} : base'[d] = base[d]
    BY <1>1, VersionAssumption DEF Draft, IInv, TypeOK, Catalog
  <2> QED BY <1>1, <2>1, ProposalStep DEF Draft
<1>2. CASE Propose(c)
  <2>1. base' \in [Corrections -> Nat] /\ catalog' \in [Corrections -> Catalog]
    BY <1>2 DEF Propose, IInv, TypeOK
  <2> QED BY <1>2, <2>1, ProposalStep DEF Propose
<1> QED BY <1>1, <1>2

(* Only what a thread has read, the memory or the position of a narration  *)
(* without a prompt changes.                                               *)
LEMMA QuietStep ==
  ASSUME IInv, UNCHANGED <<version, proposalVars, overlays, used, replies>>,
         memory' \in 0..version, reads' \in [Deciders -> Read],
         \/ UNCHANGED <<narr, prompt>>
         \/ narr' = "idle" /\ prompt' = None
         \/ narr' = "preparing" /\ prompt' = None /\ version < MaxVersion
  PROVE  IInv' /\ FreshStep
<1> USE DEF proposalVars
<1>1. TypeOK'
  BY DEF IInv, TypeOK
<1>2. KeysDecideOnce' /\ RepliesRecorded' /\ OverlaysUnique' /\ OverlaysDue'
  BY DEF IInv, KeysDecideOnce, Decided, RepliesRecorded, OverlaysUnique, OverlaysDue
<1>3. PromptSound'
  BY DEF IInv, PromptSound
<1>4. UsedInItsTurn'
  BY DEF IInv, UsedInItsTurn
<1>5. FreshStep
  BY DEF FreshStep
<1> QED BY <1>1, <1>2, <1>3, <1>4, <1>5 DEF IInv

LEMMA ReadStep ==
  ASSUME IInv, NEW d \in Deciders, ReadTurns(d) \/ ReadMemory(d)
  PROVE  IInv' /\ FreshStep
<1>1. /\ UNCHANGED <<version, proposalVars, overlays, used, replies>>
      /\ memory' = memory /\ UNCHANGED <<narr, prompt>>
  BY DEF ReadTurns, ReadMemory, narrationVars
<1>2. version \in Nat /\ memory \in 0..version /\ reads \in [Deciders -> Read]
  BY VersionAssumption DEF IInv, TypeOK
<1>3. reads' \in [Deciders -> Read]
  <2>1. CASE ReadTurns(d)
    BY <1>2, <2>1 DEF ReadTurns, Read
  <2>2. CASE ReadMemory(d)
    <3>1. reads[d] \in [ver : Nat, mem : Nat \union {None}]
      BY <1>2, <2>2 DEF ReadMemory, Read
    <3>2. [reads[d] EXCEPT !.mem = memory] \in Read
      BY <1>2, <3>1 DEF Read
    <3>3. reads' = [reads EXCEPT ![d] = [reads[d] EXCEPT !.mem = memory]]
      BY <2>2 DEF ReadMemory
    <3> QED BY <1>2, <3>2, <3>3
  <2> QED BY <2>1, <2>2
<1> QED BY <1>1, <1>2, <1>3, QuietStep

LEMMA QuietSteps ==
  ASSUME IInv, BeginNarration \/ PromptTooLong \/ GiveUp \/ AppendMemory \/ Restart
  PROVE  IInv' /\ FreshStep
<1>1. version \in Nat /\ memory \in 0..version /\ reads \in [Deciders -> Read]
  BY VersionAssumption DEF IInv, TypeOK
<1>2. memory' \in 0..version /\ reads' \in [Deciders -> Read]
  BY <1>1 DEF BeginNarration, PromptTooLong, GiveUp, AppendMemory, Restart, Read
<1>3. UNCHANGED <<version, proposalVars, overlays, used, replies>>
  BY DEF BeginNarration, PromptTooLong, GiveUp, AppendMemory, Restart, narrationVars
<1>4. \/ UNCHANGED <<narr, prompt>>
      \/ narr' = "idle" /\ prompt' = None
      \/ narr' = "preparing" /\ prompt' = None /\ version < MaxVersion
  BY DEF BeginNarration, PromptTooLong, GiveUp, AppendMemory, Restart, narrationVars, IInv, PromptSound
<1> QED BY <1>2, <1>3, <1>4, QuietStep

-----------------------------------------------------------------------------
(* The narration.                                                          *)

(* The overlay of the next turn is unique, so the prompt has it.           *)
LEMMA AssembleStep ==
  ASSUME IInv, Assemble
  PROVE  IInv' /\ FreshStep
<1>1. /\ narr = "preparing" /\ narr' = "calling"
      /\ UNCHANGED <<version, memory, status, base, catalog, decidedBy, overlays, reads, used, replies>>
      /\ prompt' = IF NextOverlay = {} THEN None ELSE (CHOOSE o \in NextOverlay : TRUE).corr
  BY DEF Assemble, proposalVars
<1>2. \A o \in overlays : o.corr \in Corrections
  BY DEF IInv, TypeOK, Overlay
<1>3. /\ \A o \in overlays : o.applies = version + 1 => o.corr = prompt'
      /\ prompt' # None => \E o \in overlays : o.corr = prompt' /\ o.applies = version + 1
      /\ prompt' \in Corrections \union {None}
  <2>1. CASE NextOverlay = {}
    BY <1>1, <2>1 DEF NextOverlay
  <2>2. CASE NextOverlay # {}
    <3>1. PICK o \in NextOverlay : prompt' = o.corr
      BY <1>1, <2>2
    <3>2. \A p \in NextOverlay : p = o
      BY <3>1 DEF NextOverlay, IInv, OverlaysUnique
    <3> QED BY <1>2, <3>1, <3>2 DEF NextOverlay
  <2> QED BY <2>1, <2>2
<1>4. TypeOK'
  BY <1>1, <1>3 DEF IInv, TypeOK
<1>5. KeysDecideOnce' /\ RepliesRecorded' /\ OverlaysUnique' /\ OverlaysDue' /\ UsedInItsTurn'
  BY <1>1 DEF IInv, KeysDecideOnce, Decided, RepliesRecorded, OverlaysUnique, OverlaysDue, UsedInItsTurn
<1>6. PromptSound'
  BY <1>1, <1>3 DEF IInv, PromptSound
<1>7. FreshStep
  BY <1>1 DEF FreshStep
<1> QED BY <1>4, <1>5, <1>6, <1>7 DEF IInv

LEMMA CommitStep ==
  ASSUME IInv, Commit
  PROVE  IInv' /\ FreshStep
<1>1. /\ narr = "calling" /\ narr' = "idle" /\ prompt' = None
      /\ version' = version + 1 /\ used' = [used EXCEPT ![version + 1] = prompt]
      /\ UNCHANGED <<memory, status, base, catalog, decidedBy, overlays, reads, replies>>
  BY DEF Commit, proposalVars
<1>2. version \in Nat /\ version < MaxVersion /\ memory \in 0..version
  BY <1>1, VersionAssumption DEF IInv, TypeOK, PromptSound
<1>3. version' \in 0..MaxVersion /\ memory' \in 0..version' /\ version + 1 \in 1..MaxVersion
  BY <1>1, <1>2, VersionAssumption
<1>4. used' \in [1..MaxVersion -> Corrections \union {None}]
  BY <1>1, <1>3 DEF IInv, TypeOK
<1>5. \A v \in 1..MaxVersion : used'[v] = IF v = version + 1 THEN prompt ELSE used[v]
  BY <1>1, <1>3 DEF IInv, TypeOK
<1>6. TypeOK'
  BY <1>1, <1>3, <1>4 DEF IInv, TypeOK
<1>7. KeysDecideOnce' /\ RepliesRecorded' /\ OverlaysUnique'
  BY <1>1 DEF IInv, KeysDecideOnce, Decided, RepliesRecorded, OverlaysUnique
<1>8. \A o \in overlays : /\ o.corr \in Corrections /\ o.applies \in Nat
                          /\ o.applies = base[o.corr] + 1 /\ o.applies <= version + 1
  BY DEF IInv, TypeOK, Overlay, OverlaysDue
<1>9. OverlaysDue' /\ PromptSound'
  BY <1>1, <1>2, <1>8 DEF IInv, OverlaysDue, PromptSound
<1>10. UsedInItsTurn'
  <2>1. ASSUME NEW v \in 1..MaxVersion, used'[v] # None
        PROVE  /\ v = base[used'[v]] + 1
               /\ \E o \in overlays : o.corr = used'[v] /\ o.applies = v
    <3>1. CASE v = version + 1
      <4>1. PICK o \in overlays : o.corr = prompt /\ o.applies = version + 1
        BY <1>5, <2>1, <3>1 DEF IInv, PromptSound
      <4> QED BY <1>5, <1>8, <3>1, <4>1
    <3>2. CASE v # version + 1
      BY <1>5, <2>1, <3>2 DEF IInv, UsedInItsTurn
    <3> QED BY <3>1, <3>2
  <2>2. ASSUME NEW o \in overlays, o.applies <= version + 1, ~o.late
        PROVE  used'[o.applies] = o.corr
    <3>1. o.applies \in 1..MaxVersion
      <4>1. base[o.corr] \in Nat
        BY <1>8 DEF IInv, TypeOK
      <4> QED BY <1>2, <1>8, <2>2, <4>1, VersionAssumption
    <3>2. CASE o.applies = version + 1
      BY <1>1, <1>5, <2>2, <3>1, <3>2 DEF IInv, PromptSound
    <3>3. CASE o.applies # version + 1
      <4>1. o.applies <= version
        BY <1>2, <1>8, <2>2, <3>3
      <4>2. used[o.applies] = o.corr
        BY <2>2, <4>1 DEF IInv, UsedInItsTurn
      <4> QED BY <1>5, <3>1, <3>3, <4>2
    <3> QED BY <3>2, <3>3
  <2> QED BY <1>1, <2>1, <2>2 DEF UsedInItsTurn
<1>11. FreshStep
  BY <1>1 DEF FreshStep
<1> QED BY <1>6, <1>7, <1>9, <1>10, <1>11 DEF IInv

-----------------------------------------------------------------------------
(* Decisions.                                                              *)

(* What a decision records: the proposal that was pending, and its key,    *)
(* which has decided nothing else.  The conclusion leaves out what only    *)
(* concerns overlays.                                                      *)
LEMMA RecordFacts ==
  ASSUME IInv, NEW q \in Requests, NEW s \in {"accepted", "rejected", "stale"},
         status[q.corr] = "pending", ~KeySpent(q), Record(q, s),
         \/ UNCHANGED replies
         \/ Answer(q) /\ s = Recorded(q.decision)
  PROVE  /\ q.corr \in Corrections /\ q.key \in Keys /\ q.decision \in Decisions
         /\ q.expected \in Nat
         /\ status' \in [Corrections -> Statuses]
         /\ decidedBy' \in [Corrections -> Keys \union {None}]
         /\ replies' \subseteq [corr : Corrections, decision : Decisions, key : Keys]
         /\ UNCHANGED <<base, catalog>>
         /\ \A c \in Corrections : /\ status'[c] = (IF c = q.corr THEN s ELSE status[c])
                                   /\ decidedBy'[c] = (IF c = q.corr THEN q.key ELSE decidedBy[c])
         /\ KeysDecideOnce' /\ RepliesRecorded'
<1>1. /\ q.corr \in Corrections /\ q.key \in Keys /\ q.decision \in Decisions
      /\ q.expected \in Nat
  <2>1. PICK c \in Corrections :
          q \in [corr : {c}, decision : Decisions, expected : {base[c], version}, key : Keys]
    BY DEF Requests
  <2>2. base[c] \in Nat /\ version \in Nat
    BY VersionAssumption DEF IInv, TypeOK
  <2> QED BY <2>1, <2>2
<1>2. /\ status' = [status EXCEPT ![q.corr] = s]
      /\ decidedBy' = [decidedBy EXCEPT ![q.corr] = q.key]
      /\ UNCHANGED <<base, catalog>>
  BY DEF Record
<1>3. /\ status' \in [Corrections -> Statuses]
      /\ decidedBy' \in [Corrections -> Keys \union {None}]
      /\ \A c \in Corrections : /\ status'[c] = (IF c = q.corr THEN s ELSE status[c])
                                /\ decidedBy'[c] = (IF c = q.corr THEN q.key ELSE decidedBy[c])
  BY <1>1, <1>2 DEF IInv, TypeOK, Statuses
<1>4. replies' \subseteq [corr : Corrections, decision : Decisions, key : Keys]
  BY <1>1 DEF Answer, IInv, TypeOK
<1>5. KeysDecideOnce'
  <2>1. \A c \in Corrections \ {q.corr} : decidedBy[c] # q.key
    BY DEF KeySpent
  <2>2. \A c \in Corrections \ {q.corr} : Decided(c)' <=> Decided(c)
    BY <1>3 DEF Decided
  <2> QED BY <1>3, <2>1, <2>2 DEF IInv, KeysDecideOnce
<1>6. RepliesRecorded'
  <2> SUFFICES ASSUME NEW r \in replies'
               PROVE  status'[r.corr] = Recorded(r.decision) /\ decidedBy'[r.corr] = r.key
    BY DEF RepliesRecorded, Recorded
  <2>1. CASE r \in replies
    <3>1. /\ r.corr \in Corrections
          /\ status[r.corr] = Recorded(r.decision) /\ decidedBy[r.corr] = r.key
      BY <2>1 DEF IInv, TypeOK, RepliesRecorded
    <3>2. r.corr # q.corr
      BY <3>1 DEF Recorded
    <3> QED BY <1>3, <3>1, <3>2
  <2>2. CASE r \notin replies
    <3>1. r = [corr |-> q.corr, decision |-> q.decision, key |-> q.key] /\ s = Recorded(q.decision)
      BY <2>2 DEF Answer
    <3> QED BY <1>1, <1>3, <3>1
  <2> QED BY <2>1, <2>2
<1> QED BY <1>1, <1>2, <1>3, <1>4, <1>5, <1>6

(* A decision that makes no overlay.                                       *)
LEMMA DismissStep ==
  ASSUME IInv, NEW q \in Requests, NEW s \in {"rejected", "stale"},
         status[q.corr] = "pending", ~KeySpent(q), Record(q, s),
         \/ UNCHANGED replies
         \/ Answer(q) /\ s = Recorded(q.decision),
         UNCHANGED <<version, memory, overlays, narrationVars>>,
         reads' \in [Deciders -> Read]
  PROVE  IInv' /\ FreshStep
<1> USE DEF narrationVars
<1>1. /\ status' \in [Corrections -> Statuses]
      /\ decidedBy' \in [Corrections -> Keys \union {None}]
      /\ replies' \subseteq [corr : Corrections, decision : Decisions, key : Keys]
      /\ UNCHANGED <<base, catalog>>
      /\ \A c \in Corrections : status'[c] = (IF c = q.corr THEN s ELSE status[c])
      /\ KeysDecideOnce' /\ RepliesRecorded'
  BY RecordFacts
<1>2. TypeOK'
  BY <1>1 DEF IInv, TypeOK
<1>3. OverlaysUnique'
  <2>1. {c \in Corrections : status'[c] = "accepted"} = {c \in Corrections : status[c] = "accepted"}
    BY <1>1
  <2> QED BY <2>1 DEF IInv, OverlaysUnique
<1>4. OverlaysDue' /\ PromptSound' /\ UsedInItsTurn'
  BY <1>1 DEF IInv, OverlaysDue, PromptSound, UsedInItsTurn
<1>5. FreshStep
  BY DEF FreshStep
<1> QED BY <1>1, <1>2, <1>3, <1>4, <1>5 DEF IInv

(* The new overlay is for the next turn, which had none.                   *)
LEMMA AcceptStep ==
  ASSUME IInv, NEW q \in Requests, NEW seen, Accept(q, seen),
         UNCHANGED <<version, memory, narrationVars>>,
         reads' \in [Deciders -> Read]
  PROVE  IInv' /\ FreshStep
<1> USE DEF narrationVars
<1>1. /\ status[q.corr] = "pending" /\ ~KeySpent(q) /\ Record(q, "accepted") /\ Answer(q)
      /\ "accepted" = Recorded(q.decision)
  BY DEF Accept, Recorded
<1>2. /\ q.corr \in Corrections /\ q.expected \in Nat
      /\ status' \in [Corrections -> Statuses]
      /\ decidedBy' \in [Corrections -> Keys \union {None}]
      /\ replies' \subseteq [corr : Corrections, decision : Decisions, key : Keys]
      /\ UNCHANGED <<base, catalog>>
      /\ \A c \in Corrections : status'[c] = (IF c = q.corr THEN "accepted" ELSE status[c])
      /\ KeysDecideOnce' /\ RepliesRecorded'
  BY <1>1, RecordFacts
<1>3. /\ q.expected = version /\ base[q.corr] = version
      /\ \A o \in overlays : o.applies # version + 1
  BY DEF Accept, Stale, NextPromptOwned
<1> DEFINE n == Cardinality(overlays)
           new == [corr |-> q.corr, revision |-> n + 1, applies |-> version + 1,
                   late |-> narr = "calling"]
<1>4. overlays' = overlays \union {new}
  BY <1>3 DEF Accept
<1>5. /\ IsFiniteSet(overlays) /\ n \in Nat
      /\ \A o \in overlays : o \in Overlay
  BY FS_CardinalityType DEF IInv, OverlaysDue, TypeOK
<1>6. /\ new \in Overlay /\ new.corr = q.corr /\ new.revision = n + 1
      /\ new.applies = version + 1 /\ (narr = "calling" => new.late)
  <2>1. CASE narr = "calling"
    <3>1. new = [corr |-> q.corr, revision |-> n + 1, applies |-> version + 1, late |-> TRUE]
      BY <2>1
    <3> HIDE DEF new
    <3> QED BY <1>2, <1>3, <1>5, <3>1 DEF Overlay
  <2>2. CASE narr # "calling"
    <3>1. new = [corr |-> q.corr, revision |-> n + 1, applies |-> version + 1, late |-> FALSE]
      BY <2>2
    <3> HIDE DEF new
    <3> QED BY <1>2, <1>3, <1>5, <2>2, <3>1 DEF Overlay
  <2> QED BY <2>1, <2>2
<1>7. /\ {o.corr : o \in overlays} = {c \in Corrections : status[c] = "accepted"}
      /\ {o.revision : o \in overlays} = 1..n
      /\ \A o, p \in overlays :
           o.applies = p.applies \/ o.revision = p.revision \/ o.corr = p.corr => o = p
  BY DEF IInv, OverlaysUnique
<1>8. \A o \in overlays : o.corr # q.corr /\ o.revision \in 1..n /\ o.applies # version + 1
  BY <1>1, <1>3, <1>7
<1> HIDE DEF new, n
<1>9. new \notin overlays
  BY <1>6, <1>8
<1>10. IsFiniteSet(overlays') /\ Cardinality(overlays') = n + 1
  BY <1>4, <1>5, <1>9, FS_AddElement DEF n
<1>11. TypeOK'
  <2>1. overlays' \subseteq Overlay
    BY <1>4, <1>5, <1>6
  <2> QED BY <1>2, <2>1 DEF IInv, TypeOK
<1>12. OverlaysUnique'
  <2>1. \A o, p \in overlays' :
          o.applies = p.applies \/ o.revision = p.revision \/ o.corr = p.corr => o = p
    <3>1. \A o \in overlays : /\ o.applies # new.applies /\ o.corr # new.corr
                              /\ o.revision # new.revision
      BY <1>5, <1>6, <1>8
    <3> QED BY <1>4, <1>7, <3>1
  <2>2. {o.revision : o \in overlays'} = 1..(n + 1)
    <3>1. {o.revision : o \in overlays'} = {o.revision : o \in overlays} \union {n + 1}
      BY <1>4, <1>6
    <3> QED BY <1>5, <1>7, <3>1
  <2>3. {o.corr : o \in overlays'} = {c \in Corrections : status'[c] = "accepted"}
    <3>1. {o.corr : o \in overlays'} = {o.corr : o \in overlays} \union {q.corr}
      BY <1>4, <1>6
    <3> QED BY <1>2, <1>7, <3>1
  <2> QED BY <1>10, <2>1, <2>2, <2>3 DEF OverlaysUnique
<1>13. OverlaysDue'
  <2>1. version \in Nat
    BY VersionAssumption DEF IInv, TypeOK
  <2> QED BY <1>2, <1>3, <1>4, <1>6, <1>10, <2>1 DEF IInv, OverlaysDue
<1>14. PromptSound'
  BY <1>4, <1>6 DEF IInv, PromptSound
<1>15. UsedInItsTurn'
  <2>1. ~(new.applies <= version)
    BY <1>6, VersionAssumption DEF IInv, TypeOK
  <2> QED BY <1>2, <1>4, <2>1 DEF IInv, UsedInItsTurn
<1>16. FreshStep
  BY <1>3, <1>4, <1>6 DEF FreshStep
<1> QED BY <1>2, <1>11, <1>12, <1>13, <1>14, <1>15, <1>16 DEF IInv

(* A repeated or refused request changes nothing but adds its reply, when  *)
(* it is the request that decided.                                         *)
LEMMA RepeatStep ==
  ASSUME IInv, NEW q \in Requests, NEW seen, DecideAgain(q) \/ Refuse(q, seen),
         UNCHANGED <<version, memory, narrationVars>>,
         reads' \in [Deciders -> Read]
  PROVE  IInv' /\ FreshStep
<1> USE DEF narrationVars, proposalVars
<1>1. UNCHANGED <<status, base, catalog, decidedBy, overlays>>
  BY DEF DecideAgain, Refuse
<1>2. /\ replies' \subseteq [corr : Corrections, decision : Decisions, key : Keys]
      /\ \A r \in replies' : status[r.corr] = Recorded(r.decision) /\ decidedBy[r.corr] = r.key
  <2>1. CASE UNCHANGED replies
    BY <2>1 DEF IInv, TypeOK, RepliesRecorded
  <2>2. CASE Replays(q) /\ Answer(q)
    <3>1. q.corr \in Corrections /\ q.key \in Keys /\ q.decision \in Decisions
      BY DEF Requests
    <3>2. replies' = replies \union {[corr |-> q.corr, decision |-> q.decision, key |-> q.key]}
      BY <2>2 DEF Answer
    <3>3. status[q.corr] = Recorded(q.decision) /\ decidedBy[q.corr] = q.key
      BY <2>2 DEF Replays
    <3> QED BY <3>1, <3>2, <3>3 DEF IInv, TypeOK, RepliesRecorded
  <2> QED BY <2>1, <2>2 DEF DecideAgain, Refuse
<1>3. TypeOK'
  BY <1>1, <1>2 DEF IInv, TypeOK
<1>4. RepliesRecorded'
  BY <1>1, <1>2 DEF RepliesRecorded, Recorded
<1>5. KeysDecideOnce' /\ OverlaysUnique' /\ OverlaysDue' /\ PromptSound' /\ UsedInItsTurn'
  BY <1>1 DEF IInv, KeysDecideOnce, Decided, OverlaysUnique, OverlaysDue, PromptSound, UsedInItsTurn
<1>6. FreshStep
  BY <1>1 DEF FreshStep
<1> QED BY <1>3, <1>4, <1>5, <1>6 DEF IInv

LEMMA DecideStep ==
  ASSUME IInv, NEW d \in Deciders, Decide(d)
  PROVE  IInv' /\ FreshStep
<1>1. PICK q \in Requests : \/ DecideAgain(q)
                            \/ DecideStale(q, reads[d])
                            \/ Reject(q, reads[d])
                            \/ Refuse(q, reads[d])
                            \/ Accept(q, reads[d])
  BY DEF Decide
<1>2. UNCHANGED <<version, memory, narrationVars>>
  BY DEF Decide
<1>3. reads' \in [Deciders -> Read]
  BY DEF Decide, IInv, TypeOK, Read
<1>4. CASE DecideAgain(q) \/ Refuse(q, reads[d])
  BY <1>2, <1>3, <1>4, RepeatStep
<1>5. CASE DecideStale(q, reads[d])
  <2>1. /\ status[q.corr] = "pending" /\ ~KeySpent(q) /\ Record(q, "stale")
        /\ UNCHANGED overlays /\ UNCHANGED replies
    BY <1>5 DEF DecideStale
  <2> QED BY <1>2, <1>3, <2>1, DismissStep
<1>6. CASE Reject(q, reads[d])
  <2>1. /\ status[q.corr] = "pending" /\ ~KeySpent(q) /\ Record(q, "rejected")
        /\ UNCHANGED overlays /\ Answer(q) /\ "rejected" = Recorded(q.decision)
    BY <1>6 DEF Reject, Recorded
  <2> QED BY <1>2, <1>3, <2>1, DismissStep
<1>7. CASE Accept(q, reads[d])
  BY <1>2, <1>3, <1>7, AcceptStep
<1> QED BY <1>1, <1>4, <1>5, <1>6, <1>7

-----------------------------------------------------------------------------
(* The whole.                                                              *)

LEMMA NextInv ==
  ASSUME IInv, [Next]_vars
  PROVE  IInv' /\ FreshStep
<1>1. CASE \E c \in Corrections : Draft(c) \/ Propose(c)
  BY <1>1, DraftStep
<1>2. CASE \E d \in Deciders : ReadTurns(d) \/ ReadMemory(d)
  BY <1>2, ReadStep
<1>3. CASE \E d \in Deciders : Decide(d)
  BY <1>3, DecideStep
<1>4. CASE Assemble
  BY <1>4, AssembleStep
<1>5. CASE Commit
  BY <1>5, CommitStep
<1>6. CASE BeginNarration \/ PromptTooLong \/ GiveUp \/ AppendMemory \/ Restart
  BY <1>6, QuietSteps
<1>7. CASE UNCHANGED vars
  <2>1. /\ UNCHANGED <<version, proposalVars, overlays, used, replies>>
        /\ memory' \in 0..version /\ reads' \in [Deciders -> Read] /\ UNCHANGED <<narr, prompt>>
    BY <1>7 DEF vars, narrationVars, IInv, TypeOK
  <2> QED BY <2>1, QuietStep
<1> QED BY <1>1, <1>2, <1>3, <1>4, <1>5, <1>6, <1>7 DEF Next

(* Proposals, overlays, replies and the narration in flight agree in every *)
(* reachable state.                                                        *)
THEOREM Invariant == Spec => []IInv
BY InitInv, NextInv, PTL DEF Spec

(* A turn has at most one overlay, an accepted correction exactly one, and *)
(* revisions have no gap, however many threads decide at the same time.    *)
THEOREM OneOverlay == Spec => []OverlaysUnique
<1>1. IInv => OverlaysUnique
  BY DEF IInv
<1> QED BY <1>1, Invariant, PTL

(* An overlay is in the prompt of its turn and of no other, unless it was  *)
(* accepted when that prompt was already with the provider.                *)
THEOREM InItsTurn == Spec => []UsedInItsTurn
<1>1. IInv => UsedInItsTurn
  BY DEF IInv
<1> QED BY <1>1, Invariant, PTL

(* Success replies never contradict each other or the record: one decision *)
(* and one key for a correction, one correction for a key.                 *)
THEOREM RepliesTrue == Spec => []RepliesAgree
<1>1. ASSUME IInv
      PROVE  RepliesAgree
  <2>1. \A r \in replies : status[r.corr] = Recorded(r.decision) /\ decidedBy[r.corr] = r.key
    BY <1>1 DEF IInv, RepliesRecorded
  <2>2. ASSUME NEW r \in replies, NEW s \in replies, r.corr = s.corr \/ r.key = s.key
        PROVE  r = s
    <3>1. /\ r \in [corr : Corrections, decision : Decisions, key : Keys]
          /\ s \in [corr : Corrections, decision : Decisions, key : Keys]
      BY <1>1 DEF IInv, TypeOK
    <3>2. Decided(r.corr) /\ Decided(s.corr)
      BY <2>1 DEF Decided, Recorded
    <3>3. r.corr = s.corr
      BY <1>1, <2>1, <2>2, <3>1, <3>2 DEF IInv, KeysDecideOnce
    <3>4. r.key = s.key
      BY <2>1, <3>3
    <3>5. r.decision = s.decision
      BY <2>1, <3>1, <3>3 DEF Recorded, Decisions
    <3> QED BY <3>1, <3>3, <3>4, <3>5
  <2> QED BY <2>1, <2>2 DEF RepliesAgree
<1> QED BY <1>1, Invariant, PTL

(* No turn is committed between the draft of a correction and its          *)
(* acceptance.                                                             *)
THEOREM AcceptedFresh == Spec => AcceptFresh
<1>1. IInv /\ [Next]_vars => [FreshStep]_vars
  BY NextInv
<1>2. AcceptFresh <=> [][FreshStep]_vars
  BY PTL DEF AcceptFresh, FreshStep
<1> QED BY <1>1, <1>2, Invariant, PTL DEF Spec

(* Every table and coroutine keeps its type; the memory never runs ahead   *)
(* of the turns.                                                           *)
THEOREM TypeCorrect == Spec => []TypeOK
<1>1. IInv => TypeOK
  BY DEF IInv
<1> QED BY <1>1, Invariant, PTL

(* The narration of this module is one that Authoring allows: between the  *)
(* prompt and the commit of its turn no other turn is committed.           *)
THEOREM NarrationIsAuthoring == Spec => ImplementsAuthoring
<1>1. Init => Narrated!Init
  BY DEF Init, Narrated!Init
<1>2. [Next]_vars => [Narrated!Next]_(Narrated!authoringVars)
  <2> SUFFICES ASSUME [Next]_vars
               PROVE  [Narrated!Next]_(Narrated!authoringVars)
    OBVIOUS
  <2> USE DEF Narrated!Next, Narrated!authoringVars
  <2>1. CASE \E c \in Corrections : Draft(c) \/ Propose(c)
    BY <2>1 DEF Draft, Propose, narrationVars
  <2>2. CASE \E d \in Deciders : ReadTurns(d) \/ ReadMemory(d) \/ Decide(d)
    BY <2>2 DEF ReadTurns, ReadMemory, Decide, narrationVars
  <2>3. CASE BeginNarration
    BY <2>3 DEF BeginNarration, Narrated!Begin
  <2>4. CASE Assemble
    BY <2>4 DEF Assemble, Narrated!Ask
  <2>5. CASE Commit
    BY <2>5 DEF Commit, Narrated!Commit
  <2>6. CASE PromptTooLong \/ GiveUp \/ Restart
    BY <2>6 DEF PromptTooLong, GiveUp, Restart, Narrated!Stop
  <2>7. CASE AppendMemory \/ UNCHANGED vars
    BY <2>7 DEF AppendMemory, narrationVars, vars
  <2> QED BY <2>1, <2>2, <2>3, <2>4, <2>5, <2>6, <2>7 DEF Next
<1> QED BY <1>1, <1>2, PTL DEF Spec, ImplementsAuthoring, Narrated!Spec
=============================================================================
