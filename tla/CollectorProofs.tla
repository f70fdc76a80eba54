--------------------------- MODULE CollectorProofs ---------------------------
(* Proofs about module Collector, for any files, limits and bounds: there is   *)
(* no hole below the cursor, and no step of the collector leaves a done row    *)
(* without its file.                                                           *)
EXTENDS Collector, TLAPS

Texts == Files \cup {"text"}

\* Ids are posted in order, and what is archived or read has been posted.
PostedSound ==
    /\ \A i \in Ids : chat[i] = None <=> i > posted
    /\ \A i \in Archived : i <= posted
    /\ \A i \in Ids : buf[i] # None => i <= posted
    /\ cursor <= posted /\ top <= posted /\ at <= posted /\ edge <= posted

\* What a pass has in memory: in the forward pass everything up to its position
\* is archived or waits for the next commit; a service message never becomes
\* another; and what is confirmed deleted stays deleted.
PassSound ==
    /\ pc = "forward" =>
          /\ cursor <= at
          /\ \A i \in 1..at : Archivable(i) => i \in Archived \/ buf[i] \in Texts
    /\ \A i \in Ids : buf[i] = "service" => ~Archivable(i)
    /\ pc \in {"recover", "forget"} => \A i \in gone : chat[i] = "gone"

\* A transfer that has neither succeeded nor failed has an attempt left, and
\* the queue is of pending ones.
Closed == {"done", "failed"}
QueueSound ==
    /\ \A i \in Ids : rows[i].status \notin Closed => rows[i].tries < Attempts
    /\ pc \in {"media", "send", "sent"} => \A i \in queue : rows[i].status = "pending"
    /\ pc \in {"send", "sent"} => cur \in queue

\* fsck's plan spares the files of rows that stay done; a file in place is that
\* of its row, or was damaged since the run began.
PlanSound ==
    /\ pc = "reset" =>
          /\ \A i \in dead : Done(i)
          /\ \A i \in Ids : <<i, "file">> \in doomed => ~Done(i) \/ i \in dead
    /\ pc = "remove" => \A i \in Ids : <<i, "file">> \in doomed => ~Done(i)
    /\ pc = "sent" => disk[cur] = rows[cur].file \/ cur \in touched

IInv == TypeOK /\ PostedSound /\ CursorSound /\ PassSound /\ QueueSound /\ PlanSound

-----------------------------------------------------------------------------
(* The operators.                                                              *)

(* The facts about the constants the steps need, in the form they need them.   *)
LEMMA ConstantFacts ==
  /\ MaxId \in Nat /\ Limit \in Nat /\ MaxChanges \in Nat /\ MaxFaults \in Nat
  /\ Attempts \in Nat /\ Attempts > 0
  /\ None \notin Contents /\ None # "gone" /\ "gone" \notin Contents
  /\ "text" \notin Files /\ "service" \notin Files /\ None \notin Files
  /\ None \notin Texts /\ "service" \notin Texts /\ Texts \subseteq Contents
  /\ NoRow \in Row /\ TextRow \in Row /\ TextRow # NoRow
BY CollectorBounds, MediaBounds DEF Contents, Texts, NoRow, TextRow, Row

(* A stored message has a row, with an attempt left unless its transfer is     *)
(* over, and it is done only if it was done before with the same attachment.   *)
LEMMA ProjectFacts ==
  ASSUME NEW c \in Contents, NEW old \in Row,
         old.status \notin Closed => old.tries < Attempts
  PROVE  /\ Project(c, old) \in Row
         /\ Project(c, old) # NoRow
         /\ Project(c, old).status # "absent"
         /\ Project(c, old).status \notin Closed => Project(c, old).tries < Attempts
         /\ Project(c, old).status = "done" => Project(c, old) = old
BY ConstantFacts DEF Project, Row, NoRow, TextRow, Closed, Eligible, Contents

(* What a step may do to the rows: they stay well formed, no message is        *)
(* archived before it is posted, and no row becomes done.                      *)
RowsSound ==
    /\ rows' \in [Ids -> Row]
    /\ \A i \in Ids : rows'[i].status \notin Closed => rows'[i].tries < Attempts
    /\ \A i \in Ids : rows'[i] # NoRow => i <= posted
    /\ \A i \in Ids : rows'[i].status = "done" => rows'[i] = rows[i]
RowsKept == \A i \in Ids : rows[i] # NoRow => rows'[i] # NoRow

(* Storing what was read.                                                      *)
LEMMA StoredFacts ==
  ASSUME IInv, rows' = Stored
  PROVE  /\ RowsSound /\ RowsKept
         /\ \A i \in Ids : buf[i] \in Texts => rows'[i] # NoRow
<1>1. \A i \in Ids : rows'[i] = IF buf[i] \in {None, "service"} THEN rows[i]
                                ELSE Project(buf[i], rows[i])
  BY DEF Stored
<1>2. \A i \in Ids : /\ rows[i] \in Row
                     /\ rows[i].status \notin Closed => rows[i].tries < Attempts
                     /\ rows[i] # NoRow => i <= posted
                     /\ buf[i] # None => buf[i] \in Contents /\ i <= posted
  BY DEF IInv, TypeOK, QueueSound, PostedSound, Archived
<1>3. rows' = [i \in Ids |-> rows'[i]]
  BY DEF Stored
<1>4. \A i \in Ids : /\ rows'[i] \in Row
                     /\ rows'[i].status \notin Closed => rows'[i].tries < Attempts
                     /\ rows'[i] # NoRow => i <= posted
                     /\ rows'[i].status = "done" => rows'[i] = rows[i]
                     /\ rows[i] # NoRow => rows'[i] # NoRow
                     /\ buf[i] \in Texts => rows'[i] # NoRow
  <2> TAKE i \in Ids
  <2>1. CASE buf[i] \in {None, "service"}
    BY <2>1, <1>1, <1>2, ConstantFacts
  <2>2. CASE buf[i] \notin {None, "service"}
    BY <2>2, <1>1, <1>2, ProjectFacts
  <2> QED BY <2>1, <2>2
<1> QED BY <1>3, <1>4 DEF RowsSound, RowsKept

(* A failed attempt: the transfer stays pending or has failed for good.        *)
LEMMA FailureFacts ==
  ASSUME IInv, pc \in {"media", "send", "sent"}, NEW i \in queue, NEW left \in BOOLEAN,
         Failure(i, left)
  PROVE  /\ RowsSound /\ RowsKept /\ queue' \subseteq queue \ {i}
         /\ \A j \in Ids \ {i} : rows'[j] = rows[j]
         /\ flawed' \in BOOLEAN /\ pc' = "media" /\ cur' = None
<1>1. i \in Ids /\ rows[i] \in Row /\ rows[i].status = "pending" /\ rows[i].tries < Attempts
      /\ i <= posted /\ rows \in [Ids -> Row]
  BY DEF IInv, TypeOK, QueueSound, PostedSound, Archived, Closed, NoRow
<1> DEFINE status == IF rows[i].tries + 1 >= Attempts THEN "failed" ELSE "pending"
           row == [file |-> rows[i].file, tries |-> rows[i].tries + 1, status |-> status]
<1>2. rows' = [rows EXCEPT ![i] = row]
  BY <1>1 DEF Failure
<1>3. row \in Row /\ row # NoRow /\ row.status # "done"
      /\ (row.status \notin Closed => row.tries < Attempts)
  BY <1>1, ConstantFacts DEF Row, NoRow, Closed
<1> HIDE DEF row
<1>4. RowsSound /\ RowsKept /\ \A j \in Ids \ {i} : rows'[j] = rows[j]
  BY <1>1, <1>2, <1>3 DEF RowsSound, RowsKept, IInv, PostedSound, QueueSound, Archived
<1> QED BY <1>4 DEF Failure, IInv, TypeOK

(* A message fetched again before its attachment is transferred.               *)
LEMMA FetchedFacts ==
  ASSUME IInv, NEW i \in Ids, Fetched(i)
  PROVE  /\ i \in queue /\ rows[i].status = "pending"
         /\ RowsSound /\ RowsKept
         /\ \A j \in Ids \ {i} : rows'[j] = rows[j]
<1>1. i \in queue /\ rows[i] \in Row /\ rows[i].status = "pending"
      /\ (rows[i].status \notin Closed => rows[i].tries < Attempts)
      /\ i <= posted /\ rows \in [Ids -> Row] /\ chat[i] \in Contents
  BY DEF IInv, TypeOK, QueueSound, PostedSound, Archived, Closed, NoRow, Fetched, First, Live
<1>2. rows' = [rows EXCEPT ![i] = Project(chat[i], rows[i])]
  BY DEF Fetched
<1>3. /\ Project(chat[i], rows[i]) \in Row /\ Project(chat[i], rows[i]) # NoRow
      /\ Project(chat[i], rows[i]).status = "done" => Project(chat[i], rows[i]) = rows[i]
      /\ Project(chat[i], rows[i]).status \notin Closed
           => Project(chat[i], rows[i]).tries < Attempts
  BY <1>1, ProjectFacts
<1> QED BY <1>1, <1>2, <1>3 DEF RowsSound, RowsKept, IInv, PostedSound, QueueSound, Archived

-----------------------------------------------------------------------------
(* Steps that leave the rows alone.                                            *)

(* Telegram: ids come in order, and what is deleted stays deleted.             *)
LEMMA OutsideIInv ==
  ASSUME IInv, (Post \/ Change) /\ UNCHANGED mediaVars
  PROVE  IInv'
<1>1. CASE Post /\ UNCHANGED mediaVars
  BY <1>1, ConstantFacts DEF Post, mediaVars, passVars, IInv, TypeOK, PostedSound, CursorSound,
    PassSound, QueueSound, PlanSound, Archived, Archivable, Live, Done, Ids, Contents
<1>2. CASE Change /\ UNCHANGED mediaVars
  <2>1. PICK i \in 1..posted, c \in Files \cup {"text", "gone"} :
          /\ Live(i) /\ chat[i] # c /\ (chat[i] = "service" => c = "gone")
          /\ chat' = [chat EXCEPT ![i] = c]
          /\ touched' = IF Working THEN touched \cup {i} ELSE touched
    BY <1>2 DEF Change
  <2>2. i \in Ids /\ c # None /\ chat[i] # None /\ chat[i] # "gone"
    BY <2>1, ConstantFacts DEF IInv, TypeOK, Ids, Live, Contents
  <2>3. TypeOK'
    BY <1>2, <2>1, <2>2, ConstantFacts DEF Change, mediaVars, passVars, IInv, TypeOK, Contents
  <2>4. PostedSound'
    BY <1>2, <2>1, <2>2 DEF Change, mediaVars, passVars, IInv, TypeOK, PostedSound, Archived
  <2>5. \A j \in Ids : Archivable(j)' => Archivable(j)
    BY <2>1, <2>2, ConstantFacts DEF Archivable, Live, Contents, IInv, TypeOK
  <2>6. CursorSound'
    BY <1>2, <2>5, ConstantFacts DEF Change, IInv, TypeOK, CursorSound, Archived, Ids
  <2>8. PassSound'
    <3>1. \A j \in Ids : chat[j] = "gone" => chat'[j] = "gone"
      BY <2>1, <2>2 DEF IInv, TypeOK
    <3>2. \A j \in 1..at : j \in Ids
      BY ConstantFacts DEF IInv, TypeOK, Ids
    <3> QED
      BY <1>2, <2>5, <3>1, <3>2 DEF Change, passVars, IInv, TypeOK, PassSound, Archived
  <2>7. QueueSound' /\ PlanSound'
    BY <1>2, <2>1 DEF Change, mediaVars, IInv, QueueSound, PlanSound, Done
  <2> QED BY <2>3, <2>4, <2>6, <2>7, <2>8 DEF IInv
<1> QED BY <1>1, <1>2

(* Reading: between two positions of a pass there is nothing to archive.       *)
LEMMA ReadIInv ==
  ASSUME IInv, (Read \/ Omit) /\ UNCHANGED mediaVars
  PROVE  IInv'
<1>1. CASE Read /\ UNCHANGED mediaVars
  BY <1>1, ConstantFacts DEF Read, mediaVars, IInv, TypeOK, PostedSound, CursorSound,
    PassSound, QueueSound, PlanSound, Archived, Archivable, Live, Done, Ids, Contents, Texts,
    InTurn, Ahead
<1>2. CASE Omit /\ UNCHANGED mediaVars
  BY <1>2, ConstantFacts DEF Omit, mediaVars, IInv, TypeOK, PostedSound, CursorSound,
    PassSound, QueueSound, PlanSound, Archived, Archivable, Live, Done, Ids, Contents, Texts,
    InTurn, Ahead
<1> QED BY <1>1, <1>2

(* Point checks and failures of a chat.                                        *)
LEMMA CheckIInv ==
  ASSUME IInv, (Verify \/ ChatFails) /\ UNCHANGED mediaVars
  PROVE  IInv'
<1>1. CASE Verify /\ UNCHANGED mediaVars
  <2>1. gone' \subseteq Ids /\ \A i \in gone' : chat[i] = "gone"
    <3>1. /\ gone' \subseteq Archived /\ Archived \subseteq Ids
          /\ \A i \in gone' : chat[i] \notin Contents
      BY <1>1 DEF Verify, Archived, Live, Candidates
    <3>2. \A i \in Archived : chat[i] # None
      BY DEF IInv, TypeOK, PostedSound, Archived, Ids
    <3> QED BY <3>1, <3>2 DEF IInv, TypeOK
  <2>2. /\ \A i \in Ids : buf'[i] # None =>
             i \in Archived /\ buf'[i] = chat[i] /\ chat[i] \in Contents
        /\ buf' \in [Ids -> Contents \cup {None}]
    BY <1>1, ConstantFacts DEF Verify, Archived, Live, Candidates
  <2>3. TypeOK'
    BY <1>1, <2>1, <2>2 DEF Verify, mediaVars, IInv, TypeOK, Contents
  <2>4. PostedSound' /\ CursorSound'
    BY <1>1, <2>2 DEF Verify, IInv, PostedSound, CursorSound, Archived, Archivable, Live
  <2>5. PassSound'
    <3>1. pc' = "recover" /\ chat' = chat /\ None # "service"
      BY <1>1, CollectorBounds DEF Verify
    <3>2. \A i \in Ids : buf'[i] = "service" => chat[i] = "service"
      BY <2>2, <3>1
    <3> QED BY <2>1, <3>1, <3>2 DEF PassSound, Archivable
  <2>6. QueueSound' /\ PlanSound'
    BY <1>1 DEF Verify, mediaVars, IInv, QueueSound, PlanSound, Done
  <2> QED BY <2>3, <2>4, <2>5, <2>6 DEF IInv
<1>2. CASE ChatFails /\ UNCHANGED mediaVars
  BY <1>2, ConstantFacts DEF ChatFails, mediaVars, IInv, TypeOK, PostedSound, CursorSound,
    PassSound, QueueSound, PlanSound, Archived, Archivable, Live, Done, Ids, Contents, Empty
<1> QED BY <1>1, <1>2

(* A step that leaves rows, chat and cursor alone and begins no pass.          *)
LEMMA StillFacts ==
  ASSUME IInv, UNCHANGED <<posted, chat, rows, cursor>>,
         pc' \notin {"forward", "recover", "forget"},
         top' <= posted, at' <= posted, edge' <= posted,
         buf' = buf \/ buf' = Empty
  PROVE  PostedSound' /\ CursorSound' /\ PassSound'
<1>1. \A i \in Ids : (buf'[i] = buf[i] \/ buf'[i] = None) /\ None # "service"
  BY CollectorBounds DEF Empty
<1>2. PostedSound'
  BY <1>1 DEF IInv, PostedSound, Archived
<1>3. CursorSound'
  BY DEF IInv, CursorSound, Archived, Archivable, Live
<1>4. PassSound'
  BY <1>1 DEF IInv, PassSound, Archivable, Live
<1> QED BY <1>2, <1>3, <1>4

(* A run that is over has well-formed nothing in memory.                       *)
LEMMA RunOverType ==
  ASSUME RunOver
  PROVE  /\ pc' = "idle" /\ mode' = "run" /\ scope' = "media"
         /\ top' \in 0..MaxId /\ at' \in 0..MaxId /\ room' \in 0..Limit
         /\ buf' \in [Ids -> Contents \cup {None}]
         /\ seen' \subseteq Ids /\ gone' \subseteq Ids /\ touched' \subseteq Ids
         /\ flawed' \in BOOLEAN /\ sound' \in BOOLEAN
         /\ dead' \subseteq Ids /\ doomed' \subseteq Removals
         /\ queue' \subseteq Ids /\ cur' \in Ids \cup {None}
<1>1. Empty \in [Ids -> Contents \cup {None}]
  BY DEF Empty
<1>2. 0 \in 0..MaxId /\ 0 \in 0..Limit
  BY ConstantFacts
<1> QED BY <1>1, <1>2 DEF RunOver

(* A run begins, ends or dies.                                                 *)
LEMMA RunIInv ==
  ASSUME IInv, Begin \/ BeginRefused \/ Finish \/ Crash
  PROVE  IInv'
<1>1. CASE Begin
  <2>1. TypeOK'
    BY <1>1, ConstantFacts DEF Begin, mediaVars, IInv, TypeOK, PostedSound
  <2>2. PostedSound' /\ CursorSound'
    BY <1>1 DEF Begin, IInv, TypeOK, PostedSound, CursorSound, Archived, Archivable, Live
  <2>3. PassSound'
    BY <1>1 DEF Begin, IInv, TypeOK, CursorSound, PassSound, Archived, Archivable, Live
  <2>4. QueueSound' /\ PlanSound'
    BY <1>1 DEF Begin, mediaVars, IInv, QueueSound, PlanSound, Done
  <2> QED BY <2>1, <2>2, <2>3, <2>4 DEF IInv
<1>2. CASE BeginRefused
  <2>1. TypeOK'
    BY <1>2, ConstantFacts DEF BeginRefused, mediaVars, passVars, IInv, TypeOK
  <2>2. PostedSound' /\ CursorSound' /\ PassSound'
    BY <1>2, StillFacts DEF BeginRefused, passVars, IInv, PostedSound
  <2>3. QueueSound' /\ PlanSound'
    BY <1>2 DEF BeginRefused, mediaVars, IInv, QueueSound, PlanSound, Done
  <2> QED BY <2>1, <2>2, <2>3 DEF IInv
<1>3. CASE Finish \/ Crash
  <2>1. TypeOK'
    <3>1. last' \in {"none", "running", "ok", "partial", "failed"}
      BY <1>3 DEF Finish, Crash, IInv, TypeOK
    <3>2. faults' \in 0..MaxFaults
      BY <1>3, ConstantFacts DEF Finish, Crash, IInv, TypeOK
    <3> QED BY <1>3, <3>1, <3>2, RunOverType DEF Finish, Crash, IInv, TypeOK
  <2>2. PostedSound' /\ CursorSound' /\ PassSound'
    BY <1>3, StillFacts DEF Finish, Crash, RunOver, IInv, TypeOK, PostedSound
  <2>3. QueueSound' /\ PlanSound'
    BY <1>3 DEF Finish, Crash, RunOver, IInv, QueueSound, PlanSound
  <2> QED BY <2>1, <2>2, <2>3 DEF IInv
<1> QED BY <1>1, <1>2, <1>3

(* Commands of the owner, and damage.                                          *)
LEMMA OwnerIInv ==
  ASSUME IInv, Fsck \/ Purge \/ Damage
  PROVE  IInv'
<1>1. CASE Fsck \/ Purge
  <2>1. TypeOK'
    BY <1>1, ConstantFacts DEF Fsck, Purge, Removals, mediaVars, passVars, IInv, TypeOK
  <2>2. PostedSound' /\ CursorSound' /\ PassSound'
    BY <1>1, StillFacts DEF Fsck, Purge, passVars, IInv, PostedSound
  <2>3. QueueSound' /\ PlanSound'
    BY <1>1 DEF Fsck, Purge, IInv, QueueSound, PlanSound
  <2> QED BY <2>1, <2>2, <2>3 DEF IInv
<1>2. CASE Damage
  <2>1. PICK i \in Ids, c \in {None, Broken} :
          /\ disk' = [disk EXCEPT ![i] = c]
          /\ touched' = IF Working THEN touched \cup {i} ELSE touched
    BY <1>2 DEF Damage
  <2>2. TypeOK'
    BY <1>2, <2>1, ConstantFacts DEF Damage, passVars, IInv, TypeOK
  <2>3. PostedSound' /\ CursorSound' /\ PassSound'
    BY <1>2 DEF Damage, passVars, IInv, PostedSound, CursorSound, PassSound, Archived,
      Archivable, Live
  <2>4. QueueSound' /\ PlanSound'
    BY <1>2, <2>1 DEF Damage, IInv, TypeOK, QueueSound, PlanSound, Done, Working
  <2> QED BY <2>2, <2>3, <2>4 DEF IInv
<1> QED BY <1>1, <1>2

(* What fsck leaves, in a run or in a command of its own.                      *)
LEMMA AfterFsckIInv ==
  ASSUME IInv, NEW ok \in BOOLEAN, AfterFsck(ok), faults' \in 0..MaxFaults,
         UNCHANGED <<posted, chat, rows, cursor, edge, changes, disk, parts>>
  PROVE  IInv'
<1>1. TypeOK'
  <2>1. CASE mode = "run"
    BY <2>1 DEF AfterFsck, passVars, IInv, TypeOK
  <2>2. CASE mode # "run"
    BY <2>2, RunOverType DEF AfterFsck, IInv, TypeOK
  <2> QED BY <2>1, <2>2
<1>2. PostedSound' /\ CursorSound' /\ PassSound'
  BY StillFacts DEF AfterFsck, RunOver, passVars, IInv, TypeOK, PostedSound
<1>3. QueueSound' /\ PlanSound'
  BY DEF AfterFsck, RunOver, IInv, QueueSound, PlanSound
<1> QED BY <1>1, <1>2, <1>3 DEF IInv

(* fsck up to its plan, which spares every file of a row that stays done.      *)
LEMMA SurveyIInv ==
  ASSUME IInv, Survey \/ SurveyMass \/ FsckFails
  PROVE  IInv'
<1>1. CASE Survey
  <2>1. TypeOK'
    BY <1>1 DEF Survey, Surveyed, Removals, passVars, IInv, TypeOK
  <2>2. PostedSound' /\ CursorSound' /\ PassSound'
    BY <1>1, StillFacts DEF Survey, passVars, IInv, PostedSound
  <2>3. QueueSound' /\ PlanSound'
    BY <1>1 DEF Survey, Surveyed, IInv, QueueSound, PlanSound, Done
  <2> QED BY <2>1, <2>2, <2>3 DEF IInv
<1>2. CASE SurveyMass
  BY <1>2, AfterFsckIInv DEF SurveyMass, IInv, TypeOK
<1>3. CASE FsckFails
  <2>1. faults' \in 0..MaxFaults
    BY <1>3, ConstantFacts DEF FsckFails, IInv, TypeOK
  <2> QED BY <1>3, <2>1, AfterFsckIInv DEF FsckFails
<1> QED BY <1>1, <1>2, <1>3

(* fsck removes what it planned, or leaves it.                                 *)
LEMMA RemoveIInv ==
  ASSUME IInv, Remove \/ RemoveFails \/ RemoveEnds
  PROVE  IInv'
<1>1. CASE Remove \/ RemoveFails
  <2>1. PICK f \in doomed :
          /\ doomed' = doomed \ {f}
          /\ Removed(f) \/ UNCHANGED <<disk, parts>>
    BY <1>1 DEF Remove, RemoveFails
  <2>2. disk' \in [Ids -> Files \cup {None, Broken}] /\ parts' \subseteq Ids
    BY <2>1 DEF Removed, IInv, TypeOK
  <2>3. TypeOK'
    <3>1. doomed' \subseteq Removals
      <4>1. doomed \subseteq Removals
        BY DEF IInv, TypeOK
      <4> QED BY <2>1, <4>1
    <3>2. faults' \in 0..MaxFaults /\ sound' \in BOOLEAN
      <4>1. CASE Remove
        BY <4>1 DEF Remove, textVars, IInv, TypeOK
      <4>2. CASE RemoveFails
        <5>1. faults \in 0..MaxFaults
          BY DEF IInv, TypeOK
        <5>2. faults' \in 0..MaxFaults
          BY <4>2, <5>1, ConstantFacts DEF RemoveFails
        <5>3. sound' \in BOOLEAN
          BY <4>2 DEF RemoveFails
        <5> QED BY <5>2, <5>3
      <4> QED BY <1>1, <4>1, <4>2
    <3> QED
      BY <1>1, <2>2, <3>1, <3>2 DEF Remove, RemoveFails, textVars, passVars, IInv, TypeOK
  <2>4. PostedSound' /\ CursorSound' /\ PassSound'
    BY <1>1, StillFacts DEF Remove, RemoveFails, textVars, passVars, IInv, PostedSound
  <2>5. QueueSound' /\ PlanSound'
    BY <1>1, <2>1 DEF Remove, RemoveFails, textVars, IInv, QueueSound, PlanSound, Done
  <2> QED BY <2>3, <2>4, <2>5 DEF IInv
<1>2. CASE RemoveEnds
  BY <1>2, AfterFsckIInv DEF RemoveEnds, IInv, TypeOK
<1> QED BY <1>1, <1>2

-----------------------------------------------------------------------------
(* Steps that write rows.                                                      *)

(* The state a row-writing step leaves alone, seen from the invariant.         *)
LEMMA WriteFacts ==
  ASSUME IInv, RowsSound, RowsKept, UNCHANGED <<posted, chat, cursor>>,
         pc' \notin {"forward", "recover", "forget"},
         UNCHANGED <<top, at, edge>>, buf' = buf \/ buf' = Empty
  PROVE  PostedSound' /\ CursorSound' /\ PassSound'
<1>1. \A i \in Ids : (buf'[i] = buf[i] \/ buf'[i] = None) /\ None # "service"
  BY CollectorBounds DEF Empty
<1>2. PostedSound'
  BY <1>1 DEF IInv, PostedSound, Archived, RowsSound
<1>3. CursorSound'
  BY ConstantFacts DEF IInv, TypeOK, CursorSound, Archived, Archivable, Live, RowsKept, Ids
<1>4. PassSound'
  BY <1>1 DEF IInv, PassSound, Archivable, Live
<1> QED BY <1>2, <1>3, <1>4

(* A commit of the forward pass takes the cursor to where everything below is  *)
(* archived; one of the refresh pass leaves the cursor.                        *)
LEMMA CommitIInv ==
  ASSUME IInv, (FullBatch \/ OverLimit \/ ForwardDone \/ RefreshDone \/ Recover)
               /\ UNCHANGED mediaVars
  PROVE  IInv'
<1>1. Commit /\ pc \in {"forward", "refresh", "recover"}
      /\ UNCHANGED <<posted, chat, top, edge>>
  BY DEF FullBatch, OverLimit, ForwardDone, RefreshDone, Recover
<1>2. /\ RowsSound /\ RowsKept
      /\ \A i \in Ids : buf[i] \in Texts => rows'[i] # NoRow
      /\ buf' = Empty
  BY <1>1, StoredFacts DEF Commit
<1>3. /\ cursor' \in 0..MaxId /\ cursor' <= posted
      /\ pc = "forward" => cursor' = at
      /\ pc # "forward" => cursor' = cursor
  BY <1>1, ConstantFacts DEF Commit, Later, IInv, TypeOK, PostedSound, PassSound
<1>4. Empty \in [Ids -> Contents \cup {None}]
  BY DEF Empty
<1>5. TypeOK'
  <2>1. pc' \in {"forward", "refresh", "verify", "forget", "survey"} /\ at' \in {at, edge}
        /\ seen' \in {seen, {}} /\ flawed' \in {flawed, TRUE}
        /\ UNCHANGED <<last, mode, scope, room, gone, touched, changes, faults, mediaVars>>
    BY DEF FullBatch, OverLimit, ForwardDone, RefreshDone, Recover
  <2>2. UNCHANGED mediaVars
    OBVIOUS
  <2>3. /\ posted' \in 0..MaxId /\ chat' \in [Ids -> Contents \cup {None, "gone"}]
        /\ top' \in 0..MaxId /\ edge' \in 0..MaxId /\ at' \in 0..MaxId
        /\ last' \in {"none", "running", "ok", "partial", "failed"}
        /\ mode' \in {"run", "fsck", "confirm", "purge"} /\ scope' \in {"media", "text", "refused"}
        /\ room' \in 0..Limit /\ seen' \subseteq Ids /\ gone' \subseteq Ids
        /\ touched' \subseteq Ids /\ flawed' \in BOOLEAN
    BY <1>1, <2>1 DEF IInv, TypeOK
  <2>4. /\ changes' \in 0..MaxChanges /\ faults' \in 0..MaxFaults
        /\ disk' \in [Ids -> Files \cup {None, Broken}] /\ parts' \subseteq Ids
        /\ dead' \subseteq Ids /\ doomed' \subseteq Removals /\ sound' \in BOOLEAN
        /\ queue' \subseteq Ids /\ cur' \in Ids \cup {None}
    BY <2>1, <2>2 DEF mediaVars, IInv, TypeOK
  <2>5. rows' \in [Ids -> Row] /\ buf' \in [Ids -> Contents \cup {None}]
    BY <1>2, <1>4 DEF RowsSound
  <2> QED BY <1>3, <2>1, <2>3, <2>4, <2>5 DEF TypeOK
<1>6. at' <= posted
  BY DEF FullBatch, OverLimit, ForwardDone, RefreshDone, Recover, IInv, PostedSound
<1>7. PostedSound'
  BY <1>1, <1>2, <1>3, <1>6 DEF RowsSound, Empty, IInv, PostedSound, Archived
<1>8. \A i \in 1..cursor' : Archivable(i) => i \in Ids /\ rows'[i] # NoRow
  <2>1. \A i \in 1..cursor' : i \in Ids
    BY <1>3, ConstantFacts DEF Ids
  <2>2. CASE pc = "forward"
    BY <1>2, <1>3, <2>1, <2>2 DEF IInv, PassSound, Archived, RowsKept
  <2>3. CASE pc # "forward"
    BY <1>2, <1>3, <2>1, <2>3 DEF IInv, CursorSound, Archived, RowsKept
  <2> QED BY <2>2, <2>3
<1>9. CursorSound'
  BY <1>1, <1>8 DEF CursorSound, Archived, Archivable, Live
<1>10. PassSound'
  <2>1. \A i \in Ids : buf'[i] # "service"
    BY <1>2, ConstantFacts DEF Empty, Contents
  <2>2. pc' = "forward" => pc = "forward" /\ at' = at
    BY DEF FullBatch, OverLimit, ForwardDone, RefreshDone, Recover
  <2>3. pc' \in {"recover", "forget"} => pc = "recover" /\ gone' = gone
    BY DEF FullBatch, OverLimit, ForwardDone, RefreshDone, Recover
  <2>4. pc' = "forward" => cursor' <= at'
    BY <1>3, <2>2 DEF IInv, TypeOK
  <2> QED
    BY <1>1, <1>3, <1>8, <2>1, <2>2, <2>3, <2>4 DEF IInv, PassSound, Archived, Archivable, Live
<1>11. QueueSound' /\ PlanSound'
  <2>1. pc' \in {"forward", "refresh", "verify", "forget", "survey"}
    BY DEF FullBatch, OverLimit, ForwardDone, RefreshDone, Recover
  <2> QED BY <1>2, <2>1 DEF RowsSound, QueueSound, PlanSound
<1> QED BY <1>5, <1>7, <1>9, <1>10, <1>11 DEF IInv

(* Only messages Telegram has deleted, or a whole chat, are forgotten.         *)
LEMMA ForgetIInv ==
  ASSUME IInv, (DeleteConfirmed /\ UNCHANGED mediaVars) \/ PurgeRows
  PROVE  IInv'
<1>1. CASE DeleteConfirmed /\ UNCHANGED mediaVars
  <2>1. /\ rows' \in [Ids -> Row]
        /\ \A i \in Ids : rows'[i] = IF i \in gone THEN NoRow ELSE rows[i]
    BY <1>1, ConstantFacts DEF DeleteConfirmed, IInv, TypeOK
  <2>2. TypeOK'
    BY <1>1, <2>1 DEF DeleteConfirmed, mediaVars, passVars, IInv, TypeOK
  <2>3. \A i \in gone : ~Archivable(i)
    BY <1>1, ConstantFacts DEF DeleteConfirmed, IInv, PassSound, Archivable, Live
  <2>4. PostedSound'
    BY <1>1, <2>1 DEF DeleteConfirmed, passVars, IInv, PostedSound, Archived
  <2>5. CursorSound'
    BY <1>1, <2>1, <2>3, ConstantFacts DEF DeleteConfirmed, passVars, IInv, TypeOK, CursorSound,
      Archived, Archivable, Live, Ids
  <2>6. PassSound'
    BY <1>1 DEF DeleteConfirmed, passVars, IInv, PassSound, Archivable, Live
  <2>7. QueueSound' /\ PlanSound'
    BY <1>1, <2>1, ConstantFacts DEF DeleteConfirmed, IInv, QueueSound, PlanSound, NoRow
  <2> QED BY <2>2, <2>4, <2>5, <2>6, <2>7 DEF IInv
<1>2. CASE PurgeRows
  <2>1. rows' \in [Ids -> Row] /\ \A i \in Ids : rows'[i] = NoRow
    BY <1>2, ConstantFacts DEF PurgeRows
  <2>2. TypeOK'
    BY <1>2, <2>1, ConstantFacts DEF PurgeRows, mediaVars, passVars, IInv, TypeOK
  <2>3. PostedSound' /\ CursorSound'
    BY <1>2, <2>1 DEF PurgeRows, passVars, IInv, TypeOK, PostedSound, CursorSound, Archived
  <2>4. PassSound'
    BY <1>2 DEF PurgeRows, passVars, IInv, PassSound, Archivable, Live
  <2>5. QueueSound' /\ PlanSound'
    BY <1>2, <2>1, ConstantFacts DEF PurgeRows, QueueSound, PlanSound, NoRow, Done
  <2> QED BY <2>2, <2>3, <2>4, <2>5 DEF IInv
<1> QED BY <1>1, <1>2

(* fsck's reset makes every row it lost the file of pending again.             *)
LEMMA ResetIInv ==
  ASSUME IInv, ResetDone
  PROVE  IInv'
<1>1. /\ rows' = [i \in Ids |-> rows'[i]]
      /\ \A i \in Ids : rows'[i] = IF i \in dead
                                    THEN [file |-> rows[i].file, status |-> "pending", tries |-> 0]
                                    ELSE rows[i]
  BY DEF ResetDone
<1>2. \A i \in dead : rows[i].file \in Files \cup {None} /\ rows[i].status = "done"
                      /\ rows[i] # NoRow
  BY DEF ResetDone, IInv, TypeOK, Row, PlanSound, Done, NoRow
<1>3. \A i \in Ids :
        /\ rows'[i] \in Row
        /\ rows'[i].status \notin Closed => rows'[i].tries < Attempts
        /\ rows'[i] # NoRow <=> rows[i] # NoRow
        /\ rows'[i].status = "done" => rows'[i] = rows[i] /\ i \notin dead
  <2> TAKE i \in Ids
  <2>1. CASE i \in dead
    BY <2>1, <1>1, <1>2, ConstantFacts DEF Row, NoRow, Closed
  <2>2. CASE i \notin dead
    BY <2>2, <1>1 DEF IInv, TypeOK, QueueSound
  <2> QED BY <2>1, <2>2
<1>4. RowsSound /\ RowsKept
  BY <1>1, <1>3 DEF RowsSound, RowsKept, IInv, PostedSound, Archived
<1>5. TypeOK'
  BY <1>4 DEF ResetDone, RowsSound, mediaVars, passVars, IInv, TypeOK
<1>6. PostedSound' /\ CursorSound' /\ PassSound'
  BY <1>4, WriteFacts DEF ResetDone, passVars
<1>7. QueueSound' /\ PlanSound'
  BY <1>3 DEF ResetDone, mediaVars, IInv, QueueSound, PlanSound, Done
<1> QED BY <1>5, <1>6, <1>7 DEF IInv

(* The stage of attachments begins; only unfinished rows change.               *)
LEMMA RecalculateIInv ==
  ASSUME IInv, Recalculate
  PROVE  IInv'
<1>1. /\ rows' = [i \in Ids |-> rows'[i]]
      /\ \A i \in Ids : rows'[i] = IF scope # "refused" /\ rows[i].status \in Unfinished
                                    THEN [rows[i] EXCEPT !.status = Eligible] ELSE rows[i]
  BY DEF Recalculate
<1>2. \A i \in Ids :
        /\ rows'[i] \in Row
        /\ rows'[i].status \notin Closed => rows'[i].tries < Attempts
        /\ rows'[i] # NoRow => rows[i] # NoRow
        /\ rows[i] # NoRow => rows'[i] # NoRow
        /\ rows'[i].status = "done" => rows'[i] = rows[i]
  <2> TAKE i \in Ids
  <2>1. rows[i] \in Row /\ (rows[i].status \notin Closed => rows[i].tries < Attempts)
    BY DEF IInv, TypeOK, QueueSound
  <2>2. CASE rows[i].status \in Unfinished
    BY <2>1, <2>2, <1>1 DEF Row, NoRow, Closed, Unfinished, Eligible
  <2>3. CASE rows[i].status \notin Unfinished
    BY <2>1, <2>3, <1>1
  <2> QED BY <2>2, <2>3
<1>3. RowsSound /\ RowsKept
  BY <1>1, <1>2 DEF RowsSound, RowsKept, IInv, PostedSound, Archived
<1>4. queue' \subseteq Ids /\ \A i \in queue' : rows'[i].status = "pending"
  BY DEF Recalculate
<1>5. TypeOK'
  BY <1>3, <1>4 DEF Recalculate, RowsSound, passVars, IInv, TypeOK
<1>6. PostedSound' /\ CursorSound' /\ PassSound'
  BY <1>3, WriteFacts DEF Recalculate, passVars
<1>7. QueueSound' /\ PlanSound'
  BY <1>3, <1>4 DEF Recalculate, RowsSound, QueueSound, PlanSound
<1> QED BY <1>5, <1>6, <1>7 DEF IInv

(* Fetching a message again, whatever follows it.                              *)
LEMMA FetchIInv ==
  ASSUME IInv, NotPending \/ Defer \/ OpenPart
  PROVE  IInv'
<1>1. CASE NotPending
  <2>1. PICK i \in Ids : Fetched(i) /\ queue' = queue \ {i}
    BY <1>1 DEF NotPending
  <2>2. RowsSound /\ RowsKept /\ \A j \in Ids \ {i} : rows'[j] = rows[j]
    BY <2>1, FetchedFacts
  <2>3. TypeOK'
    BY <1>1, <2>1, <2>2 DEF NotPending, RowsSound, passVars, IInv, TypeOK
  <2>4. PostedSound' /\ CursorSound' /\ PassSound'
    BY <1>1, <2>1, <2>2, WriteFacts DEF NotPending, Fetched, passVars
  <2>5. QueueSound' /\ PlanSound'
    BY <1>1, <2>1, <2>2 DEF NotPending, Fetched, RowsSound, IInv, TypeOK, QueueSound, PlanSound
  <2> QED BY <2>3, <2>4, <2>5 DEF IInv
<1>2. CASE Defer
  <2>1. RowsSound /\ RowsKept
    <3>1. CASE UNCHANGED rows
      BY <3>1 DEF RowsSound, RowsKept, IInv, TypeOK, QueueSound, PostedSound, Archived
    <3>2. CASE \E i \in Ids : Fetched(i)
      BY <3>2, FetchedFacts
    <3> QED BY <1>2, <3>1, <3>2 DEF Defer
  <2>2. TypeOK'
    BY <1>2, <2>1 DEF Defer, RowsSound, passVars, IInv, TypeOK
  <2>3. PostedSound' /\ CursorSound' /\ PassSound'
    BY <1>2, <2>1, WriteFacts DEF Defer, passVars
  <2>4. QueueSound' /\ PlanSound'
    BY <1>2, <2>1 DEF Defer, RowsSound, QueueSound, PlanSound
  <2> QED BY <2>2, <2>3, <2>4 DEF IInv
<1>3. CASE OpenPart
  <2>1. PICK i \in Ids : Fetched(i) /\ rows'[i].status = "pending" /\ cur' = i
                        /\ parts' = parts \cup {i}
    BY <1>3 DEF OpenPart
  <2>2. RowsSound /\ RowsKept /\ i \in queue /\ \A j \in Ids \ {i} : rows'[j] = rows[j]
    BY <2>1, FetchedFacts
  <2>3. TypeOK'
    BY <1>3, <2>1, <2>2 DEF OpenPart, RowsSound, passVars, IInv, TypeOK
  <2>4. PostedSound' /\ CursorSound' /\ PassSound'
    BY <1>3, <2>2, WriteFacts DEF OpenPart, passVars
  <2>5. QueueSound' /\ PlanSound'
    BY <1>3, <2>1, <2>2 DEF OpenPart, Fetched, RowsSound, IInv, TypeOK, QueueSound, PlanSound
  <2> QED BY <2>3, <2>4, <2>5 DEF IInv
<1> QED BY <1>1, <1>2, <1>3

(* A transfer that does not fit skips whatever is pending.                     *)
LEMMA OverQuotaFacts ==
  ASSUME IInv, OverQuota
  PROVE  RowsSound /\ RowsKept
<1>1. PICK i \in Ids :
        /\ First(i) /\ Live(i)
        /\ rows' = [j \in Ids |->
              IF j = i THEN [Project(chat[i], rows[i]) EXCEPT !.status = "skipped"]
              ELSE IF rows[j].status = "pending" THEN [rows[j] EXCEPT !.status = "skipped"]
              ELSE rows[j]]
        /\ Project(chat[i], rows[i]).status = "pending"
  BY DEF OverQuota
<1>2. pc = "media" /\ chat[i] \in Contents /\ i \in queue
  BY <1>1 DEF OverQuota, Live, First
<1>3. \A j \in Ids : rows[j] \in Row /\ (rows[j].status \notin Closed => rows[j].tries < Attempts)
                     /\ (rows[j] # NoRow => j <= posted)
  BY DEF IInv, TypeOK, QueueSound, PostedSound, Archived
<1>4. /\ Project(chat[i], rows[i]) \in Row
      /\ Project(chat[i], rows[i]).status \notin Closed
           => Project(chat[i], rows[i]).tries < Attempts
  BY <1>2, <1>3, ProjectFacts
<1>5. i <= posted
  BY <1>2, <1>3 DEF IInv, QueueSound, NoRow
<1> DEFINE row == Project(chat[i], rows[i])
<1> HIDE DEF row
<1>6. /\ [row EXCEPT !.status = "skipped"] \in Row
      /\ [row EXCEPT !.status = "skipped"] # NoRow
      /\ [row EXCEPT !.status = "skipped"].status = "skipped"
      /\ [row EXCEPT !.status = "skipped"].tries < Attempts
  BY <1>1, <1>4 DEF row, Row, NoRow, Closed
<1>7. \A j \in Ids : rows[j].status = "pending" =>
        /\ [rows[j] EXCEPT !.status = "skipped"] \in Row
        /\ [rows[j] EXCEPT !.status = "skipped"] # NoRow
        /\ [rows[j] EXCEPT !.status = "skipped"].status = "skipped"
        /\ [rows[j] EXCEPT !.status = "skipped"].tries < Attempts
        /\ rows[j] # NoRow
  BY <1>3 DEF Row, NoRow, Closed
<1>8. \A j \in Ids :
        /\ rows'[j] \in Row
        /\ rows'[j].status \notin Closed => rows'[j].tries < Attempts
        /\ rows'[j] # NoRow => j <= posted
        /\ rows'[j].status = "done" => rows'[j] = rows[j]
        /\ rows[j] # NoRow => rows'[j] # NoRow
  BY <1>1, <1>3, <1>5, <1>6, <1>7 DEF row
<1> QED BY <1>1, <1>8 DEF RowsSound, RowsKept

LEMMA OverQuotaIInv ==
  ASSUME IInv, OverQuota
  PROVE  IInv'
<1>1. RowsSound /\ RowsKept
  BY OverQuotaFacts
<1>2. TypeOK'
  BY <1>1 DEF OverQuota, RowsSound, passVars, IInv, TypeOK
<1>3. PostedSound' /\ CursorSound' /\ PassSound'
  BY <1>1, WriteFacts DEF OverQuota, passVars
<1>4. QueueSound' /\ PlanSound'
  BY <1>1 DEF OverQuota, RowsSound, QueueSound, PlanSound
<1> QED BY <1>2, <1>3, <1>4 DEF IInv

(* An attempt fails, or the whole stage does.                                  *)
LEMMA FailureIInv ==
  ASSUME IInv, ResolveFails \/ SendFails \/ MediaDoneFails \/ StageFails
  PROVE  IInv'
<1>1. /\ pc \in {"recalculate", "media", "send", "sent"} /\ pc' = "media"
      /\ UNCHANGED <<posted, chat, cursor, last, mode, scope, passVars, edge, touched,
                     changes, disk, dead, doomed, sound>>
      /\ faults' \in 0..MaxFaults /\ parts' \subseteq Ids
  BY ConstantFacts DEF ResolveFails, SendFails, MediaDoneFails, StageFails, Failure, IInv, TypeOK
<1>2. ASSUME pc \in {"media", "send", "sent"},
             NEW i \in queue, NEW left \in BOOLEAN, Failure(i, left)
      PROVE  /\ RowsSound /\ RowsKept /\ flawed' \in BOOLEAN /\ cur' = None
             /\ queue' \subseteq Ids /\ \A j \in queue' : rows'[j].status = "pending"
  BY <1>2, FailureFacts DEF IInv, TypeOK, QueueSound
<1>3. ASSUME UNCHANGED rows
      PROVE  RowsSound /\ RowsKept
  BY <1>3 DEF RowsSound, RowsKept, IInv, TypeOK, QueueSound, PostedSound, Archived
<1>4. /\ RowsSound /\ RowsKept /\ flawed' \in BOOLEAN /\ cur' \in Ids \cup {None}
      /\ queue' \subseteq Ids /\ \A j \in queue' : rows'[j].status = "pending"
  <2>1. CASE ResolveFails
    BY <2>1, <1>2 DEF ResolveFails, First
  <2>2. CASE SendFails
    <3>1. CASE \E left \in BOOLEAN : Failure(cur, left)
      BY <2>2, <3>1, <1>2 DEF SendFails, IInv, QueueSound
    <3>2. CASE \E left \in BOOLEAN : /\ queue' = {} /\ flawed' = (flawed \/ left)
                                    /\ cur' = None /\ UNCHANGED rows
      BY <3>2, <1>3 DEF IInv, TypeOK
    <3> QED BY <2>2, <3>1, <3>2 DEF SendFails
  <2>3. CASE MediaDoneFails
    BY <2>3, <1>2 DEF MediaDoneFails, IInv, QueueSound
  <2>4. CASE StageFails
    BY <2>4, <1>3 DEF StageFails, IInv, TypeOK
  <2> QED BY <2>1, <2>2, <2>3, <2>4
<1>5. TypeOK'
  BY <1>1, <1>4 DEF RowsSound, passVars, IInv, TypeOK
<1>6. PostedSound' /\ CursorSound' /\ PassSound'
  BY <1>1, <1>4, WriteFacts DEF passVars
<1>7. QueueSound' /\ PlanSound'
  BY <1>1, <1>4 DEF RowsSound, QueueSound, PlanSound
<1> QED BY <1>5, <1>6, <1>7 DEF IInv

(* The complete file, and then its row.                                        *)
LEMMA SentIInv ==
  ASSUME IInv, Rename \/ MediaDone
  PROVE  IInv'
<1>1. cur \in queue /\ cur \in Ids /\ rows[cur] \in Row /\ rows[cur].status = "pending"
      /\ cur <= posted
  BY DEF Rename, MediaDone, IInv, TypeOK, QueueSound, PostedSound, Archived, NoRow
<1>2. CASE Rename
  <2>1. disk' \in [Ids -> Files \cup {None, Broken}] /\ disk'[cur] = rows[cur].file
    BY <1>1, <1>2 DEF Rename, IInv, TypeOK, Row
  <2>2. TypeOK'
    BY <1>2, <2>1 DEF Rename, passVars, IInv, TypeOK
  <2>3. PostedSound' /\ CursorSound' /\ PassSound'
    BY <1>2, StillFacts DEF Rename, passVars, IInv, PostedSound
  <2>4. QueueSound' /\ PlanSound'
    BY <1>2, <2>1 DEF Rename, IInv, QueueSound, PlanSound
  <2> QED BY <2>2, <2>3, <2>4 DEF IInv
<1>3. CASE MediaDone
  <2>1. /\ rows' \in [Ids -> Row] /\ rows'[cur] # NoRow /\ rows'[cur].status = "done"
        /\ \A i \in Ids \ {cur} : rows'[i] = rows[i]
    BY <1>1, <1>3 DEF MediaDone, IInv, TypeOK, Row, NoRow
  <2>2. TypeOK'
    BY <1>3, <2>1 DEF MediaDone, passVars, IInv, TypeOK
  <2>3. PostedSound'
    BY <1>1, <1>3, <2>1 DEF MediaDone, passVars, IInv, PostedSound, Archived
  <2>4. CursorSound'
    BY <1>1, <1>3, <2>1, ConstantFacts DEF MediaDone, passVars, IInv, TypeOK, CursorSound,
      Archived, Archivable, Live, Ids
  <2>5. PassSound'
    BY <1>3 DEF MediaDone, passVars, IInv, PassSound, Archivable, Live
  <2>6. QueueSound' /\ PlanSound'
    BY <1>1, <1>3, <2>1 DEF MediaDone, IInv, TypeOK, QueueSound, PlanSound, Closed
  <2> QED BY <2>2, <2>3, <2>4, <2>5, <2>6 DEF IInv
<1> QED BY <1>2, <1>3

-----------------------------------------------------------------------------
(* The specification.                                                          *)

(* Nothing is posted, archived or under way at first.                          *)
THEOREM InitIInv == Init => IInv
<1> SUFFICES ASSUME Init PROVE IInv
  OBVIOUS
<1>1. TypeOK
  <2>1. /\ posted \in 0..MaxId /\ cursor \in 0..MaxId /\ top \in 0..MaxId
        /\ edge \in 0..MaxId /\ at \in 0..MaxId /\ room \in 0..Limit
        /\ changes \in 0..MaxChanges /\ faults \in 0..MaxFaults
    BY ConstantFacts DEF Init, TextInit
  <2>2. /\ chat \in [Ids -> Contents \cup {None, "gone"}] /\ rows \in [Ids -> Row]
        /\ buf \in [Ids -> Contents \cup {None}]
        /\ disk \in [Ids -> Files \cup {None, Broken}]
    BY ConstantFacts DEF Init, TextInit, Empty
  <2> QED BY <2>1, <2>2 DEF Init, TextInit, TypeOK
<1>2. PostedSound /\ CursorSound /\ PassSound
  BY ConstantFacts DEF Init, TextInit, PostedSound, CursorSound, PassSound, Archived, Empty, Ids,
    Contents
<1>3. QueueSound /\ PlanSound
  BY ConstantFacts DEF Init, TextInit, QueueSound, PlanSound, NoRow
<1> QED BY <1>1, <1>2, <1>3 DEF IInv

(* Every step of the collector, of its owner and of Telegram, every failure    *)
(* and every crash preserves the invariant.                                    *)
THEOREM NextIInv == IInv /\ [Next]_vars => IInv'
<1> SUFFICES ASSUME IInv, [Next]_vars PROVE IInv'
  OBVIOUS
<1>1. CASE Begin
  BY <1>1, RunIInv
<1>2. CASE TextStep /\ UNCHANGED mediaVars
  BY <1>2, ReadIInv, CommitIInv, CheckIInv, ForgetIInv DEF TextStep
<1>3. CASE Step /\ ~(TextStep /\ UNCHANGED mediaVars)
  BY <1>3, SurveyIInv, ResetIInv, RemoveIInv, RecalculateIInv, FetchIInv, OverQuotaIInv,
    FailureIInv, SentIInv, ForgetIInv, RunIInv DEF Step
<1>4. CASE Fault
  BY <1>4, ReadIInv, CheckIInv, RunIInv, SurveyIInv, RemoveIInv, FailureIInv DEF Fault
<1>5. CASE Outside
  BY <1>5, OutsideIInv, OwnerIInv DEF Outside
<1>6. CASE UNCHANGED vars
  BY <1>6 DEF vars, textVars, passVars, mediaVars, IInv, TypeOK, PostedSound, CursorSound,
    PassSound, QueueSound, PlanSound, Archived, Archivable, Live, Done
<1> QED BY <1>1, <1>2, <1>3, <1>4, <1>5, <1>6 DEF Next

(* The invariant holds in every reachable state.                               *)
THEOREM Invariant == Spec => []IInv
BY InitIInv, NextIInv, PTL DEF Spec

(* Every variable stays within its type; in particular no transfer is tried    *)
(* more often than media_failure allows.                                       *)
THEOREM TypeCorrect == Spec => []TypeOK
<1>1. IInv => TypeOK
  BY DEF IInv
<1> QED BY <1>1, Invariant, PTL

(* There is no hole below the cursor: whatever the batches, the limit, the     *)
(* failures and the crashes, each message up to the cursor that Telegram still *)
(* has is archived.                                                            *)
THEOREM NoHoles == Spec => []CursorSound
<1>1. IInv => CursorSound
  BY DEF IInv
<1> QED BY <1>1, Invariant, PTL

-----------------------------------------------------------------------------
(* Done rows and their files.                                                  *)

Kept == \A i \in Ids : Done(i)' /\ ~Intact(i)' => ~Intact(i) /\ (Done(i) \/ i \in touched)

(* A step that writes rows soundly and no file, and one that writes neither.   *)
LEMMA KeptByRows ==
  ASSUME RowsSound \/ UNCHANGED rows, UNCHANGED disk
  PROVE  Kept
BY DEF Kept, RowsSound, Done, Intact

(* The steps of the text passes, which have no business with files.            *)
LEMMA TextKept ==
  ASSUME IInv, TextStep \/ Omit \/ ChatFails \/ Post \/ Change, UNCHANGED mediaVars
  PROVE  Kept
<1>1. UNCHANGED disk
  BY DEF mediaVars
<1>2. CASE Commit
  BY <1>1, <1>2, StoredFacts, KeptByRows DEF Commit
<1>3. CASE DeleteConfirmed
  BY <1>1, <1>3, ConstantFacts DEF DeleteConfirmed, NoRow, Kept, Done, Intact
<1>4. CASE UNCHANGED rows
  BY <1>1, <1>4, KeptByRows
<1> QED
  BY <1>2, <1>3, <1>4 DEF TextStep, Read, FullBatch, OverLimit, ForwardDone, RefreshDone, Verify,
    Recover, Omit, ChatFails, Post, Change

(* No step but damage from outside leaves a done row without its file.         *)
LEMMA StepKept ==
  ASSUME IInv, Next, ~Damage
  PROVE  Kept
<1>1. CASE \/ (TextStep \/ Omit \/ ChatFails \/ Post \/ Change) /\ UNCHANGED mediaVars
  BY <1>1, TextKept
<1>2. CASE Begin \/ BeginRefused \/ Finish \/ Crash \/ Survey \/ SurveyMass \/ FsckFails
           \/ RemoveEnds \/ RemoveFails \/ StageFails \/ Fsck \/ Purge
  <2>1. UNCHANGED <<rows, disk>>
    BY <1>2 DEF Begin, BeginRefused, Finish, Crash, Survey, SurveyMass, FsckFails, RemoveEnds,
      RemoveFails, StageFails, Fsck, Purge, mediaVars
  <2> QED BY <2>1, KeptByRows
<1>3. CASE ResetDone
  <2>1. UNCHANGED disk /\ \A i \in Ids : rows'[i].status = "done" => rows'[i] = rows[i]
    BY <1>3 DEF ResetDone, mediaVars
  <2> QED BY <2>1 DEF Kept, Done, Intact
<1>4. CASE Recalculate
  <2>1. UNCHANGED disk /\ \A i \in Ids : rows'[i].status = "done" => rows'[i] = rows[i]
    BY <1>4 DEF Recalculate, Eligible, IInv, TypeOK, Row
  <2> QED BY <2>1 DEF Kept, Done, Intact
<1>5. CASE NotPending \/ Defer \/ OpenPart
  BY <1>5, FetchedFacts, KeptByRows DEF NotPending, Defer, OpenPart
<1>6. CASE OverQuota
  BY <1>6, OverQuotaFacts, KeptByRows DEF OverQuota
<1>7. CASE ResolveFails \/ SendFails \/ MediaDoneFails
  <2>1. ASSUME NEW i \in queue, NEW left \in BOOLEAN, Failure(i, left)
        PROVE  RowsSound
    BY <1>7, <2>1, FailureFacts DEF ResolveFails, SendFails, MediaDoneFails
  <2>2. UNCHANGED disk /\ (RowsSound \/ UNCHANGED rows)
    BY <1>7, <2>1 DEF ResolveFails, SendFails, MediaDoneFails, First, IInv, QueueSound
  <2> QED BY <2>2, KeptByRows
<1>8. CASE PurgeRows
  BY <1>8, ConstantFacts DEF PurgeRows, NoRow, Kept, Done
<1>9. CASE Remove
  <2>1. PICK f \in doomed : Removed(f)
    BY <1>9 DEF Remove
  <2>2. rows' = rows /\ \A i \in Ids : Done(i) => disk'[i] = disk[i]
    BY <1>9, <2>1 DEF Remove, Removed, Removals, textVars, IInv, TypeOK, PlanSound
  <2> QED BY <2>2 DEF Kept, Done, Intact
<1>10. CASE Rename
  <2>1. rows' = rows /\ ~Done(cur) /\ \A i \in Ids \ {cur} : disk'[i] = disk[i]
    BY <1>10 DEF Rename, Done, IInv, TypeOK, QueueSound
  <2> QED BY <2>1 DEF Kept, Done, Intact
<1>11. CASE MediaDone
  <2>1. /\ disk' = disk /\ cur \in Ids /\ ~Done(cur)
        /\ disk[cur] = rows[cur].file \/ cur \in touched
        /\ rows'[cur].file = rows[cur].file
        /\ \A i \in Ids \ {cur} : rows'[i] = rows[i]
    BY <1>11 DEF MediaDone, Done, IInv, TypeOK, QueueSound, PlanSound, Row
  <2> QED BY <2>1 DEF Kept, Done, Intact
<1> QED
  BY <1>1, <1>2, <1>3, <1>4, <1>5, <1>6, <1>7, <1>8, <1>9, <1>10, <1>11
    DEF Next, Step, Fault, Outside

(* A row that is done has its file, unless it was damaged from outside: no     *)
(* transfer, fsck, purge, failure or crash comes between a row and its file.   *)
THEOREM FilesKept == Spec => DoneIsKept
<1>1. ASSUME IInv, [Next]_vars
      PROVE  [~Damage => Kept]_vars
  BY <1>1, StepKept
<1>2. Spec => [][~Damage => Kept]_vars
  BY <1>1, Invariant, PTL DEF Spec
<1> QED BY <1>2, PTL DEF DoneIsKept, Kept

-----------------------------------------------------------------------------
(* The refinement of Attachment.                                               *)

\* A row without an attachment has no transfer, and fsck resets only rows that
\* have lost their file.
WantSound(row) ==
    /\ row.file = None <=> row.status \in {"absent", "none"}
    /\ row.file = None => row.tries = 0
LifeSound ==
    /\ \A i \in Ids : WantSound(rows[i])
    /\ pc = "reset" => \A i \in dead : Done(i) /\ ~Intact(i)

\* What may be written over a row when no transfer ends: it stays, is emptied, is
\* for another attachment, or waits or not.
Written(old, new) ==
    \/ new = old
    \/ new \in {NoRow, TextRow}
    \/ /\ new.file \in Files \ {old.file} /\ new.tries = 0
       /\ new.status \in Unfinished
    \/ /\ new.file = old.file /\ new.tries = old.tries
       /\ old.status \in Unfinished /\ new.status \in Unfinished
RowsWritten == \A i \in Ids : Written(rows[i], rows'[i])

(* A projected row is for another attachment, or settled and left alone, or    *)
(* unfinished before and after.                                                *)
LEMMA ProjectWritten ==
  ASSUME NEW c \in Contents, NEW old \in Row, WantSound(old)
  PROVE  /\ Written(old, Project(c, old)) /\ WantSound(Project(c, old))
         /\ Project(c, old).status \in Unfinished => Project(c, old).file \in Files
<1>1. CASE c \notin Files
  BY <1>1, ConstantFacts DEF Project, Written, WantSound, TextRow, Unfinished
<1>2. CASE c \in Files /\ old.file # c
  BY <1>2, ConstantFacts DEF Project, Written, WantSound, Eligible, Unfinished, Row
<1>3. CASE c \in Files /\ old.file = c /\ old.status \in {"done", "failed"}
  BY <1>3, ConstantFacts DEF Project, Written, WantSound, Unfinished, Row
<1>4. CASE c \in Files /\ old.file = c /\ old.status \notin {"done", "failed"}
  BY <1>4, ConstantFacts DEF Project, Written, WantSound, Eligible, Unfinished, Row
<1> QED BY <1>1, <1>2, <1>3, <1>4

(* What is written so stays sound.                                             *)
LEMMA WrittenSound ==
  ASSUME NEW old \in Row, NEW new \in Row, WantSound(old), Written(old, new)
  PROVE  WantSound(new)
BY ConstantFacts DEF Written, WantSound, NoRow, TextRow, Unfinished, Row

(* Away from the end of a transfer, a step that writes rows and no file is a   *)
(* step in the life of every attachment.                                       *)
LEMMA WrittenLife ==
  ASSUME TypeOK, TypeOK', \A i \in Ids : WantSound(rows[i]), RowsWritten, UNCHANGED disk,
         pc # "sent", pc' # "sent"
  PROVE  \A i \in Ids : Attachments!Life(i) /\ WantSound(rows'[i])
<1> SUFFICES ASSUME NEW i \in Ids PROVE Attachments!Life(i) /\ WantSound(rows'[i])
  OBVIOUS
<1>1. /\ rows[i] \in Row /\ rows'[i] \in Row /\ WantSound(rows[i]) /\ Written(rows[i], rows'[i])
      /\ disk'[i] = disk[i]
  BY DEF TypeOK, RowsWritten
<1>2. WantSound(rows'[i])
  BY <1>1, WrittenSound
<1>3. CASE rows'[i].file # rows[i].file
  <2>1. /\ rows'[i].tries = 0
        /\ Transfer(i)' = IF rows'[i].file = None THEN "none" ELSE "open"
    BY <1>1, <1>3, ConstantFacts DEF Written, NoRow, TextRow, Transfer, Unfinished
  <2>2. Transfer(i) # "placed"
    BY DEF Transfer
  <2>3. Attachments!Renew(i)
    BY <1>1, <1>3, <2>1, <2>2 DEF Attachments!Renew, Attachments!HeldKept
  <2> QED BY <1>2, <2>3 DEF Attachments!Life
<1>4. CASE rows'[i].file = rows[i].file
  <2>1. Transfer(i)' = Transfer(i) /\ rows'[i].tries = rows[i].tries
    BY <1>1, <1>2, <1>4, ConstantFacts DEF Written, WantSound, NoRow, TextRow, Transfer, Done,
      Unfinished
  <2> QED BY <1>1, <1>2, <1>4, <2>1 DEF Attachments!Life, Attachments!HeldKept
<1> QED BY <1>3, <1>4

(* A step that touches neither rows nor files nor a transfer that ends.        *)
LEMMA StillLife ==
  ASSUME UNCHANGED <<rows, disk>>, pc = "sent" \/ pc' = "sent" => UNCHANGED <<pc, cur>>
  PROVE  \A i \in Ids : Attachments!Life(i)
<1> SUFFICES ASSUME NEW i \in Ids PROVE Attachments!Life(i)
  OBVIOUS
<1>1. Transfer(i)' = Transfer(i)
  BY DEF Transfer, Done
<1> QED BY <1>1 DEF Attachments!Life, Attachments!HeldKept

(* One attempt has failed.                                                     *)
LEMMA FailureLife ==
  ASSUME IInv, LifeSound, pc \in {"media", "send", "sent"}, NEW i \in queue,
         pc = "sent" => i = cur, NEW left \in BOOLEAN, Failure(i, left), UNCHANGED disk
  PROVE  \A j \in Ids : Attachments!Life(j) /\ WantSound(rows'[j])
<1>1. /\ i \in Ids /\ rows[i] \in Row /\ rows[i].status = "pending" /\ rows[i].tries < Attempts
      /\ rows \in [Ids -> Row] /\ WantSound(rows[i]) /\ pc' = "media" /\ rows[i].tries \in Nat
  BY DEF IInv, TypeOK, QueueSound, Closed, LifeSound, Failure, Row
<1> DEFINE tries == rows[i].tries + 1
           status == IF tries >= Attempts THEN "failed" ELSE "pending"
<1>2. rows' = [rows EXCEPT ![i] = [file |-> rows[i].file, tries |-> tries, status |-> status]]
  BY DEF Failure
<1>3. /\ rows'[i] = [file |-> rows[i].file, tries |-> tries, status |-> status]
      /\ \A j \in Ids \ {i} : rows'[j] = rows[j]
  BY <1>1, <1>2
<1>4. tries >= Attempts <=> tries = Attempts
  BY <1>1, ConstantFacts
<1>5. rows[i].file # None
  BY <1>1 DEF WantSound
<1>6. Attachments!Life(i) /\ WantSound(rows'[i])
  <2>1. Transfer(i) \in {"open", "placed"}
    BY <1>1, <1>5 DEF Transfer, Unfinished
  <2>2. Transfer(i)' = IF tries = Attempts THEN "failed" ELSE "open"
    BY <1>1, <1>3, <1>4, <1>5 DEF Transfer, Unfinished, Done
  <2>3. Attachments!Fail(i)
    BY <1>1, <1>3, <2>1, <2>2 DEF Attachments!Fail, Attachments!Becomes, Attachments!HeldKept
  <2> QED BY <1>3, <1>5, <2>3 DEF Attachments!Life, WantSound
<1>7. ASSUME NEW j \in Ids \ {i}
      PROVE  Attachments!Life(j) /\ WantSound(rows'[j])
  <2>1. Transfer(j)' = Transfer(j)
    BY <1>1, <1>3 DEF Transfer, Done
  <2> QED BY <1>3, <2>1 DEF Attachments!Life, Attachments!HeldKept, LifeSound
<1> QED BY <1>6, <1>7

Lives == \A i \in Ids : Attachments!Life(i) /\ WantSound(rows'[i])

(* Steps that leave rows and files as they are, and the end of a process whose *)
(* transfer has just put its file in place.                                    *)
LEMMA StillLives ==
  ASSUME IInv, LifeSound, UNCHANGED <<rows, disk>>,
         \/ pc = "sent" \/ pc' = "sent" => UNCHANGED <<pc, cur>>
         \/ pc' = "idle"
  PROVE  Lives
<1>1. CASE pc = "sent" \/ pc' = "sent" => UNCHANGED <<pc, cur>>
  BY <1>1, StillLife DEF Lives, LifeSound
<1>2. CASE pc = "sent" /\ pc' = "idle"
  <2>1. PICK i \in Ids : /\ i = cur /\ rows[i] \in Row /\ rows[i].status = "pending"
                         /\ WantSound(rows[i])
    BY <1>2 DEF IInv, TypeOK, QueueSound, LifeSound
  <2>2. Attachments!Life(i)
    <3>1. Transfer(i) = "placed" /\ Transfer(i)' = "open"
      BY <1>2, <2>1 DEF Transfer, WantSound, Unfinished
    <3>2. Attachments!Drop(i)
      BY <2>1, <3>1 DEF Attachments!Drop, Attachments!Becomes, Attachments!HeldKept
    <3> QED BY <3>2 DEF Attachments!Life
  <2>3. ASSUME NEW j \in Ids \ {i}
        PROVE  Attachments!Life(j)
    <3>1. Transfer(j)' = Transfer(j)
      BY <1>2, <2>1 DEF Transfer, Done
    <3> QED BY <3>1 DEF Attachments!Life, Attachments!HeldKept
  <2> QED BY <2>2, <2>3 DEF Lives, LifeSound
<1> QED BY <1>1, <1>2

(* Steps of the text passes, and of Telegram.                                  *)
LEMMA TextLives ==
  ASSUME IInv, IInv', LifeSound, UNCHANGED mediaVars,
         TextStep \/ Omit \/ ChatFails \/ Post \/ Change
  PROVE  Lives
<1>1. UNCHANGED <<disk, cur>>
  BY DEF mediaVars
<1>2. CASE FullBatch \/ OverLimit \/ ForwardDone \/ RefreshDone \/ Recover
  <2>1. rows' = Stored /\ pc # "sent" /\ pc' # "sent"
    BY <1>2 DEF FullBatch, OverLimit, ForwardDone, RefreshDone, Recover, Commit
  <2>2. ASSUME NEW i \in Ids
        PROVE  Written(rows[i], rows'[i])
    <3>1. rows[i] \in Row /\ WantSound(rows[i]) /\ buf[i] \in Contents \cup {None}
          /\ rows'[i] = IF buf[i] \in {None, "service"} THEN rows[i] ELSE Project(buf[i], rows[i])
      BY <2>1 DEF Stored, IInv, TypeOK, LifeSound
    <3>2. CASE buf[i] \in {None, "service"}
      BY <3>1, <3>2 DEF Written
    <3>3. CASE buf[i] \notin {None, "service"}
      BY <3>1, <3>3, ProjectWritten
    <3> QED BY <3>2, <3>3
  <2> QED BY <1>1, <2>1, <2>2, WrittenLife DEF Lives, LifeSound, RowsWritten, IInv
<1>3. CASE DeleteConfirmed
  <2>1. RowsWritten /\ pc # "sent" /\ pc' # "sent"
    BY <1>3 DEF DeleteConfirmed, RowsWritten, Written
  <2> QED BY <1>1, <2>1, WrittenLife DEF Lives, LifeSound, IInv
<1>4. CASE Read \/ Verify \/ Omit \/ ChatFails \/ Post \/ Change
  <2>1. UNCHANGED rows /\ (pc = "sent" \/ pc' = "sent" => UNCHANGED pc)
    BY <1>4 DEF Read, Verify, Omit, ChatFails, Post, Change
  <2> QED BY <1>1, <2>1, StillLives
<1> QED BY <1>2, <1>3, <1>4 DEF TextStep

(* Runs, commands and fsck until it writes.                                    *)
LEMMA QuietLives ==
  ASSUME IInv, LifeSound,
         \/ Begin \/ BeginRefused \/ Finish \/ Crash \/ Survey \/ SurveyMass \/ FsckFails
         \/ RemoveEnds \/ RemoveFails \/ StageFails \/ Fsck \/ Purge
  PROVE  Lives
<1>1. UNCHANGED <<rows, disk>>
  BY DEF Begin, BeginRefused, Finish, Crash, Survey, SurveyMass, FsckFails, RemoveEnds,
    RemoveFails, StageFails, Fsck, Purge, mediaVars
<1>2. pc' = "idle" \/ (pc # "sent" /\ pc' # "sent")
  BY DEF Begin, BeginRefused, Finish, Crash, Survey, SurveyMass, FsckFails, RemoveEnds,
    RemoveFails, StageFails, Fsck, Purge, AfterFsck, RunOver
<1> QED BY <1>1, <1>2, StillLives

(* fsck and purge: what is reset has lost its file, and what is removed is not *)
(* kept.                                                                       *)
LEMMA RepairLives ==
  ASSUME IInv, IInv', LifeSound, ResetDone \/ Remove \/ PurgeRows
  PROVE  Lives
<1>1. CASE ResetDone
  <2>1. UNCHANGED <<disk, cur>> /\ pc = "reset" /\ pc' = "remove"
    BY <1>1 DEF ResetDone, mediaVars
  <2>2. ASSUME NEW i \in Ids
        PROVE  Attachments!Life(i) /\ WantSound(rows'[i])
    <3>1. /\ rows[i] \in Row /\ WantSound(rows[i])
          /\ rows'[i] = IF i \in dead
                        THEN [file |-> rows[i].file, status |-> "pending", tries |-> 0]
                        ELSE rows[i]
          /\ i \in dead => Done(i) /\ disk[i] # rows[i].file
      BY <1>1 DEF ResetDone, IInv, TypeOK, LifeSound, Intact
    <3>2. CASE i \in dead
      <4>1. rows[i].file # None
        BY <3>1, <3>2 DEF WantSound, Done
      <4>2. Transfer(i) = "kept" /\ Transfer(i)' = "open"
        BY <2>1, <3>1, <3>2, <4>1 DEF Transfer, Done, Unfinished
      <4>3. Attachments!Lose(i)
        BY <2>1, <3>1, <3>2, <4>2 DEF Attachments!Lose, Attachments!Becomes, Attachments!HeldKept
      <4> QED BY <3>1, <3>2, <4>1, <4>3 DEF Attachments!Life, WantSound
    <3>3. CASE i \notin dead
      <4>1. Transfer(i)' = Transfer(i)
        BY <2>1, <3>1, <3>3 DEF Transfer, Done
      <4> QED BY <2>1, <3>1, <3>3, <4>1 DEF Attachments!Life, Attachments!HeldKept
    <3> QED BY <3>2, <3>3
  <2> QED BY <2>2 DEF Lives
<1>2. CASE Remove
  <2>1. UNCHANGED <<rows, pc, cur>> /\ pc = "remove"
    BY <1>2 DEF Remove, textVars
  <2>2. PICK f \in doomed : Removed(f)
    BY <1>2 DEF Remove
  <2>3. ASSUME NEW i \in Ids
        PROVE  Attachments!Life(i)
    <3>1. Transfer(i)' = Transfer(i) /\ Transfer(i) # "placed"
      BY <2>1 DEF Transfer, Done
    <3>2. CASE disk'[i] = disk[i]
      BY <2>1, <3>1, <3>2 DEF Attachments!Life, Attachments!HeldKept
    <3>3. CASE disk'[i] # disk[i]
      <4>1. f = <<i, "file">> /\ disk'[i] = None
        BY <2>2, <3>3 DEF Removed, Removals, IInv, TypeOK
      <4>2. Transfer(i) # "kept"
        BY <2>1, <4>1 DEF IInv, PlanSound, Transfer
      <4>3. Attachments!Remove(i)
        BY <2>1, <3>1, <4>1, <4>2 DEF Attachments!Remove
      <4> QED BY <4>3 DEF Attachments!Life
    <3> QED BY <3>2, <3>3
  <2> QED BY <2>1, <2>3 DEF Lives, LifeSound
<1>3. CASE PurgeRows
  <2>1. RowsWritten /\ UNCHANGED disk /\ pc # "sent" /\ pc' # "sent"
    BY <1>3 DEF PurgeRows, RowsWritten, Written, mediaVars
  <2> QED BY <2>1, WrittenLife DEF Lives, LifeSound, IInv
<1> QED BY <1>1, <1>2, <1>3

(* A message is fetched again before its attachment is transferred.            *)
LEMMA FetchedLives ==
  ASSUME IInv, LifeSound, NEW i \in Ids, Fetched(i)
  PROVE  RowsWritten
<1>1. rows[i] \in Row /\ WantSound(rows[i]) /\ chat[i] \in Contents /\ rows \in [Ids -> Row]
  BY DEF Fetched, Live, IInv, TypeOK, LifeSound
<1>2. Written(rows[i], Project(chat[i], rows[i]))
  BY <1>1, ProjectWritten
<1>3. \A j \in Ids : rows'[j] = IF j = i THEN Project(chat[i], rows[i]) ELSE rows[j]
  BY <1>1 DEF Fetched
<1> QED BY <1>2, <1>3 DEF RowsWritten, Written

(* The transfer queue, until a file is in place.                               *)
LEMMA QueueLives ==
  ASSUME IInv, IInv', LifeSound, Recalculate \/ NotPending \/ Defer \/ OverQuota \/ OpenPart
  PROVE  Lives
<1>1. UNCHANGED disk /\ pc # "sent" /\ pc' # "sent"
  BY DEF Recalculate, NotPending, Defer, OverQuota, OpenPart, Fetched
<1>2. RowsWritten
  <2>1. CASE Recalculate
    <3>1. \A i \in Ids : \/ rows'[i] = rows[i]
                         \/ /\ rows[i].status \in Unfinished
                            /\ rows'[i] = [rows[i] EXCEPT !.status = Eligible]
      BY <2>1 DEF Recalculate
    <3>2. \A i \in Ids : rows[i] \in Row
      BY DEF IInv, TypeOK
    <3> QED BY <3>1, <3>2 DEF RowsWritten, Written, Eligible, Unfinished, Row
  <2>2. CASE NotPending \/ Defer \/ OpenPart
    <3>1. CASE \E i \in Ids : Fetched(i)
      BY <3>1, FetchedLives
    <3>2. CASE UNCHANGED rows
      BY <3>2 DEF RowsWritten, Written
    <3> QED BY <2>2, <3>1, <3>2 DEF NotPending, Defer, OpenPart
  <2>3. CASE OverQuota
    <3>1. PICK i \in Ids :
            /\ First(i) /\ Live(i)
            /\ Project(chat[i], rows[i]).status = "pending"
            /\ rows' = [j \in Ids |->
                  IF j = i THEN [Project(chat[i], rows[i]) EXCEPT !.status = "skipped"]
                  ELSE IF rows[j].status = "pending" THEN [rows[j] EXCEPT !.status = "skipped"]
                  ELSE rows[j]]
      BY <2>3 DEF OverQuota
    <3>2. ASSUME NEW j \in Ids \ {i}
          PROVE  Written(rows[j], rows'[j])
      <4>1. rows[j] \in Row
        BY DEF IInv, TypeOK
      <4> QED BY <3>1, <4>1 DEF Written, Unfinished, Row
    <3>3. Written(rows[i], rows'[i])
      <4> DEFINE new == Project(chat[i], rows[i])
      <4>1. /\ rows[i] \in Row /\ WantSound(rows[i]) /\ chat[i] \in Contents
            /\ rows[i].status \notin Closed => rows[i].tries < Attempts
        BY <3>1 DEF Live, IInv, TypeOK, QueueSound, LifeSound
      <4>2. Written(rows[i], new) /\ new \in Row
        BY <4>1, ProjectWritten, ProjectFacts
      <4>3. rows'[i] = [new EXCEPT !.status = "skipped"] /\ new.status = "pending"
        BY <3>1
      <4> HIDE DEF new
      <4>4. new \notin {NoRow, TextRow}
        BY <4>3 DEF NoRow, TextRow
      <4> QED BY <4>1, <4>2, <4>3, <4>4 DEF Written, Unfinished, Row
    <3> QED BY <3>2, <3>3 DEF RowsWritten
  <2> QED BY <2>1, <2>2, <2>3
<1> QED BY <1>1, <1>2, WrittenLife DEF Lives, LifeSound, IInv

(* The end of a transfer.                                                      *)
LEMMA TransferLives ==
  ASSUME IInv, LifeSound, ResolveFails \/ SendFails \/ Rename \/ MediaDone \/ MediaDoneFails
  PROVE  Lives
<1>1. CASE ResolveFails
  <2>1. PICK i \in Ids : First(i) /\ Failure(i, FALSE)
    BY <1>1 DEF ResolveFails
  <2>2. i \in queue /\ pc = "media" /\ UNCHANGED disk
    BY <1>1, <2>1 DEF ResolveFails, First
  <2> QED BY <2>1, <2>2, FailureLife DEF Lives
<1>2. CASE SendFails
  <2>1. cur \in queue /\ pc = "send" /\ pc' = "media" /\ UNCHANGED disk
    BY <1>2 DEF SendFails, Failure, IInv, QueueSound
  <2>2. (\E left \in BOOLEAN : Failure(cur, left)) \/ UNCHANGED rows
    BY <1>2 DEF SendFails
  <2>3. CASE \E left \in BOOLEAN : Failure(cur, left)
    BY <2>1, <2>3, FailureLife DEF Lives
  <2>4. CASE UNCHANGED rows
    BY <2>1, <2>4, StillLives
  <2> QED BY <2>2, <2>3, <2>4
<1>3. CASE MediaDoneFails
  <2>1. cur \in queue /\ pc = "sent" /\ UNCHANGED disk /\ Failure(cur, FALSE)
    BY <1>3 DEF MediaDoneFails, IInv, QueueSound
  <2> QED BY <2>1, FailureLife DEF Lives
<1>4. CASE Rename \/ MediaDone
  <2>1. PICK i \in Ids : /\ i = cur /\ rows[i] \in Row /\ rows[i].status = "pending"
                         /\ WantSound(rows[i])
    BY <1>4 DEF Rename, MediaDone, IInv, TypeOK, QueueSound, LifeSound
  <2>2. /\ rows[i].file # None /\ rows \in [Ids -> Row]
        /\ disk \in [Ids -> Files \cup {None, Broken}]
    BY <2>1 DEF WantSound, IInv, TypeOK
  <2>3. CASE Rename
    <3>1. /\ UNCHANGED <<rows, cur>> /\ pc = "send" /\ pc' = "sent"
          /\ disk'[i] = rows[i].file /\ \A j \in Ids \ {i} : disk'[j] = disk[j]
      BY <2>1, <2>2, <2>3 DEF Rename
    <3>2. Transfer(i) = "open" /\ Transfer(i)' = "placed"
      BY <2>1, <2>2, <3>1 DEF Transfer, Unfinished
    <3>3. Attachments!Place(i)
      BY <2>1, <3>1, <3>2 DEF Attachments!Place, Attachments!Becomes
    <3>4. ASSUME NEW j \in Ids \ {i}
          PROVE  Attachments!Life(j)
      <4>1. Transfer(j)' = Transfer(j)
        BY <2>1, <3>1 DEF Transfer, Done
      <4> QED BY <3>1, <4>1 DEF Attachments!Life, Attachments!HeldKept
    <3> QED BY <3>1, <3>3, <3>4 DEF Attachments!Life, Lives, LifeSound
  <2>4. CASE MediaDone
    <3>1. /\ disk' = disk /\ pc = "sent" /\ pc' = "media"
          /\ rows'[i] = [rows[i] EXCEPT !.status = "done"]
          /\ \A j \in Ids \ {i} : rows'[j] = rows[j]
      BY <2>1, <2>2, <2>4 DEF MediaDone
    <3>2. /\ rows'[i].file = rows[i].file /\ rows'[i].tries = rows[i].tries
          /\ rows'[i].status = "done"
      BY <2>1, <3>1 DEF Row
    <3>3. Transfer(i) = "placed" /\ Transfer(i)' = "kept"
      BY <2>1, <2>2, <3>1, <3>2 DEF Transfer, Unfinished, Done
    <3>4. Attachments!Keep(i)
      BY <2>1, <3>1, <3>2, <3>3
        DEF Attachments!Keep, Attachments!Becomes, Attachments!HeldKept
    <3>5. ASSUME NEW j \in Ids \ {i}
          PROVE  Attachments!Life(j)
      <4>1. Transfer(j)' = Transfer(j)
        BY <2>1, <3>1 DEF Transfer, Done
      <4> QED BY <3>1, <4>1 DEF Attachments!Life, Attachments!HeldKept
    <3>6. WantSound(rows'[i])
      BY <2>2, <3>2 DEF WantSound
    <3> QED BY <3>1, <3>4, <3>5, <3>6 DEF Attachments!Life, Lives, LifeSound
  <2> QED BY <1>4, <2>3, <2>4
<1> QED BY <1>1, <1>2, <1>3, <1>4

(* Only the survey of fsck plans a reset, of rows that have lost their file.   *)
LEMMA LossStep ==
  ASSUME IInv, LifeSound, [Next]_vars, pc' = "reset"
  PROVE  \A i \in dead' : Done(i)' /\ ~Intact(i)'
<1>1. CASE Survey
  BY <1>1 DEF Survey, Surveyed, Done, Intact
<1>2. CASE Damage
  <2>1. /\ UNCHANGED <<rows, pc, dead>>
        /\ \A i \in Ids : disk'[i] = disk[i] \/ disk'[i] \in {None, Broken}
    BY <1>2 DEF Damage, IInv, TypeOK
  <2>2. \A i \in dead : i \in Ids /\ rows[i] \in Row /\ WantSound(rows[i]) /\ Done(i) /\ ~Intact(i)
    BY <2>1 DEF LifeSound, IInv, TypeOK
  <2>3. \A i \in dead : rows[i].file \notin {None, Broken}
    BY <2>2, MediaBounds DEF WantSound, Row, Done
  <2> QED BY <2>1, <2>2, <2>3 DEF Done, Intact
<1>3. CASE UNCHANGED <<rows, disk, dead, pc>>
  BY <1>3 DEF LifeSound, Done, Intact
<1>4. CASE (TextStep \/ Omit \/ ChatFails) /\ UNCHANGED mediaVars
  BY <1>4 DEF TextStep, Read, FullBatch, OverLimit, ForwardDone, RefreshDone, Verify, Recover,
    DeleteConfirmed, Omit, ChatFails
<1>5. CASE Begin \/ BeginRefused \/ Finish \/ Crash \/ SurveyMass \/ FsckFails \/ RemoveEnds
           \/ Fsck \/ Purge
  BY <1>5 DEF Begin, BeginRefused, Finish, Crash, SurveyMass, FsckFails, RemoveEnds, Fsck, Purge,
    AfterFsck, RunOver
<1>6. CASE ResetDone \/ Remove \/ RemoveFails \/ PurgeRows \/ Recalculate \/ StageFails
  BY <1>6 DEF ResetDone, Remove, RemoveFails, PurgeRows, Recalculate, StageFails, textVars
<1>7. CASE NotPending \/ Defer \/ OverQuota \/ OpenPart \/ ResolveFails \/ SendFails \/ Rename
           \/ MediaDone \/ MediaDoneFails
  BY <1>7 DEF NotPending, Defer, OverQuota, OpenPart, ResolveFails, SendFails, Rename, MediaDone,
    MediaDoneFails, Fetched, Failure
<1>8. CASE (Post \/ Change) /\ UNCHANGED mediaVars
  BY <1>3, <1>8 DEF Post, Change, mediaVars
<1>9. CASE UNCHANGED vars
  BY <1>3, <1>9 DEF vars, textVars, mediaVars
<1> QED
  BY <1>1, <1>2, <1>4, <1>5, <1>6, <1>7, <1>8, <1>9 DEF Next, Step, Fault, Outside

(* Every step but damage is one in the life of every attachment.               *)
LEMMA NextLives ==
  ASSUME IInv, IInv', LifeSound, [Next]_vars, ~Damage
  PROVE  Lives
<1>1. CASE UNCHANGED vars
  BY <1>1, StillLives DEF vars, textVars, mediaVars
<1>2. CASE Next
  BY <1>2, TextLives, QuietLives, RepairLives, QueueLives, TransferLives
    DEF Next, Step, Fault, Outside
<1> QED BY <1>1, <1>2

(* Damage from outside spoils one file.                                        *)
LEMMA DamageLives ==
  ASSUME IInv, LifeSound, Damage
  PROVE  (\E i \in Ids : Attachments!Damage(i)) /\ UNCHANGED rows
<1>1. PICK i \in Ids, c \in {None, Broken} : disk[i] \in Files /\ disk' = [disk EXCEPT ![i] = c]
  BY DEF Damage
<1>2. UNCHANGED <<rows, pc, cur>> /\ changes' = changes + 1
  BY DEF Damage
<1>3. \A j \in Ids : Transfer(j)' = Transfer(j)
  BY <1>2 DEF Transfer, Done
<1>4. Attachments!Damage(i)
  BY <1>1, <1>2, <1>3 DEF Attachments!Damage
<1> QED BY <1>2, <1>4

(* What the world outside has done is counted.                                 *)
LEMMA ChangesCounted ==
  ASSUME [Next]_vars
  PROVE  changes' = changes \/ changes' = changes + 1
<1>1. CASE Post \/ Change \/ Damage \/ Fsck \/ Purge
  BY <1>1 DEF Post, Change, Damage, Fsck, Purge
<1>2. CASE Begin \/ BeginRefused \/ Finish \/ Crash \/ Survey \/ SurveyMass \/ FsckFails
           \/ RemoveEnds \/ ResetDone \/ Remove \/ RemoveFails \/ PurgeRows
  BY <1>2 DEF Begin, BeginRefused, Finish, Crash, Survey, SurveyMass, FsckFails, RemoveEnds,
    ResetDone, Remove, RemoveFails, PurgeRows, textVars
<1>3. CASE Recalculate \/ NotPending \/ Defer \/ OverQuota \/ OpenPart \/ ResolveFails
           \/ SendFails \/ Rename \/ MediaDone \/ MediaDoneFails \/ StageFails
  BY <1>3 DEF Recalculate, NotPending, Defer, OverQuota, OpenPart, ResolveFails, SendFails,
    Rename, MediaDone, MediaDoneFails, StageFails
<1>4. CASE TextStep \/ Omit \/ ChatFails
  BY <1>4 DEF TextStep, Read, FullBatch, OverLimit, ForwardDone, RefreshDone, Verify, Recover,
    DeleteConfirmed, Omit, ChatFails
<1>5. CASE UNCHANGED vars
  BY <1>5 DEF vars, textVars
<1> QED BY <1>1, <1>2, <1>3, <1>4, <1>5 DEF Next, Step, Fault, Outside

(* A row's transfer is counted and its state one of five.                      *)
LEMMA RowsOfAttachment ==
  ASSUME TypeOK'
  PROVE  [i \in Ids |-> [want |-> rows[i].file, state |-> Transfer(i), tries |-> rows[i].tries]]'
           \in [Ids -> Attachments!Rows]
<1>1. ASSUME NEW i \in Ids
      PROVE  /\ rows'[i].file \in Files \cup {None} /\ rows'[i].tries \in 0..Attempts
             /\ Transfer(i)' \in {"none", "open", "placed", "kept", "failed"}
  BY DEF TypeOK, Row, Transfer
<1> QED BY <1>1 DEF Attachments!Rows

(* Beside the invariant: no row without an attachment has a transfer, and no   *)
(* row that has its file is reset.                                             *)
THEOREM Lifecycle == Spec => [](IInv /\ LifeSound)
<1>1. Init => IInv /\ LifeSound
  <2>1. Init => LifeSound
    BY DEF Init, TextInit, LifeSound, WantSound, NoRow
  <2> QED BY <2>1, InitIInv
<1>2. IInv /\ LifeSound /\ [Next]_vars => (IInv /\ LifeSound)'
  <2> SUFFICES ASSUME IInv, LifeSound, [Next]_vars PROVE IInv' /\ LifeSound'
    OBVIOUS
  <2>1. IInv'
    BY NextIInv
  <2>2. \A i \in Ids : WantSound(rows[i])'
    <3>1. CASE Damage
      BY <3>1, DamageLives DEF LifeSound, WantSound
    <3>2. CASE ~Damage
      BY <2>1, <3>2, NextLives DEF Lives, WantSound
    <3> QED BY <3>1, <3>2
  <2>3. pc' = "reset" => \A i \in dead' : Done(i)' /\ ~Intact(i)'
    BY LossStep
  <2> QED BY <2>1, <2>2, <2>3 DEF LifeSound
<1> QED BY <1>1, <1>2, PTL DEF Spec

(* The collector refines Attachment: whatever the passes, the queue, fsck,     *)
(* purge, failures and crashes do, an attachment is kept with its file only,   *)
(* loses it to damage only, and is tried no more often than media_failure says *)
(* until it is replaced or lost.                                               *)
THEOREM CollectorImplementsAttachment == Spec => ImplementsAttachment
<1>1. Init => Attachments!Init
  BY DEF Init, TextInit, Attachments!Init, NoRow, Transfer
<1>2. IInv /\ LifeSound /\ [Next]_vars => [Attachments!Next]_(Attachments!vars)
  <2> SUFFICES ASSUME IInv, LifeSound, [Next]_vars PROVE Attachments!Next
    OBVIOUS
  <2>1. IInv' /\ TypeOK'
    BY NextIInv DEF IInv
  <2>2. CASE Damage
    BY <2>2, DamageLives DEF Attachments!Next
  <2>3. CASE ~Damage
    <3>1. changes' >= changes
      <4>1. changes \in Nat /\ changes' \in Nat
        BY <2>1, ConstantFacts DEF IInv, TypeOK
      <4> QED BY <2>3, <4>1, ChangesCounted
    <3>2. disk' \in [Ids -> Files \cup {None, Broken}]
      BY <2>1 DEF TypeOK
    <3>3. \A i \in Ids : Attachments!Life(i)
      BY <2>1, <2>3, NextLives DEF Lives
    <3> QED BY <2>1, <3>1, <3>2, <3>3, RowsOfAttachment DEF Attachments!Next
  <2> QED BY <2>2, <2>3
<1> QED BY <1>1, <1>2, Lifecycle, PTL DEF Spec, ImplementsAttachment, Attachments!Spec
=============================================================================
