------------------------- MODULE CompletenessProofs --------------------------
(* Proof about module Collector that a run ends "ok" only over an archive that *)
(* agrees with Telegram and with its directory, for any files, limits and      *)
(* bounds.  What a stage has established up to an id, or will establish by the *)
(* plan it holds, is followed from stage to stage until the run ends.          *)
EXTENDS CollectorProofs

Mending == {"survey", "reset", "remove"}
Transfers == {"recalculate", "media", "send", "sent"}

\* A command of the owner has read nothing, and only a commit is ahead of a
\* buffer.
StageSound ==
    /\ pc \notin Mending \cup {"purge"} => mode = "run"
    /\ pc = "purge" => mode # "run"
    /\ mode # "run" \/ pc = "idle" => top = 0
    /\ pc \notin {"forward", "refresh", "recover"} => \A i \in Ids : buf[i] = None

\* What is in memory is what Telegram has, unless it changed since; a service
\* message is neither read for the archive nor in it.
ReadSound ==
    /\ \A i \in Ids \ touched : buf[i] # None => buf[i] = chat[i]
    /\ \A i \in Ids : i \in Archived \/ buf[i] \in Texts => chat[i] # "service"

\* After the forward pass everything up to top is archived.
AllArchived ==
    pc \notin {"idle", "forward"} /\ ~flawed =>
        \A i \in 1..top : Archivable(i) => i \in Archived

\* The row of a message shows, or is about to show, today's attachment.
Fresh(i) == chat[i] \in Files => buf[i] = chat[i] \/ rows[i].file = chat[i]

\* The refresh pass shows what it has seen; the point checks see to the rest of
\* the window: it is recovered, or it is gone and then forgotten.
WindowSound ==
    /\ pc \in {"refresh", "verify"} => \A i \in seen \ touched : Live(i) /\ Fresh(i)
    /\ pc \notin {"idle", "forward", "refresh", "verify"} /\ ~flawed =>
          \A i \in 1..top \ touched : i > edge =>
             /\ Fresh(i)
             /\ ~Live(i) /\ i \in Archived => pc \in {"recover", "forget"} /\ i \in gone

\* A row that fsck leaves done has its file, and so it stays.
FilesSound ==
    pc \in {"reset", "remove"} \/ (pc \in Transfers /\ ~flawed) =>
        \A i \in Ids \ touched : Done(i) /\ (pc = "reset" => i \notin dead) => Intact(i)

\* What no row knows is doomed until it is removed, and no transfer adds to it.
NothingElse ==
    /\ pc \in {"reset", "remove"} /\ mode = "run" /\ sound =>
          /\ \A i \in Ids : disk[i] # None => i \in Archived \/ <<i, "file">> \in doomed
          /\ \A i \in parts : <<i, "part">> \in doomed
    /\ pc \in Transfers /\ ~flawed =>
          /\ \A i \in Ids : disk[i] # None => i \in Archived
          /\ \A i \in parts : pc = "send" /\ i = cur

OkInv ==
    /\ IInv /\ StageSound /\ ReadSound /\ AllArchived /\ WindowSound /\ FilesSound
    /\ NothingElse
-----------------------------------------------------------------------------
(* The stages that read and write messages.                                    *)

(* A message up to the start of the run is an id.                              *)
LEMMA TopFacts ==
  ASSUME IInv
  PROVE  /\ \A i \in 1..top : i \in Ids
         /\ \A i \in 1..at : i \in Ids
         /\ top \in Nat /\ at \in Nat /\ edge \in Nat
BY ConstantFacts DEF IInv, TypeOK, Ids

(* A commit archives the messages of the buffer and no other, and the row of   *)
(* each shows its attachment.                                                  *)
LEMMA CommitFacts ==
  ASSUME OkInv, rows' = Stored, NEW i \in Ids
  PROVE  /\ rows'[i] # NoRow <=> (i \in Archived \/ buf[i] \in Texts)
         /\ i \notin touched /\ Fresh(i) /\ chat[i] \in Files => rows'[i].file = chat[i]
<1>1. rows'[i] = IF buf[i] \in {None, "service"} THEN rows[i] ELSE Project(buf[i], rows[i])
  BY DEF Stored
<1>2. /\ rows[i] \in Row /\ buf[i] \in Contents \cup {None}
      /\ i \notin touched /\ buf[i] # None => buf[i] = chat[i]
  BY DEF OkInv, IInv, TypeOK, ReadSound
<1>3. rows'[i] # NoRow <=> (i \in Archived \/ buf[i] \in Texts)
  <2>1. RowsKept /\ (buf[i] \in Texts => rows'[i] # NoRow)
    BY StoredFacts DEF OkInv
  <2> QED BY <1>1, <1>2, <2>1, ConstantFacts DEF Archived, RowsKept, Contents, Texts
<1>4. ASSUME i \notin touched, Fresh(i), chat[i] \in Files
      PROVE  rows'[i].file = chat[i]
  <2>1. CASE buf[i] = None
    BY <1>1, <1>4, <2>1, ConstantFacts DEF Fresh
  <2>2. CASE buf[i] # None
    <3>1. buf[i] = chat[i] /\ chat[i] \notin {None, "service"}
      BY <1>2, <1>4, <2>2, ConstantFacts
    <3> QED BY <1>1, <1>2, <1>4, <3>1 DEF Project, Row
  <2> QED BY <2>1, <2>2
<1> QED BY <1>3, <1>4

(* Reading on, or passing over a message of the window.                        *)
LEMMA ReadOk ==
  ASSUME OkInv, Read \/ Omit, UNCHANGED mediaVars
  PROVE  StageSound' /\ ReadSound' /\ AllArchived' /\ WindowSound' /\ FilesSound' /\ NothingElse'
<1>1. /\ pc \in {"forward", "refresh"} /\ pc' = pc
      /\ UNCHANGED <<posted, chat, rows, mode, top, edge, gone, flawed, touched>>
  BY DEF Read, Omit
<1>2. PICK i \in Ids : /\ Live(i)
                       /\ \A j \in Ids \ {i} : buf'[j] = buf[j]
                       /\ buf'[i] \in {buf[i], chat[i]}
                       /\ (buf' = buf /\ seen' = seen)
                            \/ (buf'[i] = chat[i] /\ seen' \subseteq seen \cup {i})
  BY DEF Read, Omit, InTurn, Ahead, OkInv, IInv, TypeOK
<1>3. StageSound'
  BY <1>1 DEF OkInv, StageSound, Mending
<1>4. ReadSound'
  BY <1>1, <1>2, ConstantFacts DEF OkInv, ReadSound, Archived
<1>5. AllArchived'
  BY <1>1 DEF OkInv, AllArchived, Archivable, Live, Archived
<1>6. WindowSound'
  BY <1>1, <1>2 DEF OkInv, IInv, TypeOK, WindowSound, Live, Fresh
<1>7. FilesSound' /\ NothingElse'
  BY <1>1 DEF FilesSound, NothingElse, Transfers
<1> QED BY <1>3, <1>4, <1>5, <1>6, <1>7

(* A commit: what was read is archived and shown by its row.                   *)
LEMMA CommitOk ==
  ASSUME OkInv, FullBatch \/ OverLimit \/ ForwardDone \/ RefreshDone \/ Recover,
         UNCHANGED mediaVars
  PROVE  StageSound' /\ ReadSound' /\ AllArchived' /\ WindowSound' /\ FilesSound' /\ NothingElse'
<1>1. /\ pc \in {"forward", "refresh", "recover"}
      /\ rows' = Stored /\ \A i \in Ids : buf'[i] = None
      /\ UNCHANGED <<posted, chat, mode, top, edge, gone, touched>>
  BY DEF FullBatch, OverLimit, ForwardDone, RefreshDone, Recover, Commit, Empty
<1>2. /\ \/ pc' = pc /\ pc # "recover" /\ seen' = seen /\ flawed' = flawed
         \/ pc' = "survey" /\ flawed' = TRUE
         \/ pc = "forward" /\ Ahead = {} /\ pc' = "refresh" /\ seen' = {} /\ flawed' = flawed
         \/ pc = "refresh" /\ pc' = "verify" /\ seen' = seen /\ flawed' = flawed
         \/ pc = "recover" /\ pc' = "forget" /\ flawed' = flawed
  BY DEF FullBatch, OverLimit, ForwardDone, RefreshDone, Recover
<1>3. StageSound'
  BY <1>1, <1>2 DEF OkInv, StageSound, Mending
<1>4. ReadSound'
  BY <1>1, CommitFacts, ConstantFacts DEF OkInv, ReadSound, Archived
<1>5. AllArchived'
  <2> SUFFICES ASSUME pc' # "forward", ~flawed', NEW i \in 1..top, Archivable(i)
               PROVE  rows'[i] # NoRow /\ i \in Ids
    BY <1>1, <1>2, TopFacts DEF AllArchived, Archivable, Live, Archived, OkInv
  <2>1. i \in Ids
    BY TopFacts DEF OkInv
  <2>2. CASE pc = "forward"
    <3>1. Ahead = {}
      BY <1>2, <2>2
    <3>2. i \in 1..at
      BY <3>1, TopFacts DEF Ahead, Archivable, OkInv
    <3>3. i \in Archived \/ buf[i] \in Texts
      BY <2>2, <3>2 DEF OkInv, IInv, PassSound
    <3> QED BY <1>1, <2>1, <3>3, CommitFacts
  <2>3. CASE pc # "forward"
    <3>1. i \in Archived
      BY <1>1, <1>2, <2>3 DEF OkInv, AllArchived
    <3> QED BY <1>1, <2>1, <3>1, CommitFacts
  <2> QED BY <2>2, <2>3
<1>6. WindowSound'
  <2>1. \A i \in Ids \ touched : Fresh(i) => Fresh(i)'
    BY <1>1, CommitFacts DEF Fresh
  <2>2. \A i \in Ids \ touched : ~Live(i) /\ i \in Archived' => i \in Archived
    BY <1>1, CommitFacts, ConstantFacts DEF OkInv, ReadSound, Live, Archived, Texts
  <2>3. \A i \in Ids : Live(i)' <=> Live(i)
    BY <1>1 DEF Live
  <2>4. pc' \in {"refresh", "verify"} => \A i \in seen' \ touched' : Live(i)' /\ Fresh(i)'
    BY <1>1, <1>2, <2>1, <2>3 DEF OkInv, WindowSound, IInv, TypeOK
  <2>5. pc' \notin {"idle", "forward", "refresh", "verify"} /\ ~flawed' =>
          pc = "recover" /\ pc' = "forget" /\ ~flawed
    BY <1>1, <1>2
  <2> QED BY <1>1, <2>1, <2>2, <2>3, <2>4, <2>5, TopFacts DEF OkInv, WindowSound
<1>7. FilesSound' /\ NothingElse'
  BY <1>1, <1>2 DEF FilesSound, NothingElse, Transfers
<1> QED BY <1>3, <1>4, <1>5, <1>6, <1>7

(* The point checks: every message of the window that the refresh pass did not *)
(* see is fetched by its id.                                                   *)
LEMMA VerifyOk ==
  ASSUME OkInv, Verify, UNCHANGED mediaVars
  PROVE  StageSound' /\ ReadSound' /\ AllArchived' /\ WindowSound' /\ FilesSound' /\ NothingElse'
<1>1. /\ pc = "verify" /\ pc' = "recover" /\ gone' = {i \in Candidates : ~Live(i)}
      /\ UNCHANGED <<posted, chat, rows, mode, top, edge, seen, flawed, touched>>
      /\ \A i \in Ids : buf'[i] = IF i \in Candidates \ gone' THEN chat[i] ELSE None
  BY DEF Verify
<1>2. StageSound'
  BY <1>1 DEF OkInv, StageSound, Mending
<1>3. ReadSound'
  BY <1>1, ConstantFacts DEF OkInv, ReadSound, Archived, Candidates
<1>4. AllArchived'
  BY <1>1 DEF OkInv, AllArchived, Archivable, Live, Archived
<1>5. WindowSound'
  <2> SUFFICES ASSUME ~flawed, NEW i \in 1..top, i \notin touched, i > edge
               PROVE  Fresh(i)' /\ (~Live(i) /\ i \in Archived => i \in gone')
    BY <1>1 DEF WindowSound, Live, Archived
  <2>1. i \in Ids /\ i <= top /\ buf[i] = None
    BY <1>1, TopFacts DEF OkInv, StageSound
  <2>2. i \in seen => Live(i) /\ Fresh(i)
    BY <1>1 DEF OkInv, WindowSound
  <2>3. i \in Archived /\ i \notin seen => i \in Candidates
    BY <2>1 DEF Candidates
  <2>4. chat[i] \in Files => i \in Archived
    BY <1>1, ConstantFacts DEF OkInv, AllArchived, Archivable, Live, Contents
  <2>5. Fresh(i)'
    <3>1. CASE i \in seen
      BY <1>1, <2>1, <2>2, <3>1, ConstantFacts DEF Fresh
    <3>2. CASE i \notin seen
      BY <1>1, <2>1, <2>3, <2>4, <3>2 DEF Fresh, Live, Contents
    <3> QED BY <3>1, <3>2
  <2> QED BY <1>1, <2>2, <2>3, <2>5
<1>6. FilesSound' /\ NothingElse'
  BY <1>1 DEF FilesSound, NothingElse, Transfers
<1> QED BY <1>2, <1>3, <1>4, <1>5, <1>6

(* The deletion of what the point checks confirmed gone.                       *)
LEMMA ForgetOk ==
  ASSUME OkInv, DeleteConfirmed, UNCHANGED mediaVars
  PROVE  StageSound' /\ ReadSound' /\ AllArchived' /\ WindowSound' /\ FilesSound' /\ NothingElse'
<1>1. /\ pc = "forget" /\ pc' = "survey"
      /\ UNCHANGED <<posted, chat, mode, top, edge, gone, buf, seen, flawed, touched>>
      /\ \A i \in Ids : rows'[i] = IF i \in gone THEN NoRow ELSE rows[i]
  BY DEF DeleteConfirmed, passVars
<1>2. \A i \in gone : chat[i] = "gone" /\ "gone" \notin Contents
  BY <1>1, ConstantFacts DEF OkInv, IInv, PassSound
<1>3. StageSound'
  BY <1>1 DEF OkInv, StageSound, Mending
<1>4. ReadSound'
  BY <1>1 DEF OkInv, ReadSound, Archived
<1>5. AllArchived'
  BY <1>1, <1>2, TopFacts DEF OkInv, AllArchived, Archivable, Live, Archived
<1>6. WindowSound'
  BY <1>1, <1>2, TopFacts DEF OkInv, WindowSound, Fresh, Live, Archived, Contents
<1>7. FilesSound' /\ NothingElse'
  BY <1>1 DEF FilesSound, NothingElse, Transfers
<1> QED BY <1>3, <1>4, <1>5, <1>6, <1>7
-----------------------------------------------------------------------------
(* Runs, commands and the world outside.                                       *)

(* A run or a command begins, ends or dies, or gives its chat up.              *)
LEMMA RunOk ==
  ASSUME OkInv, \/ Begin \/ BeginRefused \/ Finish \/ Crash \/ Fsck \/ Purge \/ PurgeRows
                \/ ChatFails /\ UNCHANGED mediaVars
  PROVE  StageSound' /\ ReadSound' /\ AllArchived' /\ WindowSound' /\ FilesSound' /\ NothingElse'
<1>1. CASE Begin
  BY <1>1 DEF Begin, mediaVars, OkInv, StageSound, ReadSound, AllArchived, WindowSound, FilesSound,
    NothingElse, Archived, Mending, Transfers
<1>2. CASE BeginRefused \/ (ChatFails /\ UNCHANGED mediaVars)
  BY <1>2, ConstantFacts DEF BeginRefused, ChatFails, mediaVars, passVars, Empty, OkInv, StageSound,
    ReadSound, AllArchived, WindowSound, FilesSound, NothingElse, Archived, Mending, Transfers
<1>3. CASE Finish \/ Crash
  <2>1. /\ pc' = "idle" /\ mode' = "run" /\ top' = 0 /\ UNCHANGED <<chat, rows>>
        /\ \A i \in Ids : buf'[i] = None
    BY <1>3 DEF Finish, Crash, RunOver, Empty
  <2> QED
    BY <2>1, ConstantFacts DEF OkInv, StageSound, ReadSound, AllArchived, WindowSound, FilesSound,
      NothingElse, Archived, Mending, Transfers
<1>4. CASE Fsck \/ Purge
  BY <1>4 DEF Fsck, Purge, mediaVars, passVars, OkInv, StageSound, ReadSound, AllArchived,
    WindowSound, FilesSound, NothingElse, Archived, Mending, Transfers
<1>5. CASE PurgeRows
  <2>1. /\ pc = "purge" /\ pc' = "remove" /\ top = 0 /\ mode # "run"
        /\ UNCHANGED <<chat, mode, passVars, touched, flawed>>
        /\ \A i \in Ids : rows'[i] = NoRow
    BY <1>5 DEF PurgeRows, OkInv, StageSound
  <2> QED
    BY <2>1, ConstantFacts DEF passVars, OkInv, StageSound, ReadSound, AllArchived, WindowSound,
      FilesSound, NothingElse, Archived, Mending, Transfers, Done, NoRow
<1> QED BY <1>1, <1>2, <1>3, <1>4, <1>5

(* What Telegram does never makes a message one to archive that was posted and *)
(* was not.                                                                    *)
LEMMA ArchivableStays ==
  ASSUME IInv, Post \/ Change, NEW i \in Ids, chat[i] # None, Archivable(i)'
  PROVE  Archivable(i)
<1>1. CASE Post
  <2>1. PICK c \in Contents : chat' = [chat EXCEPT ![posted + 1] = c]
    BY <1>1 DEF Post
  <2>2. posted + 1 \in Ids => chat[posted + 1] = None
    BY ConstantFacts DEF IInv, TypeOK, PostedSound
  <2> QED BY <2>1, <2>2 DEF IInv, TypeOK, Archivable, Live
<1>2. CASE Change
  <2>1. PICK j \in 1..posted, c \in Files \cup {"text", "gone"} :
          /\ Live(j)
          /\ chat[j] = "service" => c = "gone"
          /\ chat' = [chat EXCEPT ![j] = c]
    BY <1>2 DEF Change
  <2> QED BY <2>1, ConstantFacts DEF IInv, TypeOK, Archivable, Live
<1> QED BY <1>1, <1>2

(* Telegram: what is read after a change is left out of the promise.           *)
LEMMA TelegramOk ==
  ASSUME OkInv, Post \/ Change, UNCHANGED mediaVars
  PROVE  StageSound' /\ ReadSound' /\ AllArchived' /\ WindowSound' /\ FilesSound' /\ NothingElse'
<1>1. /\ UNCHANGED <<rows, pc, mode, scope, passVars, edge, flawed, mediaVars>>
      /\ touched \subseteq touched'
  BY DEF Post, Change
<1>2. /\ \A i \in Ids : chat[i] # None /\ i \notin touched' /\ pc # "idle" => chat'[i] = chat[i]
      /\ \A i \in Ids : chat[i] # None /\ chat'[i] = "service" => chat[i] = "service"
  <2>1. CASE Post
    <3>1. PICK c \in Contents : chat' = [chat EXCEPT ![posted + 1] = c]
      BY <2>1 DEF Post
    <3>2. posted + 1 \in Ids => chat[posted + 1] = None
      BY ConstantFacts DEF OkInv, IInv, TypeOK, PostedSound
    <3> QED BY <3>1, <3>2 DEF OkInv, IInv, TypeOK
  <2>2. CASE Change
    <3>1. PICK i \in 1..posted, c \in Files \cup {"text", "gone"} :
            /\ chat[i] = "service" => c = "gone"
            /\ chat' = [chat EXCEPT ![i] = c]
            /\ touched' = IF Working THEN touched \cup {i} ELSE touched
      BY <2>2 DEF Change
    <3> QED BY <3>1, ConstantFacts DEF Working, OkInv, IInv, TypeOK
  <2> QED BY <2>1, <2>2
<1>3. /\ \A i \in Archived : chat[i] # None
      /\ \A i \in Ids : buf[i] # None => chat[i] # None
      /\ \A i \in 1..top : i \in Ids /\ chat[i] # None
  BY TopFacts DEF OkInv, IInv, TypeOK, PostedSound, Archived, Ids
<1>4. StageSound'
  BY <1>1 DEF passVars, OkInv, StageSound
<1>5. ReadSound'
  BY <1>1, <1>2, <1>3, ConstantFacts DEF passVars, OkInv, ReadSound, StageSound, Archived
<1>6. AllArchived'
  <2>1. \A i \in Ids : chat[i] # None /\ Archivable(i)' => Archivable(i)
    BY ArchivableStays DEF OkInv
  <2> QED BY <1>1, <1>3, <2>1 DEF passVars, OkInv, AllArchived, Archived
<1>7. WindowSound'
  <2>1. \A i \in seen \ touched : pc \in {"refresh", "verify"} => i \in Ids /\ chat[i] # None
    BY ConstantFacts DEF OkInv, WindowSound, Live, IInv, TypeOK
  <2>2. pc # "idle" => \A i \in Ids \ touched' :
          chat[i] # None => (Fresh(i)' <=> Fresh(i)) /\ (Live(i)' <=> Live(i))
    BY <1>1, <1>2 DEF passVars, Fresh, Live
  <2> QED BY <1>1, <1>3, <2>1, <2>2 DEF passVars, OkInv, WindowSound, Archived
<1>8. FilesSound' /\ NothingElse'
  BY <1>1 DEF passVars, mediaVars, OkInv, FilesSound, NothingElse, Done, Intact, Archived
<1> QED BY <1>4, <1>5, <1>6, <1>7, <1>8

(* Damage of a file leaves an id out of the promise as well.                   *)
LEMMA DamageOk ==
  ASSUME OkInv, Damage
  PROVE  StageSound' /\ ReadSound' /\ AllArchived' /\ WindowSound' /\ FilesSound' /\ NothingElse'
<1>1. /\ UNCHANGED <<chat, rows, pc, mode, passVars, edge, flawed, parts, dead, doomed, sound, cur>>
      /\ touched \subseteq touched'
      /\ \A i \in Ids : disk[i] = None => disk'[i] = None
      /\ pc # "idle" => \A i \in Ids \ touched' : disk'[i] = disk[i]
  <2>1. PICK i \in Ids, c \in {None, Broken} :
          /\ disk[i] \in Files
          /\ disk' = [disk EXCEPT ![i] = c]
          /\ touched' = IF Working THEN touched \cup {i} ELSE touched
    BY DEF Damage
  <2>2. \A j \in Ids : disk[j] = None => disk'[j] = None
    BY <2>1, ConstantFacts DEF OkInv, IInv, TypeOK
  <2>3. pc # "idle" => \A j \in Ids \ touched' : disk'[j] = disk[j]
    BY <2>1 DEF Working, OkInv, IInv, TypeOK
  <2> QED BY <2>1, <2>2, <2>3 DEF Damage
<1>2. StageSound' /\ ReadSound' /\ AllArchived'
  BY <1>1 DEF passVars, OkInv, StageSound, ReadSound, AllArchived, Archived, Archivable, Live
<1>3. WindowSound'
  BY <1>1 DEF passVars, OkInv, WindowSound, Fresh, Live, Archived
<1>4. FilesSound'
  BY <1>1 DEF Transfers, OkInv, FilesSound, Done, Intact
<1>5. NothingElse'
  BY <1>1 DEF OkInv, NothingElse, Archived
<1> QED BY <1>2, <1>3, <1>4, <1>5
-----------------------------------------------------------------------------
(* fsck and the attachments.                                                   *)

Mends == \/ Survey \/ SurveyMass \/ FsckFails \/ ResetDone \/ Remove \/ RemoveFails
         \/ RemoveEnds
Moves == \/ Recalculate \/ NotPending \/ Defer \/ OverQuota \/ OpenPart \/ ResolveFails
         \/ Rename \/ SendFails \/ MediaDone \/ MediaDoneFails \/ StageFails

\* What a step may do to the rows once the messages are stored: the same ids
\* are archived, and a row that shows today's attachment shows it still.
RowsHeld ==
    \A i \in Ids :
       /\ rows'[i] # NoRow <=> rows[i] # NoRow
       /\ chat[i] \in Files /\ rows[i].file = chat[i] => rows'[i].file = chat[i]

(* A pending message that is stored again.                                     *)
LEMMA HeldByProject ==
  ASSUME IInv, NEW i \in Ids, rows[i].status = "pending", chat[i] \in Contents
  PROVE  /\ rows[i] # NoRow /\ Project(chat[i], rows[i]) # NoRow
         /\ chat[i] \in Files => Project(chat[i], rows[i]).file = chat[i]
<1>1. /\ rows[i] \in Row
      /\ rows[i].status \notin Closed => rows[i].tries < Attempts
      /\ rows[i] # NoRow
  BY DEF IInv, TypeOK, QueueSound, NoRow
<1>2. Project(chat[i], rows[i]) # NoRow
  BY <1>1, ProjectFacts
<1> QED BY <1>1, <1>2 DEF Project, Row

(* A row whose status alone changes.                                           *)
LEMMA HeldByStatus ==
  ASSUME NEW old \in Row, NEW s, s # "absent"
  PROVE  /\ [old EXCEPT !.status = s] # NoRow
         /\ [old EXCEPT !.status = s].file = old.file
         /\ [old EXCEPT !.status = s].status = s
BY DEF Row, NoRow

(* No step of fsck or of the attachments archives, forgets or rewinds a        *)
(* message.                                                                    *)
LEMMA RowsAreHeld ==
  ASSUME OkInv, Mends \/ Moves
  PROVE  RowsHeld
<1>1. /\ \A i \in Ids : rows[i] \in Row /\ (rows[i].status # "absent" => rows[i] # NoRow)
      /\ rows \in [Ids -> Row]
      /\ pc \in {"media", "send", "sent"} =>
           \A i \in queue : i \in Ids /\ rows[i].status = "pending"
      /\ pc \in {"send", "sent"} => cur \in queue
  BY DEF OkInv, IInv, TypeOK, QueueSound, NoRow
<1>2. CASE UNCHANGED rows
  BY <1>2 DEF RowsHeld
<1>3. CASE ResetDone
  <2> SUFFICES ASSUME NEW i \in Ids
               PROVE  /\ rows'[i] # NoRow <=> rows[i] # NoRow
                      /\ rows'[i].file = rows[i].file
    BY DEF RowsHeld
  <2>1. i \in dead => rows[i].status = "done"
    BY <1>3 DEF ResetDone, OkInv, IInv, PlanSound, Done
  <2>2. rows'[i] = IF i \in dead
                   THEN [file |-> rows[i].file, status |-> "pending", tries |-> 0] ELSE rows[i]
    BY <1>3 DEF ResetDone
  <2> QED BY <1>1, <2>1, <2>2 DEF NoRow
<1>4. CASE Recalculate
  <2> SUFFICES ASSUME NEW i \in Ids
               PROVE  /\ rows'[i] # NoRow <=> rows[i] # NoRow
                      /\ rows'[i].file = rows[i].file
    BY DEF RowsHeld
  <2>1. rows'[i] = IF scope # "refused" /\ rows[i].status \in Unfinished
                   THEN [rows[i] EXCEPT !.status = Eligible] ELSE rows[i]
    BY <1>4 DEF Recalculate
  <2>2. Eligible # "absent"
    BY DEF Eligible
  <2> QED BY <1>1, <2>1, <2>2, HeldByStatus DEF Unfinished
<1>5. ASSUME NEW i \in Ids, Fetched(i)
      PROVE  RowsHeld
  <2>1. rows[i].status = "pending" /\ chat[i] \in Contents
        /\ rows' = [rows EXCEPT ![i] = Project(chat[i], rows[i])]
    BY <1>1, <1>5 DEF Fetched, First, Live
  <2> QED BY <1>1, <2>1, HeldByProject DEF RowsHeld, OkInv
<1>6. CASE OverQuota
  <2>1. PICK i \in Ids :
          /\ First(i) /\ Live(i)
          /\ rows' = [j \in Ids |->
                IF j = i THEN [Project(chat[i], rows[i]) EXCEPT !.status = "skipped"]
                ELSE IF rows[j].status = "pending" THEN [rows[j] EXCEPT !.status = "skipped"]
                ELSE rows[j]]
    BY <1>6 DEF OverQuota
  <2>2. rows[i].status = "pending" /\ chat[i] \in Contents
    BY <1>1, <1>6, <2>1 DEF OverQuota, First, Live
  <2>3. Project(chat[i], rows[i]) \in Row
    BY <1>1, <2>2, ProjectFacts DEF OkInv, IInv, QueueSound
  <2>4. rows'[i] # NoRow /\ rows[i] # NoRow
        /\ (chat[i] \in Files => rows'[i].file = chat[i])
    <3> DEFINE row == Project(chat[i], rows[i])
    <3>1. rows'[i] = [row EXCEPT !.status = "skipped"]
      BY <2>1
    <3>2. row \in Row /\ rows[i] # NoRow /\ (chat[i] \in Files => row.file = chat[i])
      BY <2>2, <2>3, HeldByProject DEF OkInv
    <3> HIDE DEF row
    <3> QED BY <3>1, <3>2, HeldByStatus
  <2>5. \A j \in Ids \ {i} : /\ rows'[j] # NoRow <=> rows[j] # NoRow
                             /\ rows'[j].file = rows[j].file
    <3> TAKE j \in Ids \ {i}
    <3>1. rows'[j] = IF rows[j].status = "pending" THEN [rows[j] EXCEPT !.status = "skipped"]
                     ELSE rows[j]
      BY <2>1
    <3> QED BY <1>1, <3>1, HeldByStatus
  <2> QED BY <2>4, <2>5 DEF RowsHeld
<1>7. ASSUME pc \in {"media", "send", "sent"}, NEW i \in queue, NEW left \in BOOLEAN,
             Failure(i, left)
      PROVE  RowsHeld
  <2> DEFINE tries == rows[i].tries + 1
             row == [file |-> rows[i].file, tries |-> tries,
                     status |-> IF tries >= Attempts THEN "failed" ELSE "pending"]
  <2>1. rows' = [rows EXCEPT ![i] = row]
    BY <1>7 DEF Failure
  <2>2. row.file = rows[i].file /\ row # NoRow /\ rows[i] # NoRow /\ i \in Ids
    BY <1>1, <1>7 DEF NoRow
  <2> HIDE DEF row
  <2> QED BY <1>1, <2>1, <2>2 DEF RowsHeld
<1>8. CASE MediaDone
  <2>1. /\ rows' = [rows EXCEPT ![cur] = [rows[cur] EXCEPT !.status = "done"]]
        /\ cur \in Ids /\ rows[cur] # NoRow
    BY <1>1, <1>8 DEF MediaDone
  <2> QED BY <1>1, <2>1, HeldByStatus DEF RowsHeld
<1>9. CASE NotPending \/ Defer \/ OpenPart
  BY <1>2, <1>5, <1>9 DEF NotPending, Defer, OpenPart
<1>10. CASE ResolveFails
  <2>1. PICK i \in Ids : First(i) /\ Failure(i, FALSE)
    BY <1>10 DEF ResolveFails
  <2> QED BY <1>7, <1>10, <2>1 DEF ResolveFails, First
<1>11. CASE SendFails \/ MediaDoneFails
  BY <1>1, <1>2, <1>7, <1>11 DEF SendFails, MediaDoneFails
<1> QED
  BY <1>2, <1>3, <1>4, <1>6, <1>8, <1>9, <1>10, <1>11 DEF Mends, Moves, Survey, SurveyMass,
    FsckFails, Remove, RemoveFails, RemoveEnds, Rename, StageFails, textVars

(* These steps either end the run or leave everything the text passes have     *)
(* established.                                                                *)
Framed ==
    /\ pc \in Mending \cup Transfers /\ chat' = chat
    /\ \/ pc' = "idle" /\ mode' = "run" /\ top' = 0 /\ \A i \in Ids : buf'[i] = None
       \/ /\ pc' \in Mending \cup Transfers /\ UNCHANGED <<mode, top, edge, buf, touched>>
          /\ (flawed => flawed') /\ (pc' \in Transfers => mode = "run")

(* The steps of fsck and of the transfers do so.                              *)
LEMMA LaterFrame ==
  ASSUME OkInv, Mends \/ Moves
  PROVE  Framed
<1>1. ASSUME NEW ok \in BOOLEAN, AfterFsck(ok), pc \in Mending, UNCHANGED <<chat, rows, edge>>
      PROVE  Framed
  <2>1. CASE mode = "run"
    <3>1. pc' = "recalculate" /\ flawed' = (flawed \/ ~ok) /\ UNCHANGED <<mode, passVars, touched>>
      BY <1>1, <2>1 DEF AfterFsck
    <3> QED BY <1>1, <2>1, <3>1 DEF Framed, Mending, Transfers, passVars
  <2>2. CASE mode # "run"
    BY <1>1, <2>2 DEF AfterFsck, RunOver, Empty, Framed, Mending
  <2> QED BY <2>1, <2>2
<1>2. CASE Mends
  <2>1. CASE Survey \/ ResetDone \/ Remove \/ RemoveFails
    BY <2>1 DEF Survey, ResetDone, Remove, RemoveFails, Mending, Transfers, passVars, textVars,
      Framed
  <2>2. CASE SurveyMass \/ FsckFails
    <3>1. AfterFsck(FALSE) /\ pc \in Mending /\ UNCHANGED <<chat, rows, edge>>
      BY <2>2 DEF SurveyMass, FsckFails, Mending
    <3> QED BY <1>1, <3>1
  <2>3. CASE RemoveEnds
    <3>1. AfterFsck(sound) /\ pc \in Mending /\ UNCHANGED <<chat, rows, edge>>
      BY <2>3 DEF RemoveEnds, Mending
    <3> QED BY <1>1, <3>1 DEF OkInv, IInv, TypeOK
  <2> QED BY <1>2, <2>1, <2>2, <2>3 DEF Mends
<1>3. CASE Moves
  <2>1. pc \in Transfers /\ mode = "run"
    BY <1>3 DEF Moves, Transfers, Recalculate, NotPending, Defer, OverQuota, OpenPart, ResolveFails,
      Rename, SendFails, MediaDone, MediaDoneFails, StageFails, Fetched, OkInv, StageSound, Mending
  <2>2. UNCHANGED <<chat, mode, top, edge, buf, touched>>
    BY <1>3 DEF Moves, Recalculate, NotPending, Defer, OverQuota, OpenPart, ResolveFails, Rename,
      SendFails, MediaDone, MediaDoneFails, StageFails, passVars
  <2>3. ASSUME NEW i, NEW left, Failure(i, left)
        PROVE  pc' = "media" /\ (flawed => flawed')
    BY <2>3 DEF Failure, OkInv, IInv, TypeOK
  <2>4. pc' \in Transfers /\ (flawed => flawed')
    <3>1. CASE ResolveFails \/ SendFails \/ MediaDoneFails
      <4>1. \/ \E i \in Ids, left \in BOOLEAN : Failure(i, left)
            \/ \E left \in BOOLEAN : Failure(cur, left)
            \/ \E left \in BOOLEAN : pc' = "media" /\ flawed' = (flawed \/ left)
        BY <3>1 DEF ResolveFails, SendFails, MediaDoneFails
      <4> QED BY <2>3, <4>1 DEF Transfers
    <3>2. CASE Recalculate \/ NotPending \/ Defer \/ OverQuota \/ OpenPart \/ Rename \/ MediaDone
               \/ StageFails
      BY <3>2 DEF Transfers, Recalculate, NotPending, Defer, OverQuota, OpenPart, Rename,
        MediaDone, StageFails, Fetched
    <3> QED BY <1>3, <3>1, <3>2 DEF Moves
  <2> QED BY <2>1, <2>2, <2>4 DEF Framed
<1> QED BY <1>3, <1>2

(* So the promise about the messages stays what it was.                        *)
LEMMA LaterText ==
  ASSUME OkInv, Mends \/ Moves
  PROVE  StageSound' /\ ReadSound' /\ AllArchived' /\ WindowSound'
<1>1. RowsHeld
  BY RowsAreHeld
<1>2. \A i \in Ids : i \in Archived' <=> i \in Archived
  BY <1>1 DEF RowsHeld, Archived
<1>3. CASE pc' = "idle"
  <2>1. /\ mode' = "run" /\ top' = 0 /\ chat' = chat /\ \A i \in Ids : buf'[i] = None
    BY <1>3, LaterFrame DEF Framed, Mending, Transfers
  <2> QED
    BY <1>2, <1>3, <2>1, ConstantFacts DEF OkInv, StageSound, ReadSound, AllArchived, WindowSound,
      Mending, Texts
<1>4. CASE pc' # "idle"
  <2>1. /\ pc \in Mending \cup Transfers /\ pc' \in Mending \cup Transfers
        /\ UNCHANGED <<chat, top, edge, buf, touched, mode>> /\ (flawed => flawed')
        /\ (pc' \in Transfers => mode = "run")
    BY <1>4, LaterFrame DEF Framed
  <2>2. StageSound'
    BY <2>1 DEF OkInv, StageSound, Mending, Transfers
  <2>3. ReadSound'
    BY <1>2, <2>1 DEF OkInv, ReadSound
  <2>4. AllArchived'
    BY <1>2, <2>1, TopFacts DEF OkInv, AllArchived, Archivable, Live, Mending, Transfers
  <2>5. WindowSound'
    <3>1. \A i \in Ids : buf[i] = None
      BY <2>1 DEF OkInv, StageSound, Mending, Transfers
    <3>2. \A i \in Ids : Fresh(i) => Fresh(i)'
      BY <1>1, <2>1, <3>1, ConstantFacts DEF Fresh, RowsHeld
    <3> QED BY <1>2, <2>1, <3>2, TopFacts DEF OkInv, WindowSound, Live, Mending, Transfers
  <2> QED BY <2>2, <2>3, <2>4, <2>5
<1> QED BY <1>3, <1>4
(* fsck: once its removals are done, the directory holds the files of the rows *)
(* and nothing else.                                                           *)
LEMMA MendFiles ==
  ASSUME OkInv, Mends
  PROVE  FilesSound' /\ NothingElse'
<1>1. \A i \in Ids : i \in Archived' <=> i \in Archived
  BY RowsAreHeld DEF RowsHeld, Archived
<1>2. CASE Survey
  <2>1. /\ UNCHANGED <<disk, rows, parts>>
        /\ pc' = "reset"
        /\ dead' = {i \in Ids : Done(i) /\ disk[i] # rows[i].file}
        /\ doomed' = ({i \in Ids : disk[i] # None /\ (Done(i) => i \in dead')} \X {"file"})
                     \cup (parts \X {"part"})
    BY <1>2 DEF Survey, Surveyed
  <2>2. \A i \in Ids : Done(i) => i \in Archived
    BY DEF Done, Archived, NoRow
  <2>3. FilesSound'
    BY <2>1 DEF FilesSound, Done, Intact, Transfers
  <2>4. \A i \in Ids : disk[i] # None /\ i \notin Archived => <<i, "file">> \in doomed'
    BY <2>1, <2>2
  <2>5. \A i \in parts : <<i, "part">> \in doomed'
    BY <2>1
  <2> QED BY <1>1, <2>1, <2>3, <2>4, <2>5 DEF NothingElse, Transfers
<1>3. CASE SurveyMass \/ FsckFails
  <2>1. AfterFsck(FALSE)
    BY <1>3 DEF SurveyMass, FsckFails
  <2>2. pc' = "idle" \/ (pc' = "recalculate" /\ flawed')
    BY <2>1 DEF AfterFsck, RunOver
  <2> QED BY <2>2 DEF FilesSound, NothingElse, Transfers
<1>4. CASE ResetDone
  <2>1. /\ pc = "reset" /\ pc' = "remove"
        /\ UNCHANGED <<disk, parts, doomed, sound, mode, touched>>
        /\ \A i \in Ids : i \notin dead => rows'[i] = rows[i]
        /\ \A i \in Ids : i \in dead => rows'[i].status = "pending"
    BY <1>4 DEF ResetDone, mediaVars
  <2>2. FilesSound'
    BY <2>1 DEF OkInv, FilesSound, Done, Intact, Transfers
  <2>3. NothingElse'
    BY <1>1, <2>1 DEF OkInv, NothingElse, Transfers
  <2> QED BY <2>2, <2>3
<1>5. CASE Remove
  <2>1. PICK f \in doomed : Removed(f) /\ doomed' = doomed \ {f}
    BY <1>5 DEF Remove
  <2>2. pc = "remove" /\ UNCHANGED <<rows, pc, mode, touched, flawed, sound>>
    BY <1>5 DEF Remove, textVars
  <2>3. PICK j \in Ids, k \in {"file", "part"} : f = <<j, k>>
    BY DEF OkInv, IInv, TypeOK, Removals
  <2>4. CASE k = "file"
    <3>1. parts' = parts /\ ~Done(j) /\ disk' = [disk EXCEPT ![j] = None]
      BY <2>1, <2>2, <2>3, <2>4 DEF Removed, OkInv, IInv, PlanSound
    <3>2. FilesSound'
      BY <2>2, <3>1 DEF OkInv, IInv, TypeOK, FilesSound, Done, Intact, Transfers
    <3>3. NothingElse'
      BY <1>1, <2>1, <2>2, <2>3, <2>4, <3>1
        DEF OkInv, IInv, TypeOK, NothingElse, Transfers
    <3> QED BY <3>2, <3>3
  <2>5. CASE k = "part"
    <3>1. disk' = disk /\ parts' = parts \ {j}
      BY <2>1, <2>3, <2>5 DEF Removed
    <3>2. FilesSound'
      BY <2>2, <3>1 DEF OkInv, FilesSound, Done, Intact, Transfers
    <3>3. NothingElse'
      BY <1>1, <2>1, <2>2, <2>3, <2>5, <3>1 DEF OkInv, NothingElse, Transfers
    <3> QED BY <3>2, <3>3
  <2> QED BY <2>4, <2>5
<1>6. CASE RemoveFails
  BY <1>6 DEF RemoveFails, OkInv, FilesSound, NothingElse, Done, Intact, Transfers
<1>7. CASE RemoveEnds
  <2>1. pc = "remove" /\ doomed = {} /\ UNCHANGED <<rows, disk, parts>> /\ AfterFsck(sound)
    BY <1>7 DEF RemoveEnds
  <2>2. \/ pc' = "idle"
        \/ /\ mode = "run" /\ pc' = "recalculate" /\ (~flawed' => sound) /\ touched' = touched
    BY <2>1 DEF AfterFsck, RunOver
  <2>3. FilesSound'
    BY <2>1, <2>2 DEF OkInv, FilesSound, Done, Intact, Transfers
  <2>4. NothingElse'
    BY <1>1, <2>1, <2>2 DEF OkInv, NothingElse, Transfers
  <2> QED BY <2>3, <2>4
<1> QED BY <1>2, <1>3, <1>4, <1>5, <1>6, <1>7 DEF Mends

(* No transfer becomes done but by the step that follows the rename.           *)
LEMMA MoveRows ==
  ASSUME OkInv, Moves, ~MediaDone, NEW i \in Ids, rows'[i].status = "done"
  PROVE  rows'[i] = rows[i]
<1>1. CASE Recalculate
  BY <1>1 DEF Recalculate, Eligible, OkInv, IInv, TypeOK, Row
<1>2. CASE RowsSound \/ UNCHANGED rows
  BY <1>2 DEF RowsSound
<1>3. CASE NotPending \/ Defer \/ OpenPart
  BY <1>2, <1>3, FetchedFacts DEF NotPending, Defer, OpenPart, OkInv
<1>4. CASE OverQuota
  BY <1>2, <1>4, OverQuotaFacts DEF OkInv
<1>5. CASE ResolveFails \/ SendFails \/ MediaDoneFails
  <2>1. ASSUME NEW j \in queue, NEW left \in BOOLEAN, Failure(j, left)
        PROVE  RowsSound
    BY <1>5, <2>1, FailureFacts DEF ResolveFails, SendFails, MediaDoneFails, OkInv
  <2> QED
    BY <1>2, <1>5, <2>1 DEF ResolveFails, SendFails, MediaDoneFails, First, OkInv, IInv, QueueSound
<1>6. CASE Rename \/ StageFails
  BY <1>2, <1>6 DEF Rename, StageFails
<1> QED BY <1>1, <1>3, <1>4, <1>5, <1>6 DEF Moves

(* The transfers: a file arrives before its row is done, and its partial file  *)
(* is removed, or the run knows that it is left.                               *)
LEMMA MoveFiles ==
  ASSUME OkInv, Moves
  PROVE  FilesSound' /\ NothingElse'
<1>1. \A i \in Ids : i \in Archived' <=> i \in Archived
  BY RowsAreHeld DEF RowsHeld, Archived
<1>2. /\ pc \in Transfers /\ pc' \in Transfers /\ touched' = touched /\ (flawed => flawed')
  <2>1. pc \in Transfers /\ mode = "run"
    BY DEF Moves, Transfers, Recalculate, NotPending, Defer, OverQuota, OpenPart, ResolveFails,
      Rename, SendFails, MediaDone, MediaDoneFails, StageFails, Fetched, OkInv, StageSound, Mending
  <2>2. pc' \in Transfers
    BY <2>1 DEF Moves, Transfers, Recalculate, NotPending, Defer, OverQuota, OpenPart, ResolveFails,
      Rename, SendFails, MediaDone, MediaDoneFails, StageFails, Failure
  <2> QED BY <2>1, <2>2, LaterFrame DEF Framed, Transfers
<1>3. pc \in {"send", "sent"} => cur \in Ids /\ ~Done(cur) /\ cur \in Archived
  BY DEF OkInv, IInv, TypeOK, QueueSound, Done, Archived, NoRow
<1>4. CASE flawed'
  BY <1>2, <1>4 DEF FilesSound, NothingElse, Transfers
<1>5. CASE ~flawed'
  <2>1. /\ \A i \in Ids \ touched : Done(i) => Intact(i)
        /\ \A i \in Ids : disk[i] # None => i \in Archived
        /\ \A i \in parts : pc = "send" /\ i = cur
    BY <1>2, <1>5 DEF OkInv, FilesSound, NothingElse, Transfers
  <2>2. FilesSound'
    <3>1. CASE Rename
      <4>1. rows' = rows /\ ~Done(cur) /\ \A i \in Ids \ {cur} : disk'[i] = disk[i]
        BY <1>3, <3>1 DEF Rename, OkInv, IInv, TypeOK
      <4> QED BY <1>2, <2>1, <4>1 DEF FilesSound, Done, Intact, Transfers
    <3>2. CASE MediaDone
      <4>1. /\ disk' = disk /\ cur \in Ids
            /\ disk[cur] = rows[cur].file \/ cur \in touched
            /\ rows'[cur].file = rows[cur].file
            /\ \A i \in Ids \ {cur} : rows'[i] = rows[i]
        BY <1>3, <3>2 DEF MediaDone, OkInv, IInv, TypeOK, PlanSound, Row
      <4> QED BY <1>2, <2>1, <4>1 DEF FilesSound, Done, Intact, Transfers
    <3>3. CASE ~Rename /\ ~MediaDone
      <4>1. disk' = disk
        BY <3>3 DEF Moves, Recalculate, NotPending, Defer, OverQuota, OpenPart, ResolveFails,
          SendFails, MediaDoneFails, StageFails
      <4> QED BY <1>2, <2>1, <3>3, <4>1, MoveRows DEF FilesSound, Done, Intact, Transfers
    <3> QED BY <3>1, <3>2, <3>3
  <2>3. \A i \in Ids : disk'[i] # None => i \in Archived
    <3>1. CASE Rename
      BY <1>3, <2>1, <3>1 DEF Rename, OkInv, IInv, TypeOK
    <3>2. CASE ~Rename
      BY <2>1, <3>2 DEF Moves, Recalculate, NotPending, Defer, OverQuota, OpenPart, ResolveFails,
        SendFails, MediaDone, MediaDoneFails, StageFails
    <3> QED BY <3>1, <3>2
  <2>4. \A i \in parts' : pc' = "send" /\ i = cur'
    <3>1. CASE OpenPart \/ Rename
      BY <2>1, <3>1 DEF OpenPart, Rename, Fetched
    <3>2. CASE SendFails
      <4>1. parts \subseteq {cur} /\ flawed \in BOOLEAN
        BY <2>1 DEF OkInv, IInv, TypeOK
      <4>2. PICK left \in BOOLEAN :
              /\ parts' = IF left THEN parts ELSE parts \ {cur}
              /\ (left => flawed')
        BY <3>2, <4>1 DEF SendFails, Failure
      <4> QED BY <1>5, <4>1, <4>2
    <3>3. CASE ~(OpenPart \/ Rename \/ SendFails)
      <4>1. pc # "send" /\ parts' = parts
        BY <3>3 DEF Moves, Recalculate, NotPending, Defer, OverQuota, ResolveFails, MediaDone,
          MediaDoneFails, StageFails, Fetched
      <4> QED BY <2>1, <4>1
    <3> QED BY <3>1, <3>2, <3>3
  <2> QED BY <1>1, <1>2, <2>2, <2>3, <2>4 DEF NothingElse, Transfers
<1> QED BY <1>4, <1>5

-----------------------------------------------------------------------------
(* The theorem.                                                                *)

(* Every step preserves what the stages establish.                             *)
LEMMA OkStep ==
  ASSUME OkInv, [Next]_vars
  PROVE  StageSound' /\ ReadSound' /\ AllArchived' /\ WindowSound' /\ FilesSound' /\ NothingElse'
<1>1. CASE UNCHANGED vars
  BY <1>1 DEF vars, textVars, passVars, mediaVars, OkInv, StageSound, ReadSound, AllArchived,
    WindowSound, FilesSound, NothingElse, Fresh, Live, Archivable, Archived, Done, Intact
<1>2. CASE (TextStep \/ Omit) /\ UNCHANGED mediaVars
  BY <1>2, ReadOk, CommitOk, VerifyOk, ForgetOk DEF TextStep
<1>3. CASE \/ Begin \/ BeginRefused \/ Finish \/ Crash \/ Fsck \/ Purge \/ PurgeRows
           \/ ChatFails /\ UNCHANGED mediaVars
  BY <1>3, RunOk
<1>4. CASE \/ Damage
           \/ (Post \/ Change) /\ UNCHANGED mediaVars
  BY <1>4, TelegramOk, DamageOk
<1>5. CASE Mends \/ Moves
  BY <1>5, LaterText, MendFiles, MoveFiles
<1> QED
  BY <1>1, <1>2, <1>3, <1>4, <1>5 DEF Next, Step, Fault, Outside, Mends, Moves

(* What the stages establish holds in every reachable state.                   *)
THEOREM Established == Spec => []OkInv
<1>1. Init /\ IInv => OkInv
  BY ConstantFacts DEF Init, TextInit, Empty, OkInv, StageSound, ReadSound, AllArchived,
    WindowSound, FilesSound, NothingElse, Archived, Mending, Transfers
<1>2. OkInv /\ [Next]_vars => OkInv'
  <2> SUFFICES ASSUME OkInv, [Next]_vars PROVE OkInv'
    OBVIOUS
  <2>1. IInv'
    BY NextIInv DEF OkInv
  <2> QED BY <2>1, OkStep DEF OkInv
<1> QED BY <1>1, <1>2, InitIInv, PTL DEF Spec

\* What OkIsComplete says of the state in which a run ends "ok".
Agreed ==
    /\ \A i \in 1..top \ touched :
          IF Archivable(i) THEN i \in Archived ELSE i > edge => i \notin Archived
    /\ \A i \in edge + 1..top : i \notin touched /\ chat[i] \in Files =>
          rows[i].file = chat[i]
    /\ \A i \in Ids \ touched : Done(i) => Intact(i)
    /\ \A i \in Ids : disk[i] # None => i \in Archived
    /\ parts = {}

(* A step that turns the status of the run from running to ok is its end, with *)
(* no reason met to end it otherwise.                                          *)
LEMMA OkEnds ==
  ASSUME IInv, [Next]_vars, last = "running", last' = "ok"
  PROVE  pc = "media" /\ ~flawed
BY DEF IInv, TypeOK, vars, textVars, Next, Step, TextStep, Fault, Outside, Begin, BeginRefused,
  Finish, Crash, Post, Change, Read, Omit, FullBatch, OverLimit, ForwardDone, RefreshDone, Verify,
  Recover, DeleteConfirmed, ChatFails, AfterFsck, Survey, SurveyMass, FsckFails, ResetDone, Remove,
  RemoveFails, RemoveEnds, Recalculate, NotPending, Defer, OverQuota, OpenPart, ResolveFails,
  Rename, SendFails, MediaDone, MediaDoneFails, StageFails, Fsck, Purge, PurgeRows, Damage

(* A run ends "ok" only over an archive that agrees with Telegram as it was    *)
(* during the run, and over a directory that agrees with the archive: omitted  *)
(* messages, edits, deletions, failures, crashes, repairs and commands of the  *)
(* owner in between leave no difference unseen.                                *)
THEOREM CompleteWhenOk == Spec => OkIsComplete
<1>1. ASSUME OkInv, pc = "media", ~flawed
      PROVE  Agreed
  <2>1. \A i \in 1..top : i \in Ids
    BY <1>1, TopFacts DEF OkInv
  <2>2. \A i \in 1..top \ touched :
          IF Archivable(i) THEN i \in Archived ELSE i > edge => i \notin Archived
    BY <1>1, <2>1 DEF OkInv, AllArchived, WindowSound, ReadSound, Archivable
  <2>3. \A i \in edge + 1..top : i \notin touched /\ chat[i] \in Files => rows[i].file = chat[i]
    <3> SUFFICES ASSUME NEW i \in edge + 1..top, i \notin touched, chat[i] \in Files
                 PROVE  rows[i].file = chat[i]
      OBVIOUS
    <3>1. i \in 1..top /\ i > edge /\ i \in Ids
      BY <1>1, <2>1, TopFacts DEF OkInv
    <3>2. Fresh(i) /\ buf[i] = None
      BY <1>1, <3>1 DEF OkInv, WindowSound, StageSound
    <3> QED BY <3>2, ConstantFacts DEF Fresh
  <2>4. /\ \A i \in Ids \ touched : Done(i) => Intact(i)
        /\ \A i \in Ids : disk[i] # None => i \in Archived
        /\ parts = {}
    BY <1>1 DEF OkInv, FilesSound, NothingElse, Transfers
  <2> QED BY <2>2, <2>3, <2>4 DEF Agreed
<1>2. ASSUME OkInv, [Next]_vars
      PROVE  [last = "running" /\ last' = "ok" => Agreed]_vars
  BY <1>1, <1>2, OkEnds DEF OkInv
<1>3. Spec => [][last = "running" /\ last' = "ok" => Agreed]_vars
  BY <1>2, Established, PTL DEF Spec
<1> QED BY <1>3, PTL DEF OkIsComplete, Agreed
=============================================================================
