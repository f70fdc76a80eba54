----------------------------- MODULE Collector ------------------------------
(* The Telegram collector: runs of the timer over one chat, text first and     *)
(* then attachments (tg_archive/media.py, fsck.py), and the owner's commands   *)
(* fsck and purge (maintenance.py).  One process at a time has sync.lock; the  *)
(* kernel frees it when that process dies, wherever that is.                   *)
(*                                                                             *)
(* Abstractions.  The attachments of one message share its path, so a new one  *)
(* is renamed over the old.  Where the decision is one of bytes, of the route  *)
(* or of the settings (eligibility, quota, budget, path), either outcome may   *)
(* happen.  fsck compares sizes: damage that keeps the size is out of scope.   *)
EXTENDS Archive

CONSTANTS
    Broken,         \* content of a file damaged from outside
    Attempts,       \* media_attempts that make a transfer failed: 3
    Mass            \* deletions or resets fsck leaves to the owner: over 20

VARIABLES
    disk,           \* the attachment directory: content by message id
    parts,          \* ids whose .part file is there
    dead, doomed,   \* fsck's plan: rows to reset, files to remove
    sound,          \* fsck_status is ok
    queue, cur      \* transfers left of the run, and the one under way

mediaVars == <<disk, parts, dead, doomed, sound, queue, cur>>
vars == <<textVars, mediaVars>>

ASSUME MediaBounds ==
    /\ Attempts \in Nat \ {0} /\ Mass \in Nat
    /\ Broken \notin Files \cup {None}

Row == [file : Files \cup {None}, tries : 0..Attempts,
        status : {"absent", "none", "pending", "skipped", "done", "failed"}]

\* What there is to remove: of each id, the file and the .part file.
Removals == Ids \X {"file", "part"}

TypeOK ==
    /\ posted \in 0..MaxId /\ chat \in [Ids -> Contents \cup {None, "gone"}]
    /\ rows \in [Ids -> Row]
    /\ cursor \in 0..MaxId /\ last \in {"none", "running", "ok", "partial", "failed"}
    /\ pc \in {"idle", "forward", "refresh", "verify", "recover", "forget", "survey",
               "reset", "remove", "recalculate", "media", "send", "sent", "purge"}
    /\ mode \in {"run", "fsck", "confirm", "purge"}
    /\ scope \in {"media", "text", "refused"}
    /\ top \in 0..MaxId /\ edge \in 0..MaxId /\ at \in 0..MaxId /\ room \in 0..Limit
    /\ buf \in [Ids -> Contents \cup {None}]
    /\ seen \subseteq Ids /\ gone \subseteq Ids /\ touched \subseteq Ids
    /\ flawed \in BOOLEAN /\ sound \in BOOLEAN
    /\ changes \in 0..MaxChanges /\ faults \in 0..MaxFaults
    /\ disk \in [Ids -> Files \cup {None, Broken}] /\ parts \subseteq Ids
    /\ dead \subseteq Ids /\ doomed \subseteq Removals
    /\ queue \subseteq Ids /\ cur \in Ids \cup {None}

Init ==
    /\ TextInit
    /\ disk = [i \in Ids |-> None] /\ parts = {}
    /\ dead = {} /\ doomed = {} /\ sound = TRUE /\ queue = {} /\ cur = None

-----------------------------------------------------------------------------
(* A run begins and ends.                                                      *)

\* The run that is over leaves nothing in memory.
RunOver ==
    /\ pc' = "idle" /\ mode' = "run" /\ scope' = "media"
    /\ top' = 0 /\ at' = 0 /\ room' = 0 /\ buf' = Empty /\ seen' = {} /\ gone' = {}
    /\ flawed' = FALSE /\ touched' = {}
    /\ dead' = {} /\ doomed' = {} /\ sound' = TRUE /\ queue' = {} /\ cur' = None

\* The next timer activation.  Time has passed: the window has moved on.
Begin ==
    /\ pc = "idle"
    /\ pc' = "forward" /\ last' = "running"
    /\ scope' \in {"media", "text"}
    /\ top' = posted
    /\ edge' \in edge..top'
    /\ at' = cursor /\ room' = Limit
    /\ UNCHANGED <<posted, chat, rows, cursor, mode, buf, seen, gone, flawed, touched,
                   changes, faults, mediaVars>>

\* The chat is out of reach or rejected: its attachments are left alone.
BeginRefused ==
    /\ pc = "idle" /\ faults < MaxFaults
    /\ pc' = "survey" /\ last' = "running"
    /\ scope' = "refused" /\ flawed' = TRUE
    /\ faults' = faults + 1
    /\ UNCHANGED <<posted, chat, rows, cursor, mode, edge, passVars, touched, changes, mediaVars>>

Finish ==
    /\ pc = "media" /\ queue = {}
    /\ last' = IF flawed THEN "partial" ELSE "ok"
    /\ RunOver
    /\ UNCHANGED <<posted, chat, rows, cursor, edge, changes, faults, disk, parts>>

\* The process dies or an exception ends the run.  A row left running is marked
\* interrupted by the next run.
Crash ==
    /\ Working /\ faults < MaxFaults
    /\ last' \in IF mode = "run" THEN {"running", "failed"} ELSE {last}
    /\ RunOver
    /\ faults' = faults + 1
    /\ UNCHANGED <<posted, chat, rows, cursor, edge, changes, disk, parts>>

-----------------------------------------------------------------------------
(* fsck: every read precedes every mutation.                                   *)

Done(i) == rows[i].status = "done"

\* done_snapshot, list_files and stat; a .part file is a file that no row knows.
Surveyed ==
    /\ dead' = {i \in Ids : Done(i) /\ disk[i] # rows[i].file}
    /\ doomed' = ({i \in Ids : disk[i] # None /\ (Done(i) => i \in dead')} \X {"file"})
                 \cup (parts \X {"part"})

\* What follows fsck: nothing more in a command of its own.
AfterFsck(ok) ==
    IF mode = "run"
    THEN /\ pc' = "recalculate" /\ sound' = ok /\ flawed' = (flawed \/ ~ok)
         /\ UNCHANGED <<last, mode, scope, passVars, touched, queue, cur>>
         /\ dead' = {} /\ doomed' = {}
    ELSE RunOver /\ UNCHANGED last

Survey ==
    /\ pc = "survey"
    /\ Surveyed
    /\ \/ Cardinality(dead') <= Mass /\ Cardinality(doomed') <= Mass
       \/ mode = "confirm"
    /\ pc' = "reset"
    /\ UNCHANGED <<posted, chat, rows, cursor, last, mode, scope, passVars, edge, flawed, touched,
                   changes, faults, disk, parts, sound, queue, cur>>

\* Without the owner's word a mass repair is left alone, and so are transfers.
SurveyMass ==
    /\ pc = "survey" /\ mode # "confirm"
    /\ LET out == {i \in Ids : Done(i) /\ disk[i] # rows[i].file} IN
          \/ Cardinality(out) > Mass
          \/ Cardinality({i \in Ids : disk[i] # None /\ (Done(i) => i \in out)})
                + Cardinality(parts) > Mass
    /\ AfterFsck(FALSE)
    /\ UNCHANGED <<posted, chat, rows, cursor, edge, changes, faults, disk, parts>>

\* A listing, a stat or the reset transaction fails: nothing is touched.
FsckFails ==
    /\ pc \in {"survey", "reset"} /\ faults < MaxFaults
    /\ AfterFsck(FALSE)
    /\ faults' = faults + 1
    /\ UNCHANGED <<posted, chat, rows, cursor, edge, changes, disk, parts>>

ResetDone ==
    /\ pc = "reset"
    /\ rows' = [i \in Ids |-> IF i \in dead
                              THEN [file |-> rows[i].file, status |-> "pending", tries |-> 0]
                              ELSE rows[i]]
    /\ pc' = "remove"
    /\ UNCHANGED <<posted, chat, cursor, last, mode, scope, passVars, edge, flawed, touched,
                   changes, faults, mediaVars>>

Removed(f) ==
    IF f[2] = "file" THEN disk' = [disk EXCEPT ![f[1]] = None] /\ UNCHANGED parts
                     ELSE parts' = parts \ {f[1]} /\ UNCHANGED disk

Remove ==
    /\ pc = "remove"
    /\ \E f \in doomed : Removed(f) /\ doomed' = doomed \ {f}
    /\ UNCHANGED <<textVars, dead, sound, queue, cur>>

\* A file that cannot be removed stays for the next fsck.
RemoveFails ==
    /\ pc = "remove" /\ faults < MaxFaults
    /\ \E f \in doomed : doomed' = doomed \ {f}
    /\ sound' = FALSE /\ faults' = faults + 1
    /\ UNCHANGED <<posted, chat, rows, cursor, last, pc, mode, scope, passVars, edge, flawed,
                   touched, changes, disk, parts, dead, queue, cur>>

RemoveEnds ==
    /\ pc = "remove" /\ doomed = {}
    /\ AfterFsck(sound)
    /\ UNCHANGED <<posted, chat, rows, cursor, edge, changes, faults, disk, parts>>

-----------------------------------------------------------------------------
(* Attachments, newest first.                                                  *)

Recalculate ==
    /\ pc = "recalculate"
    /\ rows' = [i \in Ids |-> IF scope # "refused" /\ rows[i].status \in Unfinished
                              THEN [rows[i] EXCEPT !.status = Eligible] ELSE rows[i]]
    /\ queue' = IF sound /\ scope # "refused"
                THEN {i \in Ids : rows'[i].status = "pending"} ELSE {}
    /\ pc' = "media"
    /\ UNCHANGED <<posted, chat, cursor, last, mode, scope, passVars, edge, flawed, touched,
                   changes, faults, disk, parts, dead, doomed, sound, cur>>

First(i) == i \in queue /\ \A j \in queue : j <= i

\* mutant: attempts are counted and never run out.
FailureAgain(i, left) ==
    /\ rows' = [rows EXCEPT ![i].tries = @ + 1]
    /\ flawed' = (flawed \/ left)
    /\ queue' \in {queue \ {i}, {}}
    /\ pc' = "media" /\ cur' = None

\* media_failure: the third attempt is the last.  A flood wait ends the queue.
Failure(i, left) ==
    LET tries == rows[i].tries + 1 IN
    /\ rows' = [rows EXCEPT ![i] =
                  [file |-> rows[i].file, tries |-> tries,
                   status |-> IF tries >= Attempts THEN "failed" ELSE "pending"]]
    /\ flawed' = (flawed \/ left \/ tries >= Attempts)
    /\ queue' \in {queue \ {i}, {}}
    /\ pc' = "media" /\ cur' = None

\* The message is fetched again, and stored, before a file is opened.
Fetched(i) ==
    /\ pc = "media" /\ First(i) /\ Live(i)
    /\ rows' = [rows EXCEPT ![i] = Project(chat[i], rows[i])]

NotPending ==
    /\ \E i \in Ids :
          /\ Fetched(i) /\ rows'[i].status # "pending"
          /\ queue' = queue \ {i}
    /\ UNCHANGED <<posted, chat, cursor, last, pc, mode, scope, passVars, edge, flawed,
                   touched, changes, faults, disk, parts, dead, doomed, sound, cur>>

\* The route is closed, or the budget of the run is used up: the rest waits.
Defer ==
    /\ pc = "media" /\ queue # {}
    /\ UNCHANGED rows \/ \E i \in Ids : Fetched(i) /\ rows'[i].status = "pending"
    /\ queue' = {}
    /\ UNCHANGED <<posted, chat, cursor, last, pc, mode, scope, passVars, edge, flawed,
                   touched, changes, faults, disk, parts, dead, doomed, sound, cur>>

\* No space: whatever is pending is skipped until the next run.
OverQuota ==
    /\ pc = "media"
    /\ \E i \in Ids :
          /\ First(i) /\ Live(i)
          /\ Project(chat[i], rows[i]).status = "pending"
          /\ rows' = [j \in Ids |->
                IF j = i THEN [Project(chat[i], rows[i]) EXCEPT !.status = "skipped"]
                ELSE IF rows[j].status = "pending" THEN [rows[j] EXCEPT !.status = "skipped"]
                ELSE rows[j]]
    /\ queue' = {} /\ flawed' = TRUE
    /\ UNCHANGED <<posted, chat, cursor, last, pc, mode, scope, passVars, edge, touched,
                   changes, faults, disk, parts, dead, doomed, sound, cur>>

OpenPart ==
    /\ \E i \in Ids :
          /\ Fetched(i) /\ rows'[i].status = "pending"
          /\ cur' = i /\ parts' = parts \cup {i}
    /\ pc' = "send"
    /\ UNCHANGED <<posted, chat, cursor, last, mode, scope, passVars, edge, flawed, touched,
                   changes, faults, disk, dead, doomed, sound, queue>>

\* The message is gone, or its resolution fails.
ResolveFails ==
    /\ pc = "media"
    /\ \E i \in Ids :
          /\ First(i)
          /\ \/ ~Live(i) /\ UNCHANGED faults
             \/ faults < MaxFaults /\ faults' = faults + 1
          /\ Failure(i, FALSE)
    /\ UNCHANGED <<posted, chat, cursor, last, mode, scope, passVars, edge, touched,
                   changes, disk, parts, dead, doomed, sound>>

\* A complete file of the expected size is renamed over what is there.
Rename ==
    /\ pc = "send"
    /\ disk' = [disk EXCEPT ![cur] = rows[cur].file]
    /\ parts' = parts \ {cur}
    /\ pc' = "sent"
    /\ UNCHANGED <<posted, chat, rows, cursor, last, mode, scope, passVars, edge, flawed, touched,
                   changes, faults, dead, doomed, sound, queue, cur>>

\* The transfer fails or the route closes; the .part file is removed, or left.
SendFails ==
    /\ pc = "send" /\ faults < MaxFaults
    /\ \E left \in BOOLEAN :
          /\ parts' = IF left THEN parts ELSE parts \ {cur}
          /\ \/ Failure(cur, left)
             \/ /\ queue' = {} /\ flawed' = (flawed \/ left)
                /\ pc' = "media" /\ cur' = None
                /\ UNCHANGED rows
    /\ faults' = faults + 1
    /\ UNCHANGED <<posted, chat, cursor, last, mode, scope, passVars, edge, touched,
                   changes, disk, dead, doomed, sound>>

MediaDone ==
    /\ pc = "sent"
    /\ rows' = [rows EXCEPT ![cur].status = "done"]
    /\ pc' = "media" /\ queue' = queue \ {cur} /\ cur' = None
    /\ UNCHANGED <<posted, chat, cursor, last, mode, scope, passVars, edge, flawed, touched,
                   changes, faults, disk, parts, dead, doomed, sound>>

\* The file is in place and its row is not: an orphan for the next fsck.
MediaDoneFails ==
    /\ pc = "sent" /\ faults < MaxFaults
    /\ Failure(cur, FALSE)
    /\ faults' = faults + 1
    /\ UNCHANGED <<posted, chat, cursor, last, mode, scope, passVars, edge, touched,
                   changes, disk, parts, dead, doomed, sound>>

\* An error outside one transfer ends the stage, not the run.
StageFails ==
    /\ pc \in {"recalculate", "media"} /\ faults < MaxFaults
    /\ pc' = "media" /\ queue' = {} /\ flawed' = TRUE
    /\ faults' = faults + 1
    /\ UNCHANGED <<posted, chat, rows, cursor, last, mode, scope, passVars, edge, touched,
                   changes, disk, parts, dead, doomed, sound, cur>>

-----------------------------------------------------------------------------
(* The owner and the world outside.                                            *)

Fsck ==
    /\ pc = "idle" /\ changes < MaxChanges
    /\ mode' \in {"fsck", "confirm"} /\ pc' = "survey"
    /\ changes' = changes + 1
    /\ UNCHANGED <<posted, chat, rows, cursor, last, scope, passVars, edge, flawed, touched,
                   faults, mediaVars>>

\* The files are listed before the rows are deleted and removed after it.
Purge ==
    /\ pc = "idle" /\ changes < MaxChanges
    /\ mode' = "purge" /\ pc' = "purge"
    /\ doomed' = ({i \in Ids : disk[i] # None} \X {"file"}) \cup (parts \X {"part"})
    /\ changes' = changes + 1
    /\ UNCHANGED <<posted, chat, rows, cursor, last, scope, passVars, edge, flawed, touched,
                   faults, disk, parts, dead, sound, queue, cur>>

\* The chat's row and, by cascade, its messages.
PurgeRows ==
    /\ pc = "purge"
    /\ rows' = [i \in Ids |-> NoRow] /\ cursor' = 0
    /\ pc' = "remove"
    /\ UNCHANGED <<posted, chat, last, mode, scope, passVars, edge, flawed, touched,
                   changes, faults, mediaVars>>

Damage ==
    /\ changes < MaxChanges
    /\ \E i \in Ids, c \in {None, Broken} :
          /\ disk[i] \in Files
          /\ disk' = [disk EXCEPT ![i] = c]
          /\ touched' = IF Working THEN touched \cup {i} ELSE touched
    /\ changes' = changes + 1
    /\ UNCHANGED <<posted, chat, rows, cursor, last, pc, mode, scope, passVars, edge, flawed,
                   faults, parts, dead, doomed, sound, queue, cur>>

-----------------------------------------------------------------------------
Step ==
    \/ TextStep /\ UNCHANGED mediaVars
    \/ Survey \/ SurveyMass \/ ResetDone \/ Remove \/ RemoveEnds
    \/ Recalculate \/ NotPending \/ Defer \/ OverQuota \/ OpenPart \/ ResolveFails
    \/ Rename \/ MediaDone \/ PurgeRows \/ Finish

Fault ==
    \/ (Omit \/ ChatFails) /\ UNCHANGED mediaVars
    \/ BeginRefused \/ Crash \/ FsckFails \/ RemoveFails
    \/ SendFails \/ MediaDoneFails \/ StageFails

Outside ==
    \/ (Post \/ Change) /\ UNCHANGED mediaVars
    \/ Damage \/ Fsck \/ Purge

Next == Begin \/ Step \/ Fault \/ Outside

Spec == Init /\ [][Next]_vars

\* A run goes on until it ends or fails, and the timer starts another.
FairSpec == Spec /\ WF_vars(Step) /\ WF_vars(Begin)

-----------------------------------------------------------------------------
Archivable(i) == Live(i) /\ chat[i] # "service"

\* No hole below the cursor, which no later forward pass looks at again: every
\* message up to it that Telegram still has is archived, whatever was cut short
\* by the limit, a failure or a crash, and whatever the window deletes.
CursorSound == \A i \in 1..cursor : Archivable(i) => i \in Archived

Intact(i) == Done(i) /\ disk[i] = rows[i].file

\* The directory and the rows change in separate steps, yet no step of the
\* collector, of fsck or of purge leaves a row done without its file: such a row
\* was damaged from outside, before or while the run transferred it.
DoneIsKept ==
    [][ ~Damage => \A i \in Ids : Done(i)' /\ ~Intact(i)' =>
            ~Intact(i) /\ (Done(i) \/ i \in touched) ]_vars

\* A run ends "ok" only over an archive that agrees with Telegram as it was
\* during the run: every message up to its start is archived, the window shows
\* today's attachments and none of the deleted messages, every done row has its
\* file, and no partial file or file of a forgotten message is left.
OkIsComplete ==
    [][ last = "running" /\ last' = "ok" =>
          /\ \A i \in 1..top \ touched :
                IF Archivable(i) THEN i \in Archived ELSE i > edge => i \notin Archived
          /\ \A i \in edge + 1..top : i \notin touched /\ chat[i] \in Files =>
                rows[i].file = chat[i]
          /\ \A i \in Ids \ touched : Done(i) => Intact(i)
          /\ \A i \in Ids : disk[i] # None => i \in Archived
          /\ parts = {} ]_vars

\* How far the transfer of a row's attachment is.
Transfer(i) ==
    IF rows[i].file = None THEN "none"
    ELSE IF pc = "sent" /\ cur = i THEN "placed"
    ELSE IF rows[i].status \in Unfinished THEN "open"
    ELSE IF Done(i) THEN "kept" ELSE "failed"

Attachments == INSTANCE Attachment WITH
    Messages <- Ids,
    row <- [i \in Ids |-> [want |-> rows[i].file, state |-> Transfer(i),
                           tries |-> rows[i].tries]],
    held <- disk,
    acts <- changes

\* To the owner and to the reader of files, whatever the passes, the queue, fsck,
\* purge, failures and crashes do: no attachment is kept, taken away, given up
\* or tried again but as Attachment allows (media.py, fsck.py, maintenance.py).
ImplementsAttachment == Attachments!Spec

\* When Telegram and the owner have come to rest, the archive comes to agree:
\* every message is archived, and within the window attachments are those of
\* today and deleted messages are gone, if the window fits max_per_chat_run.
CatchesUp ==
    <>[](\A i \in Ids :
           IF Archivable(i)
           THEN i \in Archived /\ (i > edge /\ chat[i] \in Files => rows[i].file = chat[i])
           ELSE i > edge => i \notin Archived)
=============================================================================
