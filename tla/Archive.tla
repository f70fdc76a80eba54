------------------------------ MODULE Archive -------------------------------
(* The text half of a Telegram collector run over one chat: the forward pass  *)
(* from the cursor, the refresh pass over the window of recent messages, and  *)
(* the deletion of what Telegram confirms gone (tg_archive/collector.py, with *)
(* the tables of database.py).  The other half, attachments and the commands  *)
(* of the owner, is module Collector.                                         *)
(*                                                                            *)
(* Abstractions.  A message is its id and its content: an attachment, text    *)
(* alone, or a service message, which is never archived.  Dates follow ids,   *)
(* so the start of a run is the greatest id posted by then (top) and the      *)
(* start of the refresh window an id as well (edge).  One chat; backfill_done *)
(* and the counters, which no decision reads, are left out.                   *)
EXTENDS Naturals, FiniteSets

CONSTANTS
    Files,          \* media_file_id of attachments
    None,           \* nothing: not yet posted, no file
    Batch,          \* messages per transaction: 500 in read_pass
    Limit,          \* max_per_chat_run
    MaxId,          \* bound: messages ever posted
    MaxChanges,     \* bound: edits, deletions, damage and owner commands
    MaxFaults       \* bound: steps that fail and runs that die

VARIABLES
    posted, chat,   \* what Telegram has: the last id, and content by id
    rows,           \* tg_message by id
    cursor,         \* tg_chat.cursor_msg_id
    last,           \* status of the newest sync_run
    pc, mode,       \* the process that holds sync.lock, and its command
    scope,          \* what the run may take of the chat
    top, edge,      \* until, and the start of the window, as ids
    at, room,       \* position of the pass; what max_per_chat_run leaves
    buf,            \* read since the last commit: content by id
    seen, gone,     \* ids of the refresh pass; candidates confirmed deleted
    flawed,         \* the run has met a reason to end "partial"
    touched,        \* ids changed from outside since the run began
    changes, faults \* the bounded counters

passVars == <<top, at, room, buf, seen, gone>>
textVars == <<posted, chat, rows, cursor, last, pc, mode, scope, passVars, edge, flawed,
              touched, changes, faults>>

ASSUME CollectorBounds ==
    /\ Batch \in Nat \ {0} /\ Limit \in Nat \ {0}
    /\ MaxId \in Nat /\ MaxChanges \in Nat /\ MaxFaults \in Nat
    /\ None \notin Files /\ {"text", "service", "gone"} \cap (Files \cup {None}) = {}

Ids == 1..MaxId
Contents == Files \cup {"text", "service"}
NoRow == [file |-> None, status |-> "absent", tries |-> 0]
Empty == [i \in Ids |-> None]
TextRow == [file |-> None, status |-> "none", tries |-> 0]
Unfinished == {"pending", "skipped"}
Live(i) == chat[i] \in Contents
Archived == {i \in Ids : rows[i] # NoRow}
Working == pc # "idle"

TextInit ==
    /\ posted = 0 /\ chat = [i \in Ids |-> None]
    /\ rows = [i \in Ids |-> NoRow]
    /\ cursor = 0 /\ last = "none"
    /\ pc = "idle" /\ mode = "run" /\ scope = "media"
    /\ top = 0 /\ edge = 0 /\ at = 0 /\ room = 0
    /\ buf = Empty /\ seen = {} /\ gone = {}
    /\ flawed = FALSE /\ touched = {} /\ changes = 0 /\ faults = 0

-----------------------------------------------------------------------------
(* Telegram.                                                                  *)

Post ==
    /\ posted < MaxId
    /\ posted' = posted + 1
    /\ \E c \in Contents : chat' = [chat EXCEPT ![posted'] = c]
    /\ UNCHANGED <<rows, cursor, last, pc, mode, scope, passVars, edge, flawed,
                   touched, changes, faults>>

\* A message is edited, its attachment replaced, or it is deleted for good.
Change ==
    /\ changes < MaxChanges
    /\ \E i \in 1..posted, c \in Files \cup {"text", "gone"} :
          /\ Live(i) /\ chat[i] # c
          /\ chat[i] = "service" => c = "gone"
          /\ chat' = [chat EXCEPT ![i] = c]
          /\ touched' = IF Working THEN touched \cup {i} ELSE touched
    /\ changes' = changes + 1
    /\ UNCHANGED <<posted, rows, cursor, last, pc, mode, scope, passVars, edge, flawed, faults>>

-----------------------------------------------------------------------------
(* What a commit writes.                                                      *)

Eligible == IF scope = "media" THEN "pending" ELSE "skipped"

\* mutant: an attachment replaced by another keeps its transfer state.
ProjectKept(c, old) ==
    IF c \notin Files THEN TextRow
    ELSE IF old.status \in {"done", "failed"} THEN [old EXCEPT !.file = c]
    ELSE [file |-> c, status |-> Eligible, tries |-> 0]

\* project_message and transition: the state of a transfer outlives an edit
\* only of the same attachment.
Project(c, old) ==
    IF c \notin Files THEN TextRow
    ELSE IF old.file # c THEN [file |-> c, status |-> Eligible, tries |-> 0]
    ELSE IF old.status \in {"done", "failed"} THEN old
    ELSE [old EXCEPT !.status = Eligible]

Stored ==
    [i \in Ids |-> IF buf[i] \in {None, "service"} THEN rows[i] ELSE Project(buf[i], rows[i])]

Later(i, j) == IF i > j THEN i ELSE j

\* mutant: the cursor of a batch is the end of the run.
CommitToEnd ==
    /\ rows' = Stored
    /\ cursor' = IF pc = "forward" THEN top ELSE cursor
    /\ buf' = Empty

\* mutant: the refresh pass does not write what it reads.
CommitForward ==
    /\ rows' = IF pc = "forward" THEN Stored ELSE rows
    /\ cursor' = IF pc = "forward" THEN Later(at, cursor) ELSE cursor
    /\ buf' = Empty

\* Rows and cursor in one transaction; the refresh pass passes no cursor.
Commit ==
    /\ rows' = Stored
    /\ cursor' = IF pc = "forward" THEN Later(at, cursor) ELSE cursor
    /\ buf' = Empty

-----------------------------------------------------------------------------
(* The passes.                                                                *)

BatchFull == Cardinality({i \in Ids : buf[i] # None}) = Batch
Ahead == {i \in at + 1..top : Live(i)}

InTurn(i) == i \in Ahead /\ \A j \in Ahead : i <= j

Read ==
    /\ pc \in {"forward", "refresh"}
    /\ ~BatchFull /\ room > 0
    /\ \E i \in Ids :
          /\ InTurn(i)
          /\ at' = i
          /\ buf' = [buf EXCEPT ![i] = chat[i]]
          /\ seen' = IF pc = "refresh" THEN seen \cup {i} ELSE seen
    /\ room' = room - 1
    /\ UNCHANGED <<posted, chat, rows, cursor, last, pc, mode, scope, top, edge, gone,
                   flawed, touched, changes, faults>>

\* The history of the window may lack a message that is there by its id.
Omit ==
    /\ pc = "refresh" /\ faults < MaxFaults
    /\ \E i \in Ids : InTurn(i) /\ at' = i
    /\ faults' = faults + 1
    /\ UNCHANGED <<posted, chat, rows, cursor, last, pc, mode, scope, top, room, buf, seen,
                   gone, edge, flawed, touched, changes>>

FullBatch ==
    /\ pc \in {"forward", "refresh"}
    /\ BatchFull
    /\ Commit
    /\ UNCHANGED <<posted, chat, last, pc, mode, scope, top, at, room, seen, gone, edge, flawed,
                   touched, changes, faults>>

\* A message more than the limit ends the chat for this run.
OverLimit ==
    /\ pc \in {"forward", "refresh"}
    /\ room = 0 /\ Ahead # {}
    /\ Commit
    /\ pc' = "survey" /\ flawed' = TRUE
    /\ UNCHANGED <<posted, chat, last, mode, scope, top, at, room, seen, gone, edge, touched,
                   changes, faults>>

ForwardDone ==
    /\ pc = "forward" /\ Ahead = {}
    /\ Commit
    /\ pc' = "refresh" /\ at' = edge /\ seen' = {}
    /\ UNCHANGED <<posted, chat, last, mode, scope, top, room, gone, edge, flawed, touched,
                   changes, faults>>

RefreshDone ==
    /\ pc = "refresh" /\ Ahead = {}
    /\ Commit
    /\ pc' = "verify"
    /\ UNCHANGED <<posted, chat, last, mode, scope, top, at, room, seen, gone, edge, flawed,
                   touched, changes, faults>>

Candidates == {i \in Archived : i > edge /\ i <= top} \ seen

\* mutant: a message missing from the history is deleted without a point check.
VerifyNothing ==
    /\ pc = "verify"
    /\ gone' = Candidates
    /\ pc' = "recover"
    /\ UNCHANGED <<posted, chat, rows, cursor, last, mode, scope, top, at, room, buf, seen, edge,
                   flawed, touched, changes, faults>>

\* All point checks come before any deletion.
Verify ==
    /\ pc = "verify"
    /\ gone' = {i \in Candidates : ~Live(i)}
    /\ buf' = [i \in Ids |-> IF i \in Candidates \ gone' THEN chat[i] ELSE None]
    /\ pc' = "recover"
    /\ UNCHANGED <<posted, chat, rows, cursor, last, mode, scope, top, at, room, seen, edge,
                   flawed, touched, changes, faults>>

Recover ==
    /\ pc = "recover"
    /\ Commit
    /\ pc' = "forget"
    /\ UNCHANGED <<posted, chat, last, mode, scope, top, at, room, seen, gone, edge, flawed,
                   touched, changes, faults>>

DeleteConfirmed ==
    /\ pc = "forget"
    /\ rows' = [i \in Ids |-> IF i \in gone THEN NoRow ELSE rows[i]]
    /\ pc' = "survey"
    /\ UNCHANGED <<posted, chat, cursor, last, mode, scope, passVars, edge, flawed, touched,
                   changes, faults>>

\* Whatever fails in the chat, the attachments still have their stage; a lost
\* access alone excludes those of the chat.
ChatFails ==
    /\ pc \in {"forward", "refresh", "verify", "recover", "forget"}
    /\ faults < MaxFaults
    /\ pc' = "survey" /\ flawed' = TRUE /\ buf' = Empty
    /\ scope' \in {scope, "refused"}
    /\ faults' = faults + 1
    /\ UNCHANGED <<posted, chat, rows, cursor, last, mode, top, at, room, seen, gone, edge,
                   touched, changes>>

TextStep ==
    \/ Read \/ FullBatch \/ OverLimit \/ ForwardDone \/ RefreshDone
    \/ Verify \/ Recover \/ DeleteConfirmed

=============================================================================
