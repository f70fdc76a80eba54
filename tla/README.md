# TLA+ project for `ubuntu_ansible_palybooks`

The repository is an Ansible tree that deploys several services. What it
*contains*, apart from configuration, is a handful of programs of its own whose
correctness rests on protocol: on transactions that interleave, on processes
that die half way, on remote work that is stopped too late or twice. This
project models four of them, checks the models with TLC and proves the
central safety properties of all four with TLAPS:

* the **RP gateway** (`roles/apps/files/rp-stack/rp-gateway/app`), a FastAPI
  service that keeps interactive stories ("Parties") in SQLite, narrates turns
  with a language model and maintains derived state with background jobs;
* the **Telegram collector** (`roles/telegram_collector/files/src/tg_archive`),
  a timer-driven archive of chats in PostgreSQL with attachments on disk;
* the **NGFW lab** (`roles/ngfw_lab/files`), which drives load through an
  appliance and must never lose track of what it started;
* the **Security Lab** (`roles/apps/files/security-lab/security_lab`), a daemon
  that admits, watches and closes approved runs on a remote host.

Paths below are relative to these directories, or to the repository when they
start with `docs/`.

## 1. Inventory

### RP gateway

| Component | State | Operations | Hard behaviour | What makes it correct |
|---|---|---|---|---|
| Narration (`rp/narrator.py`, `rp/turn_engine.py`, `main.py`) | `rp_parties.current_version`, `rp_turns`, `rp_narration_requests` | `party_message`, `start_party`; claim, complete, fail, replay, wait; `commit_turn`, `commit_opening`; recovery | coroutines interleave between transactions; retries, duplicates, rivals; process death; a second process that recovers the same database | each message is committed at most once, replies quote durable turns, stale claims write nothing, nothing blocks a Party |
| Background jobs (`rp/runner.py`, `rp/mechanics.py`, `rp/turn_engine.py`) | `rp_service_jobs`, `rp_administrator_jobs` | queue with the turn, `enqueue_player_operation`, claim, handle, record, complete, fail, release, recover | two loops per process, several processes, cancellation in a model call, bounded attempts | effects once, in the order of turns, none stuck, all settle |
| Story memory (`rp/memory.py`, `rp/mechanics.py`, `rp/narrator.py`) | `rp_story_memory_snapshots` | `_update_story_memory`, `append_story_memory`, `select_raw_turns` | interrupted and failed jobs, merging of chunks, two independent computations of what is covered | no turn missing from the prompt, coverage never goes back, memory keeps up |
| Player corrections (`main.py`, `rp/turn_engine.py`, `rp/narrator.py`) | `rp_player_correction_proposals`, `_overlays` | draft, propose, decide, project | decisions run in worker threads and read the catalog outside their transaction; turns commit meanwhile; retried and rival decisions | one overlay per turn, in that turn's prompt only, decisions agree |
| Guidance, relationships, Lore | their tables | one transaction each, after a job | covered as jobs | single transactions, see 7 |

A commit (narration) queues jobs in the same transaction; the narrator waits, up
to a deadline, for the jobs of the last turn, then reads memory, relationships,
Lore, guidance and the correction overlay for its prompt. The worker loops run
in the event loop of the narrations, whereas the plain `def` endpoints
(decisions) run in worker threads. All shared state is in SQLite, and every
write is a `BEGIN IMMEDIATE` transaction or one statement: that is the grain of
the steps of these modules.

### Telegram collector

| Component | State | Operations | Hard behaviour | What makes it correct |
|---|---|---|---|---|
| Text (`collector.py`, `database.py`, `content.py`) | `tg_message` rows, the cursor of a chat, the run's status | forward pass and refresh window in batches, point checks, deletions | limits, failures and crashes between batches; a listing that lacks messages; edits and deletions meanwhile | no hole below the cursor; `ok` only over an archive that agrees |
| Attachments (`media.py`, `fsck.py`) | the attachment directory, `.part` files, status and attempts per row | reconcile, recalculate, transfer queue, bounded attempts | directory and database change in separate steps; a file replaced while its predecessor is transferred | a done row keeps its file, nothing is left over |
| Owner's commands (`maintenance.py`) | the same | `fsck`, `purge` | die between rows and files | the same |

One process at a time holds `sync.lock`; the kernel frees it with the process.

### NGFW lab

| Component | State | Operations | Hard behaviour | What makes it correct |
|---|---|---|---|---|
| Load job (`traffic/job.py`) | a marker with the pid, a `.cancel` file, the child | `run`, `stop`, watchdog | stop races the start | a cancelled load never goes on |
| Traffic matrix (`runner.py`) | rows, run status on disk | ladder of kinds, one repeat after a warning, stops | a stopped kind, lost exec clients | `completed` means every step is accounted for |
| Extreme window (`extreme/controller.py`) | window receipt | preflight, baseline, load of several components, stop, recover, normalise | one component of several fails, remote stops unconfirmed | a receipt never says more than was seen |
| Endpoints and capacity (`extreme/control_capacity.py`) | compose project, switch record, anchor, receipts | `install-endpoints`, `capture-dut`, `run`, `finalize` | switches that fail or are killed between any two of their writes, restarts by Docker, receipts of different invocations joined | no load runs over the wrong path; a final receipt describes one topology |

All of them share one flock, `.runner.lock`. It goes with a killed controller,
its loads do not.

### Security Lab

| Component | State | Operations | Hard behaviour | What makes it correct |
|---|---|---|---|---|
| Controller (`controller.py`, `research.py`) | `control.db`: stage and generation of a case, versions of scope and action plan, jobs with outcome, campaign with tasks | propose, activate, extend, resume, stop, prepare, finish; restart | approvals that change between the decision to run and the run; several actions of one plan | an active job runs what is approved now, and each action of a plan once |
| Native runs (`compose_service.py`, `compose_runtime.py`) | coroutines, lanes, the gate `preparing`; the containers of the host | launch, watch, close; lanes for a campaign beside the operator | cancellation at any await, remote calls cut off, stops unconfirmed | it is known which run has nobody to close it and what may be left on a host; runs that are watched share no host |
| Campaign (`research.py`, `mcp_server.py`) | driver task | segments one after another, pause, stop | the driver cancelled while it launches, waits or aborts | nothing revoked becomes a success |

### The rest of the repository

Provider clients, accounts, content packs and the browser GUI of the gateway;
the collector's MCP reader; planning and analysis of measurements; metric and
log collectors; the NGFW policy module; VPN egress and routes; a task reminder;
the Ansible roles, playbooks and validators. Section 7 says why they are left
out.

## 2. Modules

| Module | Role |
|---|---|
| `TurnLog` | abstract: an exactly-once log and truthful replies |
| `Authoring` | abstract: one author at a time, who asks the model, then commits one turn or stops |
| `JobOrder` | abstract: the jobs of a kind write and end in the order of their turns |
| `Narration` | detailed: claims, retries, joins, recoveries; implements `TurnLog` and `Authoring` |
| `NarrationProofs` | TLAPS proofs about `Narration` |
| `Corrections` | player corrections and the prompt of the next turn; implements `Authoring` |
| `CorrectionsProofs` | TLAPS proofs about `Corrections` |
| `ServiceJobs` | job queue and worker loops; implements `JobOrder` |
| `ServiceJobsProofs` | TLAPS proofs about `ServiceJobs` |
| `StoryMemory` | chunks, coverage, verbatim window; implements `JobOrder` |
| `StoryMemoryProofs` | TLAPS proofs about `StoryMemory` |
| `Attachment` | abstract: the life of one attachment, from a row that wants it to a file that is kept |
| `Archive` | the collector's text: passes, batches, cursor, deletions |
| `Collector` | `Archive` with attachments, fsck, purge, runs; extends it; implements `Attachment` |
| `CollectorProofs` | TLAPS proofs about `Collector`: the cursor and the files |
| `CompletenessProofs` | TLAPS proof about `Collector`: what `ok` means |
| `LoadControl` | abstract: what `job.py` promises about a load that somebody stops |
| `LoadJobs` | `job.py` in the container, with the exec clients that call it |
| `Executor` | `execute_components` and `stop_jobs`; extends `LoadJobs` |
| `Window` | `execute_window`; extends `Executor` |
| `Endpoints` | endpoint switch and capacity run; extends `Executor` |
| `Matrix` | the traffic matrix; extends `LoadJobs` |
| `Lab` | composition of `Window`, `Endpoints` and `Matrix` under one lock; implements `LoadControl` |
| `LabProofs` | TLAPS proofs about `Lab` |
| `Approval` | abstract: runs begin, end and are revoked under approvals |
| `Cases` | the Controller: one transaction each |
| `NativeRuns` | `ComposeRunService` over `Cases` |
| `SecurityLab` | composition with the campaign driver, the operator and restarts; implements `Approval` |
| `SecurityLabProofs` | TLAPS proofs about `SecurityLab` |
| `MC*` | instances for TLC |

**Composition.** `Narration`, `ServiceJobs`, `StoryMemory` and `Corrections` are
modelled one by one; what one of them takes from another is a specification of
its own, and both sides implement it:

- `StoryMemory` has one queue of jobs and no worker loops. That its jobs begin
  and write in the order of their turns, that a job taken away by a recovery may
  be run again, and that its old handler may still write, is `JobOrder`.
  `ServiceJobs`, which has the loops and no chunks, implements it too
  (`ImplementsOrder` in both).
- `Corrections` has one narration and no claims. That at most one narration is
  on its way, that it commits exactly the next turn, and that it may stop at
  any time, is `Authoring`, which `Narration` implements with its coroutines,
  rivals and recoveries (`ImplementsAuthoring` in both).

An implementation shows that a component stays within the interface. That
the component on the other side takes everything the interface allows is by
reading: each action of the interface is one of its actions. `ServiceJobs` takes
the commit of a turn as one action that queues its jobs.
`Lab` and `SecurityLab` are real compositions: the components act on the same
job slots and lock, or on the same cases, lanes and containers, and their steps
interleave. What all of it looks like from outside is an abstract specification
again. `LoadControl` knows of a load only whether it was asked for, begun and
kept, whether its generator runs, who asked to stop it and who was told so; the
four controllers, their exec clients, lost calls, kills and new endpoints all
map to it (`ImplementsLoadControl`). `Approval` knows the approval in force and
the status of each run, neither lanes nor hosts, monitors or a campaign
(`ImplementsApproval`). `Attachment` is what the owner and the reader of files
see of the collector: per message, the attachment it should have, how far its
transfer is, the attempts that failed and the file that is there
(`ImplementsAttachment`).

**State and actions.**

*Narration.* `version`, `turns`, and per idempotency key `status`, `input`,
`claim`, `turnOf` are the columns of the tables. `pc` and `work` are the
coroutines: `Receive` (endpoint up to the replay check), `Claim` with its five
outcomes (conflict, replay, join, refusal, acquisition), `Prepare` (waiting
for jobs, re-reading the Party), `GiveUp` (any failure of prompt or provider,
or a cancellation), `Complete` (`_commit_raw` with a token), `FailClaim`,
`Poll`. `Crash`, `Start` and `RecoverElsewhere` are process deaths and
recoveries; `CommitTurn` is the path of the code without a claim.

*Corrections.* A correction is its job, then its proposal (`status`); `reads` is
what a worker thread has read for the decision it is going to make, in two
steps (turns, memory); `Decide` is the transaction with all its outcomes;
`narr`, `prompt`, `used` are the narration that goes on at the same time.

*ServiceJobs.* `status`, `attempts`, `owner`, `result` are columns; `effects`
counts what a handler wrote to the Party; `pc`, `work`, `base` are the worker
loops. One action for every transaction of a loop.

*StoryMemory.* `snapshots` is the table, `outcome` the end of each job, `plan`
what the running handler has in hand between its reads and its append, `lost`
the handlers whose job a recovery gave to somebody else (`Recover`). A lost
handler goes on: it may begin (`BeginLost`) and append (`AppendLate`) beside the
job's new owner, until `LostEnds`. `Plans` are the results the handler may build
from the row it has read, `AppendOnBase` is the guard of `append_story_memory`.

*Archive, Collector.* `chat` is what Telegram has, by message id; `rows`,
`cursor` and `last` are the database, `disk` and `parts` the directory. `pc`
with `buf`, `at`, `top`, `edge`, `gone` is the running process: `Read` and
`Commit` for the passes, `Verify` and `DeleteConfirmed` for what the listing
lacked, `Survey`, `ResetDone` and `Remove` for fsck, `OpenPart`, `Rename`,
`MediaDone` for one transfer. `Post`, `Change`, `Omit`, `Damage` are the world.

*Lab.* Per slot, `run`, `child`, `cancel` and `stopper` are a job in the container
(with its generator, its `.cancel` file and the `stop` that may race it) and
`local` the exec client that started it. The controllers' programs are `xpc`
(executor), `wpc` (window), `mpc` (matrix) and `cpc` (endpoints); `wdisk`,
`mdisk`, `switch`, `anchor`, `capacity`, `final`, `isolation` are the files they
leave for later invocations. An install first marks the lab as managed
(`.extreme-managed`, `managed`) and only then reads its candidate and records the
transition (`InstallBegins`, `InstallRecords`); a candidate that cannot be read, or
a kill in between, leaves the mark beside the record of the switch before.
`Crash` frees the lock and leaves the jobs.

*Security Lab.* `state`, `gen`, `scope`, `plan`, `jobs`, `camp`, `tasks` are
`control.db`; `adm` is where a caller's coroutine awaits (DNS, launch, abort),
`mon` the monitor task of a job, `lanes` and `preparing` the service's own
fields, `proc` the container of a job, `drv` the campaign driver, `stopping` a
`stop_case` that waits for it. Between two awaits a coroutine is alone, so an
action is what happens from one await to the next. The job's record keeps what
its command was compiled from (`built`) beside what it is bound to (`bind`), the
finding that the action of a plan is for, and how the run ended (`over`): closed,
not closed, with a result that `finish_job` refused for its size, or abandoned by
a coroutine that an error or a kill ended. `proc` is `loose` when a launch that was
cut off may still create its container after the stop was confirmed.

**Mutants.** Definitions marked `mutant` are wrong variants of the definition
that follows them. No specification uses them. With one put in place of its
original, the property named with it in `PROJECT.json` fails in the same run,
which shows that the property depends on the code it is about.

## 3. Order of work, and what is left

The modules were written in the order in which a mistake would cost most:
narration with its proofs, jobs, corrections, memory; the lab, because a load
that is lost keeps hitting an appliance; the collector, whose data cannot be
collected again; the Security Lab. What could follow is listed with its reason
in section 7; no part of it hides an interleaving that the modules here leave
out, except the hypothesis ledger and the outbox of the Security Lab.

## 4. Runs

Sizes are distinct states; each run takes less than three minutes with two
workers.

| Run | Instance | Shows |
|---|---|---|
| `narration` | 2 coroutines, 3 keys, 6 messages, 3 claims, 1 crash or foreign recovery, seeded turns; 163 k | the invariants, fencing, the refinements of `TurnLog` and of `Authoring`; every call is answered and every narration ends |
| `corrections` | 2 corrections (one oversize), 2 threads, 2 decision keys, 3 turns; 1.1 M | overlays unique and used in their turn, decisions fresh and in agreement |
| `corrections_live` | 1 correction, 1 thread, 3 turns; 4 k | the Party goes on; an overlay accepted in time is used |
| `corrections_late` | expected violation | finding 1 |
| `corrections_oversize` | expected violation | finding 2 |
| `service_jobs` | 2 processes, story-memory jobs of 2 turns, one player operation, 2 attempts; 551 k | effects once, nothing stuck, the refinement of `JobOrder` |
| `service_jobs_live` | 1 process, 2 job types, 2 turns, 2 attempts; 109 k | all jobs settle |
| `story_memory` | window 1, batches of 2, 13 turns, 1 handler that has lost its job; 242 k | sound plans, no blind spot, a bounded tail, a memory that only grows and stops after a failure, the refinement of `JobOrder` |
| `collector` | 2 attachments, 2 messages, batches of 1, a limit of 2, 1 fault, 1 outside event; 993 k | no hole below the cursor, done rows keep their files, `ok` means agreement, and agreement comes; the refinement of `Attachment` |
| `lab` | 2 slots, 2 configurations, a ladder of two steps of one kind, work for two invocations, 1 killed controller, an ordinary or a managed lab at first; 2.5 M | no silent leftover, the path is what the records say, receipts are sound |
| `lab_live` | 1 slot, work for two invocations, 1 killed controller; 79 k | every invocation frees the lock, every load ends, the refinement of `LoadControl` |
| `security_lab` | 2 hosts, 2 findings, 3 jobs, 1 task, 1 operator request at a time; 160 k | jobs are accounted for, bound to the approval of now, apart on their hosts, and recorded truthfully; the refinement of `Approval` |

**Why the bounds are enough.** *Narration*: two coroutines are enough for every
race of two transactions (a third is always at rest between them), and the six
messages contain an exact duplicate, a retry without its header, a key reused
for another text, an identifier reused under another key, and rivals for one
version. Three claims allow a claim, its loss in a recovery and a second claim
of the same key or of a rival. When the claims are used up and everybody is
idle, the model stops. *Corrections*: two of each actor give all races; with
three versions an overlay can be due before, at and after a commit.
*ServiceJobs*: two jobs of one type are enough for order, two processes for a
foreign recovery, two attempts for a retry and a last attempt; the model stops
when the jobs of all turns are over and the processes are down. Two job types
in the liveness run give both loops work. *StoryMemory*: window and batch stand
for 50 and 8; thirteen turns in batches of two produce merges of merged chunks
(the third level) and new chunks beside them. One handler without its job is
enough for an append beside, before and after that of the job's new owner; the
proofs have any number. The code decides by the length of the prompt whether
it merges, the model at any time, so merges may also come late and many at once.
The system stops when the last turn's job is over.

*Collector*: two messages are the least with one inside and one outside the
window, one below and one above the cursor; one fault and one outside event may
come at any step, and the proofs of section 5 have no such bounds. The forward
pass cannot exceed its limit with two messages (a chat with more is
covered by the proofs); the refresh pass can. `MaxChanges` and `MaxFaults` end
the world's activity, so the model may stop there. *Lab*: `MaxWork` bounds the
invocations of a history: a load costs two, a switch one, a load of several
components all. Two slots let an old load meet a new one. A ladder of two steps of
one kind has a step to leave out after a stop; the statuses of a step are
chosen freely. Both runs start with a lab of either kind, one the extreme tools
manage or an ordinary one that the first install marks. *Security Lab*:
generations, versions, plans and restarts are
**not** bounded: the view of the run tells them apart only by whether they are
those of now, which is all that the code compares, findings by which jobs and
requests are for the same one, and settled jobs by what they
leave. Jobs are a budget (`scope.budget.jobs`). Two of any kind are enough for an
old job to be closing while another is admitted; the third is there for plans
with several actions, and `Bound` allows it for no more: it is a second action of
the plan of the second job, and while it waits nothing else does. The proofs of
section 5 have any budget and no such bound. One operator request at a time beside the
campaign gives two admissions; a third would be refused by the lanes.

**Symmetry** is used for processes, worker threads, decision keys, slots and
configurations, in runs without liveness properties only.

**Fairness.** *Gateway*: weak fairness on a coroutine's or a loop's next step:
asyncio runs every ready task, and every provider call ends because its HTTP
client has a timeout. Weak fairness on `Start`: the container is restarted.
Nothing makes a client send or a player go on. `Corrections` needs strong
fairness for the steps of a narration because each try may be interrupted; it
says that failures are transient for a player who keeps trying. `ServiceJobs`
asks that at some time the process stops dying and being stopped: a job that is
interrupted over and over never ends, since a release is deliberately not an
attempt. *Collector*: weak fairness on the run's next step and on `Begin`, which
is the timer. *Lab*: weak fairness on each controller's next step while it
lives, on the end of normalisation (its deadline), and on the job scripts in
the container; nothing makes a stop arrive, or a controller that was killed
come back. The Security Lab has no liveness run: its closings wait for a remote
host that may never answer.

## 5. Proofs

`NarrationProofs` proves for every set of coroutines, keys, headers, bodies and
messages, any number of claims and restarts, and both settings of `Overlap` and
`Seeding`, from the assumptions named in `Narration` only:

- `InductiveInvariant`: `Spec => []IInv`.
- `TypeInvariant`, `HistoryExactlyOnce`, `RepliesAreDurable`, `ClaimsAreHeld`,
  `SuccessIsCommitted`: parts of `IInv`, which the run `narration` checks: what
  the log holds, what a reply quotes, who holds a claim and what a success
  points at.
- `ClaimsAreFenced`: the action property `Fenced`.
- `NarrationImplementsLog`: `Spec => Log!Spec`, the refinement of `TurnLog`.
- `NarrationImplementsAuthoring`: `Spec => OneAuthor!Spec`, the refinement of
  `Authoring`. The author is the coroutine that owns the running request; a
  recovery stops it, and whatever that coroutine does later is a stutter.

The safety properties are not inductive by themselves. `IInv` adds four
facts: `HandlersSound` (a coroutine has a token exactly between its claim and
its end, and tokens are below `nextToken`), `ClaimsSound` (a request has a token
exactly while it runs), `HoldersAgree` (who holds the current token of a
request works for its input) and `TokensUnique` (no two coroutines have the same
token). Without the first two a stale coroutine could own a newer claim; without
the third a commit could carry another input than its request; without the
fourth a turn could have two authors. The proof has three layers: bookkeeping of requests and coroutines,
then the log (every action either leaves `turns` alone or commits at
`version + 1`), then what ties both together, one lemma for each action.

`CollectorProofs` proves for all files, ids, limits, batch sizes, attempts and
bounds on faults and changes, from the assumptions named in `Archive` and
`Collector`:

- `TypeCorrect`, which includes that no transfer exceeds its attempts;
- `NoHoles`: `Spec => []CursorSound`;
- `FilesKept`: the action property `DoneIsKept`;
- `Lifecycle` and `CollectorImplementsAttachment`: `Spec => ImplementsAttachment`,
  the refinement of `Attachment`.

Its inductive invariant adds to these `PostedSound` (ids are posted in order and
nothing is archived before it is posted), `PassSound` (everything up to a
forward pass's position is archived or in the buffer: without it a commit could
move the cursor past a message), `QueueSound` (what is not settled has an
attempt left, and the queue holds pending rows only) and `PlanSound` (fsck
plans no removal for a row that stays done: without it the reset and the
removals, which are separate steps, could take a good file). There is one lemma
per action or group of actions with the same effect, over small lemmas about
the operators `Project`, `Stored`, `Failure` and `Fetched`.

`Attachment` speaks of each message by itself, and one step of the collector may
touch many: a commit, a reset, a purge. The refinement is therefore proved per
row. `Written` says what may be written over a row when no transfer ends, and
is one step in the life of an attachment or none (`WrittenLife`); the ends of
transfers are Place, Keep, Drop and Fail. `LifeSound` is what it needs beyond
the invariant: a row without an attachment has no transfer, and what fsck is
about to reset has lost its file *and cannot get it back before the reset*.

`CompletenessProofs` proves `CompleteWhenOk`, the action property
`OkIsComplete`, on top of that invariant. `ok` is decided at the end of a run by
what its stages have established one after the other, and each must survive
the later stages, transfers, failures and whatever Telegram does meanwhile.
`OkInv` follows them:

- `ReadSound` and `AllArchived`: what is in memory is what Telegram had, and
  after the forward pass nothing up to its top is missing;
- `WindowSound`: within the window the refresh pass shows what it has seen, and
  what it has not seen is in the hands of the point checks;
- `FilesSound`: a row that fsck leaves done has its file, and so it stays;
- `NothingElse`: what no row knows is doomed until it is removed, and no
  transfer adds to it.

The two halves meet in `flawed`: an error in a stage gives up what the stage
should have established, and the run can then no longer end as `ok`.

`SecurityLabProofs` proves for all hosts, tasks, selections, operators and any
budget of jobs, from `CaseAssumption` and `CallersAssumption`:

- `TypeCorrect`, which includes that no case has more jobs than its budget;
- `Bound`, `RunsAccounted` and `Apart`: `Spec => []BoundToApproval`,
  `[]Accounted` and `[]HostsApart`;
- `ResultsTrue`: the action property `ResultsSound`;
- `Invariant`: `Spec => []IInv`, on which they rest;
- `Records`: a job is bound to what its command was compiled from, and has no
  verdict before its run is over;
- `DaemonImplementsApproval`: `Spec => ImplementsApproval`, the refinement of
  `Approval`.

`HostsApart` relates pairs of jobs, and none of its causes is a fact about pairs
of jobs: lanes keep non-exclusive runs apart, the admission transaction keeps
exclusive runs alone. `IInv` therefore says what each mechanism guarantees:

- `Numbered`: jobs are created in order, so a new one has no history;
- `WorkGoesOn`: a case is at work exactly while an active job of an approved
  scope exists, which is why a pause or a new scope cannot leave a run behind;
- `JobsSound`: a job is owned by exactly one coroutine until it is over, and one
  that is closed has left its host or is loose;
- `DriverSound`: the campaign driver's position agrees with its admission;
- `LanesApart`: entries of lanes and reservations have disjoint hosts, and every
  owned non-exclusive run has one;
- `Exclusion`: an active exclusive run is alone but for exclusive ones being
  closed, and one that waits for its transaction with a current snapshot sees
  every run in its way. Without the second half a run admitted between the check
  and the transaction would share its host.

`JobsSound` also says what may be left: an active job has no owner only when its
result was refused or its coroutine killed, and a job that was closed is at most
loose on its host. `Accounted` speaks of all jobs, and so of every container the
model knows. `HostsApart` speaks of watched runs only: what was recorded as not
closed, or abandoned, may still be on its host when a resumed case starts the
next run there, and so may a loose container.

There is one lemma per action and part of the invariant that it can disturb.

The refinement goes through four kinds of change (`Change`): nothing that a
reader of the jobs sees, a revocation of all that is active, the end of one
run, the admission of one run. Each action is classified once, and then each
kind is one action of `Approval` or a stutter. An end needs `Records`: a job
that is finished for a second time, by a monitor that outlived its case, would
be a verdict that changes. An admission needs that the transaction compares
what the command was compiled from (`built`) with what is approved now, minutes
of DNS lookups later, and that no job of the plan is for the same finding.

`ServiceJobsProofs` proves for any processes, operations, numbers of turns and
attempts, from the four assumptions named in `ServiceJobs`:

- `TypeCorrect`, which includes the bound on attempts;
- `WrittenOnce` and `NeverStuck`: `Spec => []EffectsOnce` and `[]NoneStuck`;
- `JobsInOrder`: `Spec => ImplementsOrder`, the refinement of `JobOrder`, for
  the jobs of every kind at once;
- `WrittenInOrder`: the action property `InOrder`, the part of it that speaks of
  writes only.

Its inductive invariant adds `Queued` (an automatic job has a row exactly when
its turn is committed, and only a running job has an owner), `LoopsSound` (a
loop has a job from its claim to its end, and completes one that has a result)
and `TakenInTurn`: a loop never holds a job whose predecessors may still run,
*not even after a recovery took the job from it*. The last half matters because
`append_story_memory`, unlike the other writes, does not ask who owns the job:
order among memory jobs rests on nobody starting one early.

`CorrectionsProofs` proves for any corrections, threads, keys and turns:

- `OneOverlay`, `InItsTurn`, `RepliesTrue`: `Spec => []OverlaysUnique`,
  `[]UsedInItsTurn`, `[]RepliesAgree`;
- `AcceptedFresh`: the action property `AcceptFresh`; and `TypeCorrect`;
- `NarrationIsAuthoring`: `Spec => ImplementsAuthoring`, the refinement of
  `Authoring`.

`IInv` adds `KeysDecideOnce` (a decision key is on one decided proposal),
`RepliesRecorded` (a reply carries the key that decided), `OverlaysDue` (an
overlay is for the turn after its draft's version, so for the next turn at
most) and `PromptSound` (what the provider works on is the overlay of the turn
it will become, unless that overlay came late).

`StoryMemoryProofs` proves for any window, batch size and number of turns:

- `NeverRefused` and `NoGap`: `Spec => []PlanSound` and `[]NoBlindSpot`;
- `OnlyGrows`: the action property `MemoryGrows`; and `TypeCorrect`;
- `Paced`: `Spec => []KeepsUp`;
- `MemoryInOrder`: `Spec => ImplementsOrder`, the refinement of `JobOrder`.

`IInv` adds `JobsInOrder` (the job in hand is the first pending one),
`MemorySound` (the chunks are a valid row that leaves the window *of every job
still to come* alone; a bound by the current version alone would not survive a
job that lags behind) and `HandlersSound` (what a handler has in hand would be such
a row, if nobody has appended since it read: also a handler that has lost its
job). That a row of chunks of mixed levels covers its turns without a gap,
that a merged batch has the size of its level and that the powers of the batch
size exist are inductions; they go through a smallest counterexample (`Least`,
from the well-foundedness of the naturals). `PaceInv` counts: a row has as many
chunks as there were batches but for the merges, and every turn either adds to
the uncovered tail, or takes a batch off, or is one of the merges.

`LabProofs` proves for any job slots, load width, ladder, configurations, kind
of endpoints at the start, and any number of invocations and killed controllers,
from the assumptions named in `LoadJobs`, `Matrix` and `Lab`:

- `NothingLeftSilently` and `PathTrue`: `Spec => []NoSilentLeftover` and
  `[]PathTruth`;
- `ReceiptsTrue`: the action property `ReceiptsSound`, by one lemma per receipt;
- `LabImplementsLoadControl`: `Spec => ImplementsLoadControl`, the refinement of
  `LoadControl`;
- `TypeCorrect`.

The invariant has a part for each mechanism:

- `SlotsSound` (about `job.py`): a stop that has touched `.cancel` is seen until
  the run is over, no `.cancel` outlives its run, and a confirmed stop leaves
  the job harmless. Jobs, exec
  clients and stops interleave in any order; a harmless job stays so until its
  slot is launched again (`JobsKept`), and that is all the rest needs to know;
- `StopsSound`: what `stop_jobs` has passed is harmless or reported;
- `Control` and `PathKept`: what holding the lock means, and which path an
  invocation has seen for as long as it relies on it;
- `WindowSound`: a window that may still be recorded as completed has been seen
  to recover;
- `RowsSound` and `StageSound`: the rows of a matrix at every stage of a step.
  `LadderSound` speaks of finished ladders only and is far from inductive.

`NoSilentLeftover` ends with the first controller that is killed: from then on no
report is owed, for that load or a later one (`Excused`). What holds of loads
after a kill is `PathTruth`, `ImplementsLoadControl` and, in the run `lab_live`,
that the watchdog ends them.

For the refinement every action of every controller is one of a few moves of
the job slots (`JobsMove`), which are the actions of `LoadControl`; the same
classification carries `SlotsSound`. A `.cancel` that stayed behind would be the
stop of a load that is yet to be launched, and a stop confirmed too early would
be an answer for a load that goes on: both halves of `SlotsSound` are needed.

Only model-checked is liveness, which is outside the prover's reach: the
liveness half of `narration`, `corrections_live`, `service_jobs_live`,
`lab_live` and the collector's `CatchesUp`. Every other property of a passing run
is a theorem. The type invariants of `Narration`, `Collector`, `Lab` and
`SecurityLab` are in no run; they are conjuncts of invariants that are proved.

## 6. Findings and observations

1. *A correction accepted too late is lost.* `decide_player_correction` accepts
   for version `current + 1` without looking for a narration in flight
   (`rp/turn_engine.py:2050`). If the provider is already writing that turn, the
   turn commits without the overlay and the next prompt asks for overlays of the
   version after it. `docs/wiki/03-turn-lifecycle.md:414-416` promises that the
   Narrator includes it once. Run `corrections_late`; `UsedInItsTurn` in the
   run `corrections` shows that this is the only way to lose one.
2. *An overlay can be too long for the prompt.* Its length is first checked when
   the prompt is built (`rp/narrator.py:257`), after it has become immutable, so
   every narration of that turn fails. `docs/wiki/05-memory-and-retrieval.md:531`
   promises an overlay for exactly the next prompt. Run `corrections_oversize`.

Smaller observations, met while modelling, which no run of their own shows:

- *A host is shared while a revoked exclusive run closes.* An exclusive run holds
  no lane; what keeps others out is its active job. `stop_case` followed by
  `resume_case`, or a new scope proposed and approved, revokes the job at once,
  while its monitor is still closing the container; the next exclusive run may
  then start on the same host. `SHARED-SERVICE.md:246-248` says "Two jobs never
  overlap the same host, even across lanes or cases". `HostsApart` states what
  does hold: no other two runs that somebody watches share a host. It does not
  speak of containers that nobody watches any more; after a stop that could not be
  confirmed, or a restart, a resumed case may start the next run beside one.
- *A failed launch keeps its lane.* `_abort_lane` looks for the entry among the
  reservations, but `_bind_lane` has moved it to `lanes`
  (`compose_service.py:73-81`): after a launch that fails, the research or
  operator lane and its hosts are occupied until the daemon restarts, and every
  exclusive run is refused.
- *A launch cut off may still happen.* When the SSH call of a launch is severed,
  the stop that follows confirms a host without the container, which the remote
  program may yet create, of a run that is recorded as closed. The models call
  such a container "loose"; it is the exception that `Accounted` states, and only
  for runs that were not a success.
- *A result can be too large to be recorded.* `finish_job` refuses a result of more
  than 64 KiB (`controller.py:871-873`), before its transaction. The monitors bound
  their receipt to 18,000 characters, which may be four bytes each, and a campaign
  segment adds up to eight research results of up to 24,000 characters
  (`compose_service.py:420-428`). The error ends the monitor, `_finished` discards it
  and frees the lane, and the job stays `running` without a coroutine
  (`CloseRefused`); the campaign is blocked without a record of its segment
  (`SegmentLost`). Until it is revoked (a stop, a new scope, a restart) the case
  cannot begin anything exclusive. `Accounted` states the exception; no document promises otherwise.
- *A mark without a switch.* `install-endpoints` writes `.extreme-managed` before it
  reads its candidate (`control_capacity.py:835-839`). If the candidate cannot be
  read, an ordinary lab is marked as managed with nothing else changed, and the
  ordinary role is refused from then on. `PathTruth` allows this state: what is
  recorded as installed still is what runs.
- *A second cancellation loses evidence.* A tool's monitor that is cancelled
  while it awaits `runtime.stop` ends without `finish_job`; the job stays revoked
  without an end. Likewise a pause while an aborted launch of the campaign is
  closing leaves an active job without a coroutine (another exception of
  `Accounted`), which only a revocation clears.
- *A refused call opens the gate.* Any call of `start` or `_start_cli` that fails
  before it has a lane entry sets `preparing` to false, also when another
  exclusive run set it (`compose_service.py:214-216`). The admission
  transaction still refuses the second run (`RefusedCall`, `HostsApart`).
- *A memory job may append after it was taken away.* Unlike the other writes,
  `append_story_memory` does not ask who owns the job (`rp/turn_engine.py:958`).
  A handler that hangs in its model call while another process recovers its job
  may still append, beside the job's new owner or after that owner has failed.
  The second of two appends is refused because its `update_id` is taken or
  because the snapshot it has read is no longer the latest. `AppendLate` in
  `StoryMemory` is this step; `PlanSound` and `MemoryInOrder` show that these two
  comparisons are enough.
- *The ladder goes on after a stop.* `docs/ngfw-traffic-runner.md:222-225` says
  that after a failed HTTP, TCP or DNS window the next scenario is not started;
  `Runner.run` stops the kind and goes on with the others.

## 7. Not modelled, and why

*Gateway*: prose, prompt wording and character counts (they enter as free
choices: "long", "too large", "oversize"); provider clients (an answer or a
failure); database errors inside error handlers (a hazard with a note); several
Parties (they share only the worker loops); administrator guidance, relationship
sums and Lore cards beyond their jobs (single transactions, or pure functions of
rows); accounts, BYOK keys and content packs (single transactions); the browser
GUI (its messages are those of `Narration`); operator scripts of the earlier
stack.

*Collector*: redaction, the kinds and sizes that make an attachment eligible, bytes
and routes (free choices); `backfill_done`, counters and `chat.status`, which
nothing reads back; clock skew, dry runs, damage that keeps a file's size; the
forward listing is taken to be complete, as the code takes it, while the refresh
listing may omit messages. The MCP reader only reads.

*NGFW lab*: `--no-start`, warm-up and repetitions (the same step again), the
stabilisation phase, the ageing of isolation evidence, Docker restarts outside a
capacity run, the image cache, and the numeric criteria: a window may end with
any status (SCENARIO_STOP and INVALID are one, and so are all capacity outcomes
but the measured one). Planning, probes and statistics are pure functions.

*Security Lab*: time (whatever a window, a lease or a deadline may refuse is
refused at any moment); the hypothesis ledger and its claims (a claim may hold a
campaign back at any time); the dispatcher and its outbox, which only a
fixture drives; discovery sources (a stage that begins and ends); the program on
the remote host; the stop of a subfinder run; several campaigns' drivers at one
time; a cancellation of an operator's abort that already closes.

*The rest*: metric and log collectors (one sequential process each over a
spool), the NGFW policy module (sequential, against an appliance that is not in
the repository), VPN egress and routes (sequential convergence to a declared
state), the task reminder (one JSON file), provisioning (declarative).
