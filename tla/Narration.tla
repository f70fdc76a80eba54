----------------------------- MODULE Narration -----------------------------
(***************************************************************************)
(* How one RP Party gets its next turn: RPNarrator.narrate_turn and        *)
(* narrate_opening (rp/narrator.py) running as coroutines of the gateway,  *)
(* over the narration requests and turns that RPTurnEngine keeps in SQLite *)
(* (rp/turn_engine.py).  Every database transaction (BEGIN IMMEDIATE) is   *)
(* one step; between two transactions of a coroutine anything may happen:  *)
(* other coroutines, the death of the process, or a second gateway process *)
(* that starts on the same database and runs its recovery.                 *)
(*                                                                         *)
(* Abstractions.  A player text and the turn kind are one value, the body; *)
(* the narrator text of a turn is named by the claim that produced it,     *)
(* since two calls of the provider never return the same prose; claim      *)
(* tokens (uuid4) are numbers drawn in increasing order; the prompt, the   *)
(* jobs queued by a commit and the derived context are the subject of      *)
(* other modules.                                                          *)
(*                                                                         *)
(* A definition marked "mutant" is a wrong variant of the definition after *)
(* it that bears its purpose; the specification uses none of them.  Put in *)
(* its place it makes one property fail, which shows that the property can.*)
(***************************************************************************)
EXTENDS Naturals, FiniteSets

CONSTANTS
  Handlers,       \* HTTP requests the gateway can serve at the same time
  Keys,           \* idempotency keys
  Headers,        \* explicit X-Request-ID values
  Bodies,         \* turn kind and player text of a message
  Opening,        \* the body of start_party: an opening scene, no player text
  None,           \* no X-Request-ID header; no input yet
  Messages,       \* the messages clients send
  MaxClaims,      \* bound on claims taken, for TLC
  MaxRestarts,    \* bound on process deaths and foreign recoveries, for TLC
  Overlap,        \* TRUE: another process may recover the same database
  Seeding         \* TRUE: turns may also be committed without a claim

Rids == Keys \union Headers
Message == [key : Keys, header : Headers \union {None},
            expected : Nat, body : Bodies]
Input == [rid : Rids, expected : {m.expected : m \in Messages}, body : Bodies]

ASSUME MessagesAssumption ==
  /\ Messages \subseteq Message
  /\ \A m \in Messages : m.body = Opening => m.expected = 0
ASSUME NoneAssumption == None \notin Rids /\ None \notin Bodies
ASSUME KeysAssumption == Keys # {}
ASSUME SwitchAssumption == Overlap \in BOOLEAN /\ Seeding \in BOOLEAN
ASSUME BoundAssumption == MaxClaims \in Nat /\ MaxRestarts \in Nat

VARIABLES
  version,    \* rp_parties.current_version
  turns,      \* rp_turns: set of [ver, key, input, text]
  status,     \* rp_narration_requests.status, by idempotency key
  input,      \* its immutable request_id, expected_version, body
  claim,      \* its claim_token, 0 for NULL
  turnOf,     \* the version of its turn_id, 0 for NULL
  nextToken,  \* tokens below it have been drawn
  up,         \* the gateway process serves requests
  restarts,
  pc,         \* where each handler's coroutine is
  work,       \* what it works for: [key, input, token], token 0 for no claim
  answers     \* history: [key, input, ver] of every success reply

requestVars == <<status, input, claim, turnOf>>
storeVars   == <<version, turns, requestVars>>
handlerVars == <<pc, work>>
vars == <<version, turns, status, input, claim, turnOf, nextToken, up,
          restarts, pc, work, answers>>

NoInput == [rid |-> None, expected |-> 0, body |-> None]
NoWork == [key |-> None, input |-> NoInput, token |-> 0]
Statuses == {"absent", "running", "failed", "succeeded"}
Points == {"idle", "claiming", "preparing", "calling", "failing", "waiting"}
Work == [key : Keys, input : Input, token : Nat] \union {NoWork}
Turn == [ver : Nat, key : Keys, input : Input, text : Nat]
Answer == [key : Keys, input : Input, ver : Nat]

Init ==
  /\ version = 0
  /\ turns = {}
  /\ status = [k \in Keys |-> "absent"]
  /\ input = [k \in Keys |-> NoInput]
  /\ claim = [k \in Keys |-> 0]
  /\ turnOf = [k \in Keys |-> 0]
  /\ nextToken = 1
  /\ up = TRUE
  /\ restarts = 0
  /\ pc = [h \in Handlers |-> "idle"]
  /\ work = [h \in Handlers |-> NoWork]
  /\ answers = {}
-----------------------------------------------------------------------------
(* Where a coroutine goes next, and how it ends: with a success reply or   *)
(* with an error.                                                          *)
Goto(h, point) == pc' = [pc EXCEPT ![h] = point]

Return(h) == Goto(h, "idle") /\ work' = [work EXCEPT ![h] = NoWork]

Reply(k, i, v) == answers' = answers \union {[key |-> k, input |-> i, ver |-> v]}

Success(h, v) == Return(h) /\ Reply(work[h].key, work[h].input, v)

Refuse(h) == Return(h) /\ UNCHANGED answers

HeaderOf(m) == m.header                                                  \* mutant

(* The request identifier a message stands for: party_message takes the    *)
(* header, or else that of the request already known under the key, or     *)
(* else the key itself.                                                    *)
RidOf(m) ==
  IF m.header # None THEN m.header
  ELSE IF status[m.key] # "absent" THEN input[m.key].rid
  ELSE m.key

InputOf(m) == [rid |-> RidOf(m), expected |-> m.expected, body |-> m.body]

(* _turn_replay over the committed turns.                                  *)
Replays(k, i) == {t \in turns : t.key = k /\ t.input = i}
ReplayConflict(k, i) ==
  \E t \in turns : \/ t.key = k /\ t.input # i
                   \/ t.key # k /\ t.input.rid = i.rid

(* A message arrives: party_message or start_party looks for its request,  *)
(* then narrate_turn or narrate_opening for its turn.  start_party refuses *)
(* a new opening of a Party that has a history.                            *)
Unopenable(m) == m.body = Opening /\ version # 0 /\ status[m.key] = "absent"

Receive(h, m) ==
  LET i == InputOf(m)
  IN  /\ up
      /\ pc[h] = "idle"
      /\ nextToken + Cardinality({g \in Handlers : pc[g] = "claiming"}) <= MaxClaims
      /\ UNCHANGED <<storeVars, nextToken, up, restarts>>
      /\ \/ /\ Unopenable(m) \/ ReplayConflict(m.key, i)
            /\ Refuse(h)
         \/ /\ ~Unopenable(m) /\ ~ReplayConflict(m.key, i)
            /\ \E t \in Replays(m.key, i) : Reply(m.key, i, t.ver)
            /\ Return(h)
         \/ /\ ~Unopenable(m) /\ ~ReplayConflict(m.key, i)
            /\ Replays(m.key, i) = {}
            /\ Goto(h, "claiming")
            /\ work' = [work EXCEPT ![h] = [key |-> m.key, input |-> i, token |-> 0]]
            /\ UNCHANGED answers
-----------------------------------------------------------------------------
(* claim_narration, one transaction.  Rivals are the stored requests that  *)
(* share the key or the request identifier.                                *)
Rivals(k, i) == {j \in Keys : status[j] # "absent" /\ (j = k \/ input[j].rid = i.rid)}
SameKey(k, i) == Rivals(k, i) = {k}                                      \* mutant
SameRequest(k, i) == Rivals(k, i) = {k} /\ input[k] = i
InFlight(k) == \E j \in Keys \ {k} : status[j] = "running"

ClaimConflict(h) ==
  /\ Rivals(work[h].key, work[h].input) # {}
  /\ ~SameRequest(work[h].key, work[h].input)
  /\ Refuse(h)
  /\ UNCHANGED <<storeVars, nextToken, up, restarts>>

ClaimReplay(h) ==
  /\ SameRequest(work[h].key, work[h].input)
  /\ status[work[h].key] = "succeeded"
  /\ Success(h, turnOf[work[h].key])
  /\ UNCHANGED <<storeVars, nextToken, up, restarts>>

ClaimJoin(h) ==
  /\ SameRequest(work[h].key, work[h].input)
  /\ status[work[h].key] = "running"
  /\ Goto(h, "waiting")
  /\ UNCHANGED <<storeVars, nextToken, up, restarts, work, answers>>

(* New request, or a failed one tried again.                               *)
Claimable(h) ==
  \/ Rivals(work[h].key, work[h].input) = {}
  \/ SameRequest(work[h].key, work[h].input) /\ status[work[h].key] = "failed"

ClaimRefused(h) ==
  /\ Claimable(h)
  /\ version # work[h].input.expected \/ InFlight(work[h].key)
  /\ Refuse(h)
  /\ UNCHANGED <<storeVars, nextToken, up, restarts>>

ClaimAcquire(h) ==
  /\ Claimable(h)
  /\ version = work[h].input.expected
  /\ ~InFlight(work[h].key)
  /\ status' = [status EXCEPT ![work[h].key] = "running"]
  /\ input' = [input EXCEPT ![work[h].key] = work[h].input]
  /\ claim' = [claim EXCEPT ![work[h].key] = nextToken]
  /\ work' = [work EXCEPT ![h].token = nextToken]
  /\ nextToken' = nextToken + 1
  /\ Goto(h, "preparing")
  /\ UNCHANGED <<version, turns, turnOf, up, restarts, answers>>

Claim(h) ==
  /\ pc[h] = "claiming"
  /\ \/ ClaimConflict(h)
     \/ ClaimReplay(h)
     \/ ClaimJoin(h)
     \/ ClaimRefused(h)
     \/ ClaimAcquire(h)
-----------------------------------------------------------------------------
(* The holder of a claim waits for the service jobs of the last turn (up   *)
(* to a deadline), re-reads the Party and assembles the prompt.            *)
Prepare(h) ==
  /\ pc[h] = "preparing"
  /\ Goto(h, IF version = work[h].input.expected THEN "calling" ELSE "failing")
  /\ UNCHANGED <<storeVars, nextToken, up, restarts, work, answers>>

(* The prompt does not fit, the provider fails or answers with nothing, or *)
(* the coroutine is cancelled.                                             *)
GiveUp(h) ==
  /\ pc[h] \in {"preparing", "calling"}
  /\ Goto(h, "failing")
  /\ UNCHANGED <<storeVars, nextToken, up, restarts, work, answers>>

OwnsRunning(h) == status[work[h].key] = "running"                        \* mutant

(* _commit_raw, one transaction, with a claim token or without.            *)
Owns(h) == status[work[h].key] = "running" /\ claim[work[h].key] = work[h].token
CommitConflictVersion(k, i) == version # i.expected                      \* mutant
CommitConflict(k, i) ==
  \/ \E t \in turns : t.key = k \/ t.input.rid = i.rid
  \/ version # i.expected

CommitRow(k, i, text) ==
  /\ turns' = turns \union
       {[ver |-> i.expected + 1, key |-> k, input |-> i, text |-> text]}
  /\ version' = i.expected + 1

CompleteCommit(h) ==
  /\ Owns(h)
  /\ ~CommitConflict(work[h].key, work[h].input)
  /\ CommitRow(work[h].key, work[h].input, work[h].token)
  /\ status' = [status EXCEPT ![work[h].key] = "succeeded"]
  /\ claim' = [claim EXCEPT ![work[h].key] = 0]
  /\ turnOf' = [turnOf EXCEPT ![work[h].key] = work[h].input.expected + 1]
  /\ Success(h, work[h].input.expected + 1)
  /\ UNCHANGED <<input, nextToken, up, restarts>>

(* A turn of that key that is already committed carries another text, so   *)
(* it is a conflict like the others.                                       *)
CompleteRejected(h) ==
  /\ ~Owns(h) \/ CommitConflict(work[h].key, work[h].input)
  /\ Goto(h, "failing")
  /\ UNCHANGED <<storeVars, nextToken, up, restarts, work, answers>>

Complete(h) ==
  /\ pc[h] = "calling"
  /\ CompleteCommit(h) \/ CompleteRejected(h)

(* _fail_claim: fail_narration, whose conflict is ignored.                 *)
FailClaim(h) ==
  /\ pc[h] = "failing"
  /\ IF Owns(h)
     THEN /\ status' = [status EXCEPT ![work[h].key] = "failed"]
          /\ claim' = [claim EXCEPT ![work[h].key] = 0]
     ELSE UNCHANGED <<status, claim>>
  /\ Refuse(h)
  /\ UNCHANGED <<version, turns, input, turnOf, nextToken, up, restarts>>

PollForTurn(h) ==                                                        \* mutant
  /\ pc[h] = "waiting"
  /\ status[work[h].key] = "succeeded"
  /\ \E t \in Replays(work[h].key, work[h].input) : Success(h, t.ver)
  /\ UNCHANGED <<storeVars, nextToken, up, restarts>>

(* _wait_for_narration: one poll that ends the wait.                       *)
Poll(h) ==
  /\ pc[h] = "waiting"
  /\ \/ /\ status[work[h].key] = "failed"
        /\ Refuse(h)
     \/ /\ status[work[h].key] = "succeeded"
        /\ \E t \in Replays(work[h].key, work[h].input) : Success(h, t.ver)
  /\ UNCHANGED <<storeVars, nextToken, up, restarts>>
-----------------------------------------------------------------------------
(* The process dies: its coroutines are gone, the database stays.          *)
Crash ==
  /\ up
  /\ restarts < MaxRestarts
  /\ restarts' = restarts + 1
  /\ up' = FALSE
  /\ pc' = [h \in Handlers |-> "idle"]
  /\ work' = [h \in Handlers |-> NoWork]
  /\ UNCHANGED <<storeVars, nextToken, answers>>

RecoverNothing == UNCHANGED storeVars                                    \* mutant
RecoverKeepsClaims ==                                                    \* mutant
  /\ status' = [k \in Keys |-> IF status[k] = "running" THEN "failed" ELSE status[k]]
  /\ UNCHANGED <<version, turns, input, claim, turnOf>>

(* recover_interrupted_work, the narration part.                           *)
RecoverRequests ==
  /\ status' = [k \in Keys |-> IF status[k] = "running" THEN "failed" ELSE status[k]]
  /\ claim' = [k \in Keys |-> IF status[k] = "running" THEN 0 ELSE claim[k]]
  /\ UNCHANGED <<version, turns, input, turnOf>>

(* RPRunner.start in the lifespan, before the first request is served.     *)
Start ==
  /\ ~up
  /\ up' = TRUE
  /\ RecoverRequests
  /\ UNCHANGED <<nextToken, restarts, handlerVars, answers>>

(* A second gateway process starts on the database of this one.            *)
RecoverElsewhere ==
  /\ Overlap
  /\ up
  /\ restarts < MaxRestarts
  /\ restarts' = restarts + 1
  /\ RecoverRequests
  /\ UNCHANGED <<nextToken, up, handlerVars, answers>>

(* commit_turn and commit_opening: a turn written without a narration      *)
(* request, as when a Party is seeded with an existing history.            *)
CommitTurn(m) ==
  LET i == [rid |-> IF m.header = None THEN m.key ELSE m.header,
            expected |-> m.expected, body |-> m.body]
  IN  /\ Seeding
      /\ up
      /\ ~CommitConflict(m.key, i)
      /\ CommitRow(m.key, i, 0)
      /\ UNCHANGED <<requestVars, nextToken, up, restarts, handlerVars, answers>>

HandlerStep(h) ==
  Claim(h) \/ Prepare(h) \/ GiveUp(h) \/ Complete(h) \/ FailClaim(h) \/ Poll(h)

Next ==
  \/ \E h \in Handlers, m \in Messages : Receive(h, m)
  \/ \E h \in Handlers : HandlerStep(h)
  \/ \E m \in Messages : CommitTurn(m)
  \/ Crash
  \/ Start
  \/ RecoverElsewhere

Spec == Init /\ [][Next]_vars

(* The event loop keeps every coroutine running, a provider call ends (the *)
(* HTTP clients carry timeouts), and a dead container is restarted.        *)
Fairness == (\A h \in Handlers : WF_vars(HandlerStep(h))) /\ WF_vars(Start)
FairSpec == Spec /\ Fairness
-----------------------------------------------------------------------------
TypeOK ==
  /\ version \in Nat
  /\ turns \subseteq Turn
  /\ status \in [Keys -> Statuses]
  /\ input \in [Keys -> Input \union {NoInput}]
  /\ claim \in [Keys -> Nat]
  /\ turnOf \in [Keys -> Nat]
  /\ nextToken \in Nat \ {0}
  /\ up \in BOOLEAN
  /\ restarts \in Nat
  /\ pc \in [Handlers -> Points]
  /\ work \in [Handlers -> Work]
  /\ answers \subseteq Answer

(* The turns of a Party are numbered 1..current_version, one turn each.    *)
LogContiguous ==
  /\ \A t \in turns : t.ver \in 1..version
  /\ \A n \in 1..version : \E t \in turns : t.ver = n
  /\ \A s, t \in turns : s.ver = t.ver => s = t

(* No idempotency key and no request identifier is spent twice, whatever   *)
(* is retried, reclaimed or raced.                                         *)
ExactlyOnce ==
  \A s, t \in turns : s.key = t.key \/ s.input.rid = t.input.rid => s = t

(* At most one narration of the Party is in flight.                        *)
OneInFlight ==
  \A j, k \in Keys : status[j] = "running" /\ status[k] = "running" => j = k

(* A request that says succeeded points at a committed turn with exactly   *)
(* its input.                                                              *)
SucceededHasTurn ==
  \A k \in Keys : status[k] = "succeeded" =>
    \E t \in turns : t.key = k /\ t.ver = turnOf[k] /\ t.input = input[k]

(* A success reply, also one given to a concurrent duplicate or after a    *)
(* restart, quotes a durable turn with the input of the message.           *)
AnswersDurable ==
  \A a \in answers :
    \E t \in turns : t.key = a.key /\ t.ver = a.ver /\ t.input = a.input

(* While the process is up, a running claim is held by a live coroutine:   *)
(* nothing but the process's death can leave the Party blocked.            *)
Holds(h, k) ==
  /\ pc[h] \in {"preparing", "calling", "failing"}
  /\ work[h].key = k
  /\ work[h].token = claim[k]
NoOrphanClaim ==
  up => \A k \in Keys : status[k] = "running" => \E h \in Handlers : Holds(h, k)

(* What makes these inductive: a handler has a claim token exactly between *)
(* its claim and its end; tokens are drawn once, so the token of a request *)
(* that is claimed anew is nobody's old one and no two handlers have one;  *)
(* and whoever holds the current token of a request works for the input    *)
(* that the request has.                                                   *)
HandlersSound ==
  \A h \in Handlers :
    /\ pc[h] # "idle" => work[h] # NoWork
    /\ work[h].token # 0 <=> pc[h] \in {"preparing", "calling", "failing"}
    /\ work[h].token < nextToken

ClaimsSound ==
  \A k \in Keys :
    /\ status[k] = "running" <=> claim[k] # 0
    /\ claim[k] < nextToken
    /\ status[k] # "absent" => input[k] # NoInput

HoldersAgree ==
  \A h \in Handlers, k \in Keys :
    status[k] = "running" /\ Holds(h, k) => work[h].input = input[k]

TokensUnique ==
  \A g, h \in Handlers : work[h].token # 0 /\ work[g].token = work[h].token => g = h

IInv ==
  /\ TypeOK
  /\ LogContiguous
  /\ ExactlyOnce
  /\ OneInFlight
  /\ SucceededHasTurn
  /\ AnswersDurable
  /\ NoOrphanClaim
  /\ HandlersSound
  /\ ClaimsSound
  /\ HoldersAgree
  /\ TokensUnique

(* A turn is produced under the claim that is current when it commits:     *)
(* after a recovery the older coroutine commits nothing and takes nothing  *)
(* back, and a succeeded request never changes again.                      *)
FencedStep ==
  \A k \in Keys :
    /\ status[k] = "succeeded" => status'[k] = "succeeded" /\ turnOf'[k] = turnOf[k]
    /\ (status[k] = "running" /\ status'[k] = "succeeded") =>
          \E t \in turns' : t.key = k /\ t.text = claim[k]
    /\ claim[k] # 0 => claim'[k] \in {claim[k], 0}
Fenced == [][FencedStep]_vars

(* Every message is answered, also a duplicate that waits for another      *)
(* coroutine's narration.                                                  *)
EveryCallAnswered == \A h \in Handlers : pc[h] # "idle" ~> pc[h] = "idle"

(* A narration in flight always ends, so the Party is never blocked.       *)
NarrationSettles == \A k \in Keys : status[k] = "running" ~> status[k] # "running"

(* The protocol implements the exactly-once log: claims, retries, joins    *)
(* and recoveries are invisible in the history and in the replies.         *)
TurnAt(n) == CHOOSE t \in turns : t.ver = n
History == [n \in 1..version |-> [key |-> TurnAt(n).key, input |-> TurnAt(n).input]]
Log == INSTANCE TurnLog WITH
         Entry <- [key : Keys, input : Input], log <- History, answered <- answers
ImplementsLog == Log!Spec

(* To whoever acts while a turn is being written there is one author: of   *)
(* all the coroutines that believe to hold a claim, also those whose       *)
(* request a recovery has given to another one, only one can commit, and   *)
(* it commits the turn that its prompt was assembled for.                  *)
Authors(point) ==
  {h \in Handlers : pc[h] = point /\ \E k \in Keys : status[k] = "running" /\ Holds(h, k)}
Phase ==
  IF Authors("preparing") # {} THEN "preparing"
  ELSE IF Authors("calling") # {} THEN "calling"
  ELSE "idle"
Asked ==
  IF Phase = "calling" THEN work[CHOOSE h \in Authors("calling") : TRUE].input.expected
  ELSE 0
OneAuthor == INSTANCE Authoring WITH phase <- Phase, asked <- Asked
ImplementsAuthoring == OneAuthor!Spec
=============================================================================
