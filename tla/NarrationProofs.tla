--------------------------- MODULE NarrationProofs ---------------------------
(***************************************************************************)
(* Proofs about Narration for any set of handlers, keys and messages, any  *)
(* number of claims and restarts, and both values of the switches.  The    *)
(* inductive invariant is IInv; its preservation is proved in two layers:  *)
(* first the types, then the rest, one step per action.                    *)
(***************************************************************************)
EXTENDS Narration, Sequences, TLAPS

USE DEF Statuses, Points

(* The version a stored or pending input expects is a number, and no input *)
(* and no key is the placeholder None.                                     *)
LEMMA InputFacts ==
  /\ \A i \in Input : i.expected \in Nat /\ i.rid \in Rids /\ i.body \in Bodies
  /\ NoInput \notin Input
  /\ \A w \in Work : w # NoWork =>
       w.key \in Keys /\ w.input \in Input /\ w.token \in Nat
  /\ \A w \in Work : w.token \in Nat
BY MessagesAssumption, NoneAssumption DEF Input, Message, Rids, NoInput, Work, NoWork

(* The input of a message is an input.                                     *)
LEMMA InputOfType ==
  ASSUME TypeOK, NEW m \in Messages
  PROVE  /\ m.key \in Keys
         /\ (status[m.key] # "absent" => input[m.key] # NoInput) => InputOf(m) \in Input
<1>1. m \in Message
  BY MessagesAssumption
<1>2. m.key \in Keys /\ m.body \in Bodies /\ m.expected \in {n.expected : n \in Messages}
  BY <1>1 DEF Message
<1>3. ASSUME status[m.key] # "absent" => input[m.key] # NoInput
      PROVE  RidOf(m) \in Rids
  BY <1>1, <1>2, <1>3, InputFacts DEF RidOf, Message, Rids, TypeOK
<1> QED
  BY <1>2, <1>3 DEF InputOf, Input

-----------------------------------------------------------------------------
(* The three layers of the invariant: types and bookkeeping of requests    *)
(* and handlers; the turns; what ties requests and handlers to turns.      *)
Bookkeeping == TypeOK /\ HandlersSound /\ ClaimsSound

(* An empty Party, before its first message, satisfies the invariant.      *)
THEOREM InitIInv == Init => IInv
BY InputFacts DEF Init, IInv, TypeOK, LogContiguous, ExactlyOnce, OneInFlight,
  SucceededHasTurn, AnswersDurable, NoOrphanClaim, HandlersSound, ClaimsSound,
  HoldersAgree, TokensUnique, Holds, Work, NoWork, Input, NoInput

(* A message that arrives makes its coroutine work for a well-formed input,*)
(* without a token.                                                        *)
LEMMA ReceiveBookkeeping ==
  ASSUME Bookkeeping, NEW h \in Handlers, NEW m \in Messages, Receive(h, m)
  PROVE  Bookkeeping'
<1>1. InputOf(m) \in Input /\ m.key \in Keys
  BY InputOfType DEF Bookkeeping, ClaimsSound
<1>2. \A t \in turns : t.ver \in Nat
  BY DEF Bookkeeping, TypeOK, Turn
<1> QED
  BY <1>1, <1>2, InputFacts DEF Bookkeeping, Receive, TypeOK, HandlersSound,
    ClaimsSound, Refuse, Return, Goto, Reply, Replays, Work, Answer, NoWork,
    storeVars, requestVars

(* claim_narration gives out the next token, and only that.                *)
LEMMA ClaimBookkeeping ==
  ASSUME Bookkeeping, NEW h \in Handlers, Claim(h)
  PROVE  Bookkeeping'
<1>1. work[h].key \in Keys /\ work[h].input \in Input /\ work[h] \in Work
      /\ work[h] # NoWork /\ NoInput \notin Input
  BY InputFacts DEF Bookkeeping, HandlersSound, Claim, TypeOK
<1>2. CASE ClaimConflict(h) \/ ClaimRefused(h)
  BY <1>1, <1>2 DEF Bookkeeping, ClaimConflict, ClaimRefused, TypeOK,
    HandlersSound, ClaimsSound, Refuse, Return, Goto, Work, NoWork, storeVars, requestVars
<1>3. CASE ClaimReplay(h)
  BY <1>1, <1>3 DEF Bookkeeping, ClaimReplay, TypeOK, HandlersSound, ClaimsSound,
    Success, Reply, Return, Goto, Answer, Work, NoWork, storeVars, requestVars
<1>4. CASE ClaimJoin(h)
  BY <1>1, <1>4 DEF Bookkeeping, ClaimJoin, Claim, TypeOK, HandlersSound, ClaimsSound,
    Goto, storeVars, requestVars
<1>5. CASE ClaimAcquire(h)
  BY <1>1, <1>5 DEF Bookkeeping, ClaimAcquire, TypeOK, HandlersSound, ClaimsSound,
    Goto, Work, NoWork
<1> QED
  BY <1>2, <1>3, <1>4, <1>5 DEF Claim

(* A coroutine that ends gives up its claim token.                         *)
LEMMA ReturnSound ==
  ASSUME Bookkeeping, NEW h \in Handlers, Return(h), nextToken' = nextToken
  PROVE  /\ pc' \in [Handlers -> Points]
         /\ work' \in [Handlers -> Work]
         /\ HandlersSound'
BY DEF Bookkeeping, Return, Goto, TypeOK, HandlersSound, Work, NoWork

(* Recovery turns every running request into a failed one without a claim. *)
LEMMA RecoverSound ==
  ASSUME Bookkeeping, RecoverRequests, nextToken' = nextToken
  PROVE  /\ status' \in [Keys -> Statuses]
         /\ claim' \in [Keys -> Nat]
         /\ ClaimsSound'
<1> DEFINE recovered == [k \in Keys |-> IF status[k] = "running" THEN "failed" ELSE status[k]]
           released == [k \in Keys |-> IF status[k] = "running" THEN 0 ELSE claim[k]]
<1>1. status' = recovered /\ claim' = released /\ input' = input
  BY DEF RecoverRequests
<1>2. recovered \in [Keys -> Statuses] /\ released \in [Keys -> Nat]
  BY DEF Bookkeeping, TypeOK
<1>3. \A k \in Keys : /\ recovered[k] = IF status[k] = "running" THEN "failed" ELSE status[k]
                     /\ released[k] = IF status[k] = "running" THEN 0 ELSE claim[k]
  OBVIOUS
<1> HIDE DEF recovered, released
<1>4. ClaimsSound'
  BY <1>1, <1>3 DEF Bookkeeping, TypeOK, ClaimsSound
<1> QED
  BY <1>1, <1>2, <1>4

(* The other steps of a coroutine give tokens back but make none.          *)
LEMMA HandlerBookkeeping ==
  ASSUME Bookkeeping, NEW h \in Handlers,
         Prepare(h) \/ GiveUp(h) \/ Complete(h) \/ FailClaim(h) \/ Poll(h)
  PROVE  Bookkeeping'
<1>1. work[h].key \in Keys /\ work[h].input \in Input /\ work[h] \in Work
      /\ work[h] # NoWork /\ work[h].input.expected \in Nat
  BY InputFacts DEF Bookkeeping, HandlersSound, TypeOK, Prepare, GiveUp, Complete,
    FailClaim, Poll
<1>2. CASE Prepare(h) \/ GiveUp(h)
  BY <1>1, <1>2 DEF Bookkeeping, Prepare, GiveUp, TypeOK, HandlersSound, ClaimsSound,
    Goto, storeVars, requestVars
<1>3. CASE pc[h] = "calling" /\ CompleteCommit(h)
  <2>1. TypeOK'
    BY <1>1, <1>3 DEF Bookkeeping, CompleteCommit, CommitRow, TypeOK, Success, Reply,
      Return, Goto, Turn, Answer, Work, NoWork
  <2>2. HandlersSound'
    BY <1>3, ReturnSound DEF CompleteCommit, Success
  <2>3. ClaimsSound'
    BY <1>1, <1>3 DEF Bookkeeping, CompleteCommit, Owns, TypeOK, ClaimsSound
  <2> QED
    BY <2>1, <2>2, <2>3 DEF Bookkeeping
<1>4. CASE pc[h] = "calling" /\ CompleteRejected(h)
  BY <1>1, <1>4 DEF Bookkeeping, CompleteRejected, TypeOK, HandlersSound, ClaimsSound,
    Goto, storeVars, requestVars
<1>5. CASE FailClaim(h)
  <2>1. pc' \in [Handlers -> Points] /\ work' \in [Handlers -> Work] /\ HandlersSound'
    BY <1>5, ReturnSound DEF FailClaim, Refuse
  <2>2. /\ status' \in [Keys -> Statuses]
        /\ claim' \in [Keys -> Nat]
        /\ ClaimsSound'
    BY <1>1, <1>5 DEF Bookkeeping, FailClaim, Owns, TypeOK, ClaimsSound
  <2> QED
    BY <1>5, <2>1, <2>2 DEF Bookkeeping, FailClaim, Refuse, TypeOK
<1>6. CASE Poll(h)
  <2>1. \A t \in turns : t.ver \in Nat
    BY DEF Bookkeeping, TypeOK, Turn
  <2> QED
    BY <1>1, <1>6, <2>1, ReturnSound DEF Bookkeeping, Poll, Replays, TypeOK,
      ClaimsSound, Success, Reply, Refuse, Answer, storeVars, requestVars
<1> QED
  BY <1>2, <1>3, <1>4, <1>5, <1>6 DEF Complete

(* Deaths and recoveries keep requests and coroutines well-formed.         *)
LEMMA ProcessBookkeeping ==
  ASSUME Bookkeeping, Crash \/ Start \/ RecoverElsewhere
  PROVE  Bookkeeping'
<1>1. CASE Crash
  <2>1. pc' \in [Handlers -> Points] /\ work' \in [Handlers -> Work] /\ HandlersSound'
    BY <1>1 DEF Bookkeeping, Crash, TypeOK, HandlersSound, Work, NoWork, storeVars
  <2>2. restarts' \in Nat /\ ClaimsSound'
    BY <1>1 DEF Bookkeeping, Crash, TypeOK, ClaimsSound, storeVars, requestVars
  <2>3. up' \in BOOLEAN
    BY <1>1, Zenon DEF Crash
  <2> QED
    BY <1>1, <2>1, <2>2, <2>3 DEF Bookkeeping, Crash, TypeOK, storeVars, requestVars
<1>2. CASE Start \/ RecoverElsewhere
  <2>1. RecoverRequests /\ UNCHANGED <<nextToken, handlerVars, answers>>
    BY <1>2 DEF Start, RecoverElsewhere
  <2>2. restarts' \in Nat
    BY <1>2 DEF Bookkeeping, TypeOK, Start, RecoverElsewhere
  <2>3. up' \in BOOLEAN
    BY <1>2, Zenon DEF Bookkeeping, TypeOK, Start, RecoverElsewhere
  <2> QED
    BY <2>1, <2>2, <2>3, RecoverSound DEF Bookkeeping, RecoverRequests, TypeOK, HandlersSound,
      handlerVars
<1> QED
  BY <1>1, <1>2

(* The input of a turn committed without a narration request.              *)
DirectInput(m) ==
  [rid |-> IF m.header = None THEN m.key ELSE m.header,
   expected |-> m.expected, body |-> m.body]

(* The input that commit_turn gets is an input.                            *)
LEMMA DirectInputOfType == \A m \in Messages : m.key \in Keys /\ DirectInput(m) \in Input
BY MessagesAssumption DEF DirectInput, Input, Message, Rids

(* A commit without a claim leaves requests and coroutines alone.          *)
LEMMA CommitTurnBookkeeping ==
  ASSUME Bookkeeping, NEW m \in Messages, CommitTurn(m)
  PROVE  Bookkeeping'
<1>1. m.key \in Keys /\ DirectInput(m) \in Input /\ DirectInput(m).expected \in Nat
  BY DirectInputOfType, InputFacts
<1>2. CommitRow(m.key, DirectInput(m), 0)
      /\ UNCHANGED <<requestVars, nextToken, up, restarts, handlerVars, answers>>
  BY DEF CommitTurn, DirectInput
<1> HIDE DEF DirectInput
<1> QED
  BY <1>1, <1>2 DEF Bookkeeping, CommitRow, TypeOK, HandlersSound, ClaimsSound, Turn,
    requestVars, handlerVars

(* Every step keeps requests and coroutines well-formed.                   *)
LEMMA NextBookkeeping == Bookkeeping /\ [Next]_vars => Bookkeeping'
<1> SUFFICES ASSUME Bookkeeping, [Next]_vars PROVE Bookkeeping'
  OBVIOUS
<1>1. CASE UNCHANGED vars
  BY <1>1 DEF Bookkeeping, TypeOK, HandlersSound, ClaimsSound, vars
<1>2. CASE Next
  BY <1>2, ReceiveBookkeeping, ClaimBookkeeping, HandlerBookkeeping,
    ProcessBookkeeping, CommitTurnBookkeeping DEF Next, HandlerStep
<1> QED
  BY <1>1, <1>2
-----------------------------------------------------------------------------
(* What every action does to the turns: nothing, or one commit at the      *)
(* version after the current one.                                          *)
Commits(k, i, text) == ~CommitConflict(k, i) /\ CommitRow(k, i, text)

LEMMA CommitOrNothing ==
  ASSUME Bookkeeping, [Next]_vars
  PROVE  \/ UNCHANGED <<version, turns>>
         \/ \E k \in Keys, i \in Input, text \in Nat : Commits(k, i, text)
<1>1. CASE UNCHANGED vars
  BY <1>1 DEF vars
<1>2. ASSUME NEW h \in Handlers, NEW m \in Messages, Receive(h, m)
      PROVE  UNCHANGED <<version, turns>>
  BY <1>2 DEF Receive, storeVars
<1>3. ASSUME NEW h \in Handlers, Claim(h) PROVE UNCHANGED <<version, turns>>
  BY <1>3 DEF Claim, ClaimConflict, ClaimReplay, ClaimJoin, ClaimRefused, ClaimAcquire,
    storeVars
<1>4. ASSUME NEW h \in Handlers, Prepare(h) \/ GiveUp(h) \/ FailClaim(h) \/ Poll(h)
      PROVE  UNCHANGED <<version, turns>>
  BY <1>4 DEF Prepare, GiveUp, FailClaim, Poll, storeVars
<1>5. ASSUME NEW h \in Handlers, pc[h] = "calling", CompleteCommit(h)
      PROVE  \E k \in Keys, i \in Input, text \in Nat : Commits(k, i, text)
  <2>1. work[h].key \in Keys /\ work[h].input \in Input /\ work[h].token \in Nat
    BY <1>5, InputFacts DEF Bookkeeping, HandlersSound, TypeOK
  <2>2. Commits(work[h].key, work[h].input, work[h].token)
    BY <1>5 DEF CompleteCommit, Commits
  <2> QED
    BY <2>1, <2>2
<1>6. ASSUME NEW h \in Handlers, CompleteRejected(h) PROVE UNCHANGED <<version, turns>>
  BY <1>6 DEF CompleteRejected, storeVars
<1>7. ASSUME NEW m \in Messages, CommitTurn(m)
      PROVE  \E k \in Keys, i \in Input, text \in Nat : Commits(k, i, text)
  <2>1. Commits(m.key, DirectInput(m), 0)
    BY <1>7 DEF CommitTurn, Commits, DirectInput
  <2> QED
    BY <2>1, DirectInputOfType
<1>8. CASE Crash \/ Start \/ RecoverElsewhere
  BY <1>8 DEF Crash, Start, RecoverElsewhere, RecoverRequests, storeVars
<1> QED
  BY <1>1, <1>2, <1>3, <1>4, <1>5, <1>6, <1>7, <1>8 DEF Next, HandlerStep, Complete

(* A commit keeps the numbering of the turns and spends its key and its    *)
(* identifier once.                                                        *)
LEMMA CommitKeepsLog ==
  ASSUME Bookkeeping, LogContiguous, ExactlyOnce,
         NEW k \in Keys, NEW i \in Input, NEW text \in Nat, Commits(k, i, text)
  PROVE  LogContiguous' /\ ExactlyOnce'
<1> DEFINE row == [ver |-> i.expected + 1, key |-> k, input |-> i, text |-> text]
<1>1. /\ i.expected = version
      /\ version' = version + 1
      /\ version \in Nat
      /\ turns' = turns \union {row}
      /\ row.ver = version + 1 /\ row.key = k /\ row.input = i
  BY DEF Commits, CommitConflict, CommitRow, Bookkeeping, TypeOK
<1>2. \A t \in turns : t.key # k /\ t.input.rid # i.rid
  BY DEF Commits, CommitConflict
<1> HIDE DEF row
<1>3. ExactlyOnce'
  BY <1>1, <1>2 DEF ExactlyOnce
<1>4. LogContiguous'
  BY <1>1 DEF LogContiguous
<1> QED
  BY <1>3, <1>4

(* Every step keeps what is said of the turns.                             *)
LEMMA NextLog ==
  ASSUME Bookkeeping, LogContiguous, ExactlyOnce, [Next]_vars
  PROVE  /\ LogContiguous' /\ ExactlyOnce'
         /\ turns \subseteq turns'
         /\ version' \in {version, version + 1}
<1>1. CASE UNCHANGED <<version, turns>>
  BY <1>1 DEF LogContiguous, ExactlyOnce
<1>2. CASE \E k \in Keys, i \in Input, text \in Nat : Commits(k, i, text)
  <2>1. PICK k \in Keys, i \in Input, text \in Nat : Commits(k, i, text)
    BY <1>2
  <2>2. turns \subseteq turns' /\ version' = version + 1
    BY <2>1 DEF Commits, CommitRow, CommitConflict
  <2> QED
    BY <2>1, <2>2, CommitKeepsLog
<1> QED
  BY <1>1, <1>2, CommitOrNothing
-----------------------------------------------------------------------------
(* What ties requests, handlers and replies to the turns.                  *)
Ties == OneInFlight /\ SucceededHasTurn /\ NoOrphanClaim /\ HoldersAgree

(* A step that leaves the requests alone keeps what is said of them alone. *)
LEMMA RequestsAlone ==
  ASSUME OneInFlight, SucceededHasTurn, UNCHANGED requestVars, turns \subseteq turns'
  PROVE  OneInFlight' /\ SucceededHasTurn'
BY DEF OneInFlight, SucceededHasTurn, requestVars

(* A handler that holds no current token may come and go.                  *)
LEMMA BystanderTies ==
  ASSUME Bookkeeping, Ties, NEW h \in Handlers, UNCHANGED requestVars,
         UNCHANGED up, turns \subseteq turns',
         \A k \in Keys : status[k] = "running" => ~Holds(h, k),
         \A g \in Handlers \ {h} : pc'[g] = pc[g] /\ work'[g] = work[g],
         \/ pc'[h] \notin {"preparing", "calling", "failing"}
         \/ work'[h] = work[h] /\ pc[h] \in {"preparing", "calling", "failing"}
  PROVE  Ties'
<1>1. OneInFlight' /\ SucceededHasTurn'
  BY RequestsAlone DEF Ties
<1>2. \A g \in Handlers, k \in Keys :
        status[k] = "running" => (Holds(g, k)' <=> Holds(g, k) /\ g # h)
  BY DEF Holds, requestVars
<1>3. NoOrphanClaim'
  BY <1>2, Zenon DEF Ties, NoOrphanClaim, requestVars
<1>4. HoldersAgree'
  <2> SUFFICES ASSUME NEW g \in Handlers, NEW k \in Keys, status'[k] = "running", Holds(g, k)'
               PROVE  work'[g].input = input'[k]
    BY DEF HoldersAgree
  <2>1. Holds(g, k) /\ g # h
    BY <1>2 DEF requestVars
  <2> QED
    BY <2>1 DEF Ties, HoldersAgree, requestVars
<1> QED
  BY <1>1, <1>3, <1>4 DEF Ties

(* A holder that moves on to its next point still holds what it held.      *)
LEMMA HolderMovesTies ==
  ASSUME Bookkeeping, Ties, NEW h \in Handlers, UNCHANGED requestVars,
         UNCHANGED <<up, work>>, turns \subseteq turns',
         pc[h] \in {"preparing", "calling", "failing"},
         NEW point \in {"preparing", "calling", "failing"}, Goto(h, point)
  PROVE  Ties'
<1>1. OneInFlight' /\ SucceededHasTurn'
  BY RequestsAlone DEF Ties
<1>2. \A g \in Handlers, k \in Keys : Holds(g, k)' <=> Holds(g, k)
  BY DEF Holds, Goto, requestVars, Bookkeeping, TypeOK
<1>3. NoOrphanClaim'
  BY <1>2, Zenon DEF Ties, NoOrphanClaim, requestVars
<1>4. HoldersAgree'
  <2> SUFFICES ASSUME NEW g \in Handlers, NEW k \in Keys, status'[k] = "running", Holds(g, k)'
               PROVE  work'[g].input = input'[k]
    BY DEF HoldersAgree
  <2>1. Holds(g, k)
    BY <1>2
  <2> QED
    BY <2>1 DEF Ties, HoldersAgree, requestVars
<1> QED
  BY <1>1, <1>3, <1>4 DEF Ties

(* A message that arrives disturbs no claim.                               *)
LEMMA ReceiveTies ==
  ASSUME Bookkeeping, Ties, NEW h \in Handlers, NEW m \in Messages, Receive(h, m)
  PROVE  Ties'
<1>1. pc[h] = "idle" /\ UNCHANGED <<requestVars, up, turns>>
  BY DEF Receive, storeVars
<1>2. pc'[h] \in {"idle", "claiming"}
      /\ \A g \in Handlers \ {h} : pc'[g] = pc[g] /\ work'[g] = work[g]
  BY DEF Receive, Refuse, Return, Goto, Bookkeeping, TypeOK
<1>3. \A k \in Keys : ~Holds(h, k)
  BY <1>1 DEF Holds
<1> QED
  BY <1>1, <1>2, <1>3, BystanderTies

(* A new claim is the only one, and its coroutine works for its input.     *)
LEMMA ClaimTies ==
  ASSUME Bookkeeping, Ties, NEW h \in Handlers, Claim(h)
  PROVE  Ties'
<1>1. pc[h] = "claiming" /\ \A k \in Keys : ~Holds(h, k)
  BY DEF Claim, Holds
<1>2. work[h].key \in Keys /\ work[h].input \in Input /\ work[h] \in Work
  BY <1>1, InputFacts DEF Bookkeeping, HandlersSound, TypeOK
<1>3. CASE ClaimConflict(h) \/ ClaimReplay(h) \/ ClaimJoin(h) \/ ClaimRefused(h)
  <2>1. UNCHANGED <<requestVars, up, turns>>
    BY <1>3 DEF ClaimConflict, ClaimReplay, ClaimJoin, ClaimRefused, storeVars
  <2>2. pc'[h] \in {"idle", "waiting"}
        /\ \A g \in Handlers \ {h} : pc'[g] = pc[g] /\ work'[g] = work[g]
    BY <1>3 DEF ClaimConflict, ClaimReplay, ClaimJoin, ClaimRefused, Success, Refuse,
      Return, Goto, Bookkeeping, TypeOK
  <2> QED
    BY <1>1, <2>1, <2>2, BystanderTies
<1>4. CASE ClaimAcquire(h)
  <2>1. \A k \in Keys : k # work[h].key => status[k] # "running"
    BY <1>4 DEF ClaimAcquire, InFlight
  <2>2. status[work[h].key] \in {"absent", "failed"}
    BY <1>2, <1>4 DEF ClaimAcquire, Claimable, Rivals, Bookkeeping, TypeOK
  <2>3. \A k \in Keys : k # work[h].key =>
          status'[k] = status[k] /\ input'[k] = input[k] /\ claim'[k] = claim[k]
    BY <1>4 DEF ClaimAcquire, Bookkeeping, TypeOK
  <2>4. /\ status'[work[h].key] = "running"
        /\ input'[work[h].key] = work[h].input
        /\ claim'[work[h].key] = nextToken
        /\ turnOf' = turnOf /\ turns' = turns /\ up' = up
    BY <1>2, <1>4 DEF ClaimAcquire, Bookkeeping, TypeOK
  <2>5. /\ pc'[h] = "preparing"
        /\ work'[h].key = work[h].key
        /\ work'[h].input = work[h].input
        /\ work'[h].token = nextToken
    BY <1>2, <1>4, <1>1, InputFacts DEF ClaimAcquire, Goto, Bookkeeping, TypeOK, HandlersSound
  <2>6. \A g \in Handlers : g # h => pc'[g] = pc[g] /\ work'[g] = work[g]
                                    /\ work[g].token < nextToken
    BY <1>4 DEF ClaimAcquire, Goto, Bookkeeping, TypeOK, HandlersSound
  <2>7. OneInFlight' /\ SucceededHasTurn'
    BY <2>1, <2>3, <2>4 DEF Ties, OneInFlight, SucceededHasTurn
  <2>8. NoOrphanClaim'
    BY <1>2, <2>1, <2>3, <2>4, <2>5 DEF NoOrphanClaim, Holds
  <2>9. HoldersAgree'
    <3> SUFFICES ASSUME NEW g \in Handlers, NEW k \in Keys, status'[k] = "running", Holds(g, k)'
                 PROVE  work'[g].input = input'[k]
      BY DEF HoldersAgree
    <3>1. k = work[h].key
      BY <2>1, <2>3
    <3>2. work'[g].token = nextToken /\ nextToken \in Nat
      BY <2>4, <3>1 DEF Holds, Bookkeeping, TypeOK
    <3>3. g = h
      BY <2>6, <3>2, InputFacts DEF Bookkeeping, TypeOK
    <3> QED
      BY <2>4, <2>5, <3>1, <3>3
  <2> QED
    BY <2>7, <2>8, <2>9 DEF Ties
<1> QED
  BY <1>3, <1>4 DEF Claim

(* Prepare, GiveUp and a rejected completion only move the holder on.      *)
LEMMA MoveTies ==
  ASSUME Bookkeeping, Ties, NEW h \in Handlers,
         Prepare(h) \/ GiveUp(h) \/ (pc[h] = "calling" /\ CompleteRejected(h))
  PROVE  Ties'
<1>1. pc[h] \in {"preparing", "calling", "failing"}
      /\ UNCHANGED <<requestVars, up, work, turns>>
  BY DEF Prepare, GiveUp, CompleteRejected, storeVars
<1>2. Goto(h, "calling") \/ Goto(h, "failing")
  BY DEF Prepare, GiveUp, CompleteRejected
<1> QED
  BY <1>1, <1>2, HolderMovesTies

(* Holding the claim of a running request is owning it.                    *)
LEMMA HoldsIsOwns ==
  ASSUME Bookkeeping, NEW h \in Handlers, pc[h] \in {"preparing", "calling", "failing"}
  PROVE  Owns(h) <=> status[work[h].key] = "running" /\ Holds(h, work[h].key)
BY DEF Owns, Holds

(* A commit under a claim ends it, with the turn of its input.             *)
LEMMA CommitTies ==
  ASSUME Bookkeeping, Ties, NEW h \in Handlers, pc[h] = "calling", CompleteCommit(h)
  PROVE  Ties'
<1>1. work[h].key \in Keys /\ work[h].input \in Input /\ work[h].input.expected \in Nat
  BY InputFacts DEF Bookkeeping, HandlersSound, TypeOK
<1>2. status[work[h].key] = "running" /\ input[work[h].key] = work[h].input
  BY <1>1, HoldsIsOwns DEF CompleteCommit, Owns, Ties, HoldersAgree
<1>3. \A k \in Keys : status'[k] # "running"
  BY <1>1, <1>2 DEF Ties, OneInFlight, CompleteCommit, Bookkeeping, TypeOK
<1>4. \A k \in Keys : k # work[h].key =>
        status'[k] = status[k] /\ turnOf'[k] = turnOf[k] /\ input'[k] = input[k]
  BY DEF CompleteCommit, Bookkeeping, TypeOK
<1>5. /\ turnOf'[work[h].key] = work[h].input.expected + 1
      /\ input' = input
      /\ turns \subseteq turns'
      /\ \E t \in turns' : /\ t.key = work[h].key
                           /\ t.ver = work[h].input.expected + 1
                           /\ t.input = work[h].input
  <2> DEFINE row == [ver |-> work[h].input.expected + 1, key |-> work[h].key,
                     input |-> work[h].input, text |-> work[h].token]
  <2>1. turns' = turns \union {row}
    BY DEF CompleteCommit, CommitRow
  <2>2. /\ row.key = work[h].key
        /\ row.ver = work[h].input.expected + 1
        /\ row.input = work[h].input
    OBVIOUS
  <2>3. turnOf'[work[h].key] = work[h].input.expected + 1 /\ input' = input
    BY <1>1 DEF CompleteCommit, Bookkeeping, TypeOK
  <2> HIDE DEF row
  <2> QED
    BY <2>1, <2>2, <2>3
<1>6. SucceededHasTurn'
  <2> SUFFICES ASSUME NEW k \in Keys, status'[k] = "succeeded"
               PROVE  \E t \in turns' : t.key = k /\ t.ver = turnOf'[k] /\ t.input = input'[k]
    BY DEF SucceededHasTurn
  <2>1. CASE k = work[h].key
    BY <1>2, <1>5, <2>1
  <2>2. CASE k # work[h].key
    BY <1>4, <1>5, <2>2 DEF Ties, SucceededHasTurn
  <2> QED
    BY <2>1, <2>2
<1> QED
  BY <1>3, <1>6 DEF Ties, OneInFlight, NoOrphanClaim, HoldersAgree

(* fail_narration ends the claim of its coroutine and of no other.         *)
LEMMA FailTies ==
  ASSUME Bookkeeping, Ties, NEW h \in Handlers, FailClaim(h)
  PROVE  Ties'
<1>1. /\ work[h].key \in Keys
      /\ pc[h] = "failing" /\ pc'[h] = "idle"
      /\ \A g \in Handlers \ {h} : pc'[g] = pc[g] /\ work'[g] = work[g]
  BY InputFacts DEF FailClaim, Refuse, Return, Goto, Bookkeeping, HandlersSound, TypeOK
<1>2. CASE ~Owns(h)
  <2>1. UNCHANGED <<requestVars, up, turns>>
    BY <1>2 DEF FailClaim, requestVars
  <2>2. \A k \in Keys : status[k] = "running" => ~Holds(h, k)
    BY <1>1, <1>2 DEF Owns, Holds
  <2> QED
    BY <1>1, <2>1, <2>2, BystanderTies
<1>3. CASE Owns(h)
  <2>1. \A k \in Keys : status'[k] # "running"
    BY <1>1, <1>3 DEF FailClaim, Owns, Ties, OneInFlight, Bookkeeping, TypeOK
  <2>2. SucceededHasTurn'
    BY <1>1, <1>3 DEF FailClaim, Ties, SucceededHasTurn, Bookkeeping, TypeOK
  <2> QED
    BY <2>1, <2>2 DEF Ties, OneInFlight, NoOrphanClaim, HoldersAgree
<1> QED
  BY <1>2, <1>3

(* A waiting duplicate holds no claim, so it may leave.                    *)
LEMMA PollTies ==
  ASSUME Bookkeeping, Ties, NEW h \in Handlers, Poll(h)
  PROVE  Ties'
<1>1. pc[h] = "waiting" /\ UNCHANGED <<requestVars, up, turns>>
  BY DEF Poll, storeVars
<1>2. pc'[h] = "idle" /\ \A g \in Handlers \ {h} : pc'[g] = pc[g] /\ work'[g] = work[g]
  BY DEF Poll, Success, Refuse, Return, Goto, Bookkeeping, TypeOK
<1>3. \A k \in Keys : ~Holds(h, k)
  BY <1>1 DEF Holds
<1> QED
  BY <1>1, <1>2, <1>3, BystanderTies

(* A death leaves claims for the next start, a recovery leaves none.       *)
LEMMA ProcessTies ==
  ASSUME Bookkeeping, Ties, Crash \/ Start \/ RecoverElsewhere
  PROVE  Ties'
<1>1. CASE Crash
  <2>1. OneInFlight' /\ SucceededHasTurn'
    BY <1>1, RequestsAlone DEF Crash, Ties, storeVars
  <2>2. NoOrphanClaim'
    BY <1>1 DEF Crash, NoOrphanClaim
  <2>3. HoldersAgree'
    BY <1>1 DEF Crash, HoldersAgree, Holds
  <2> QED
    BY <2>1, <2>2, <2>3 DEF Ties
<1>2. CASE Start \/ RecoverElsewhere
  <2>1. RecoverRequests
    BY <1>2 DEF Start, RecoverElsewhere
  <2>2. \A k \in Keys : /\ status'[k] # "running"
                        /\ status'[k] = "succeeded" => status[k] = "succeeded"
    BY <2>1 DEF RecoverRequests
  <2>3. SucceededHasTurn'
    BY <2>1, <2>2 DEF RecoverRequests, Ties, SucceededHasTurn
  <2>4. OneInFlight' /\ HoldersAgree'
    BY <2>2 DEF OneInFlight, HoldersAgree
  <2>5. NoOrphanClaim'
    BY <2>2, Zenon DEF NoOrphanClaim
  <2> QED
    BY <2>3, <2>4, <2>5 DEF Ties
<1> QED
  BY <1>1, <1>2

(* A commit without a claim takes no turn away from a request.             *)
LEMMA CommitTurnTies ==
  ASSUME Bookkeeping, Ties, NEW m \in Messages, CommitTurn(m)
  PROVE  Ties'
<1>1. UNCHANGED <<requestVars, up, handlerVars>> /\ turns \subseteq turns'
  BY DEF CommitTurn, CommitRow
<1>2. OneInFlight' /\ SucceededHasTurn'
  BY <1>1, RequestsAlone DEF Ties
<1>3. \A g \in Handlers, k \in Keys : Holds(g, k)' <=> Holds(g, k)
  BY <1>1 DEF Holds, requestVars, handlerVars
<1>4. NoOrphanClaim'
  BY <1>1, <1>3, Zenon DEF Ties, NoOrphanClaim, requestVars
<1>5. HoldersAgree'
  BY <1>1 DEF Ties, HoldersAgree, Holds, requestVars, handlerVars
<1> QED
  BY <1>2, <1>4, <1>5 DEF Ties

(* Every step keeps what ties requests, coroutines and turns.              *)
LEMMA NextTies == ASSUME Bookkeeping, Ties, [Next]_vars PROVE Ties'
<1>1. CASE UNCHANGED vars
  BY <1>1 DEF Ties, OneInFlight, SucceededHasTurn, NoOrphanClaim, HoldersAgree, Holds, vars
<1>2. CASE Next
  BY <1>2, ReceiveTies, ClaimTies, MoveTies, CommitTies, FailTies, PollTies,
    ProcessTies, CommitTurnTies DEF Next, HandlerStep, Complete
<1> QED
  BY <1>1, <1>2
-----------------------------------------------------------------------------
(* Every reply quotes a turn that is in the database when it is given.     *)
LEMMA NewAnswers ==
  ASSUME Bookkeeping, Ties, [Next]_vars, turns \subseteq turns'
  PROVE  \A a \in answers' \ answers :
           \E t \in turns' : t.key = a.key /\ t.ver = a.ver /\ t.input = a.input
<1>1. CASE UNCHANGED vars
  BY <1>1 DEF vars
<1>2. ASSUME NEW h \in Handlers, NEW m \in Messages, Receive(h, m),
             NEW a \in answers' \ answers
      PROVE  \E t \in turns : t.key = a.key /\ t.ver = a.ver /\ t.input = a.input
  BY <1>2 DEF Receive, Refuse, Reply, Replays
<1>3. ASSUME NEW h \in Handlers, Claim(h), NEW a \in answers' \ answers
      PROVE  \E t \in turns : t.key = a.key /\ t.ver = a.ver /\ t.input = a.input
  <2>1. ClaimReplay(h) /\ work[h].key \in Keys
    BY <1>3, InputFacts DEF Claim, ClaimConflict, ClaimReplay, ClaimJoin, ClaimRefused,
      ClaimAcquire, Refuse, Bookkeeping, HandlersSound, TypeOK
  <2>2. /\ a = [key |-> work[h].key, input |-> work[h].input, ver |-> turnOf[work[h].key]]
        /\ input[work[h].key] = work[h].input
        /\ status[work[h].key] = "succeeded"
    BY <1>3, <2>1 DEF ClaimReplay, SameRequest, Success, Reply
  <2> QED
    BY <2>1, <2>2 DEF Ties, SucceededHasTurn
<1>4. ASSUME NEW h \in Handlers, Complete(h), NEW a \in answers' \ answers
      PROVE  \E t \in turns' : t.key = a.key /\ t.ver = a.ver /\ t.input = a.input
  <2> DEFINE row == [ver |-> work[h].input.expected + 1, key |-> work[h].key,
                     input |-> work[h].input, text |-> work[h].token]
  <2>1. CompleteCommit(h)
    BY <1>4 DEF Complete, CompleteRejected
  <2>2. row \in turns'
    BY <2>1 DEF CompleteCommit, CommitRow
  <2>3. a = [key |-> work[h].key, input |-> work[h].input,
             ver |-> work[h].input.expected + 1]
    BY <1>4, <2>1 DEF CompleteCommit, Success, Reply
  <2> QED
    BY <2>2, <2>3
<1>5. ASSUME NEW h \in Handlers, Poll(h), NEW a \in answers' \ answers
      PROVE  \E t \in turns : t.key = a.key /\ t.ver = a.ver /\ t.input = a.input
  BY <1>5 DEF Poll, Refuse, Success, Reply, Replays
<1>6. ASSUME NEW h \in Handlers, Prepare(h) \/ GiveUp(h) \/ FailClaim(h)
      PROVE  answers' = answers
  BY <1>6 DEF Prepare, GiveUp, FailClaim, Refuse
<1>7. CASE Crash \/ Start \/ RecoverElsewhere \/ \E m \in Messages : CommitTurn(m)
  BY <1>7 DEF Crash, Start, RecoverElsewhere, CommitTurn
<1> QED
  BY <1>1, <1>2, <1>3, <1>4, <1>5, <1>6, <1>7 DEF Next, HandlerStep

(* A claim gives its handler a token that nobody has; every other step     *)
(* takes tokens away or leaves them.                                       *)
LEMMA NextTokens ==
  ASSUME Bookkeeping, TokensUnique, [Next]_vars
  PROVE  TokensUnique'
<1>1. \A h \in Handlers : work[h].token \in Nat /\ work[h].token < nextToken
  BY InputFacts DEF Bookkeeping, TypeOK, HandlersSound
<1>2. ASSUME \A h \in Handlers : work'[h].token \in {work[h].token, 0}
      PROVE  TokensUnique'
  BY <1>2 DEF TokensUnique
<1>3. ASSUME NEW h \in Handlers, Return(h) \/ work' = work
      PROVE  TokensUnique'
  BY <1>2, <1>3 DEF Return, NoWork, Bookkeeping, TypeOK
<1>4. ASSUME NEW h \in Handlers, NEW m \in Messages, Receive(h, m)
      PROVE  TokensUnique'
  BY <1>2, <1>3, <1>4 DEF Receive, Refuse, Bookkeeping, TypeOK
<1>5. ASSUME NEW h \in Handlers, Claim(h)
      PROVE  TokensUnique'
  <2>1. CASE ClaimAcquire(h)
    <3>1. \A g \in Handlers : work'[g].token = IF g = h THEN nextToken ELSE work[g].token
      <4>1. work[h] # NoWork
        BY <1>5 DEF Claim, Bookkeeping, HandlersSound
      <4>2. work[h] \in [key : Keys, input : Input, token : Nat]
        BY <4>1 DEF Bookkeeping, TypeOK, Work
      <4> QED BY <2>1, <4>2 DEF ClaimAcquire, Bookkeeping, TypeOK
    <3> QED BY <1>1, <3>1 DEF TokensUnique
  <2>2. CASE ~ClaimAcquire(h)
    BY <1>3, <1>5, <2>2 DEF Claim, ClaimConflict, ClaimReplay, ClaimJoin, ClaimRefused,
      Refuse, Success
  <2> QED BY <2>1, <2>2
<1>6. ASSUME NEW h \in Handlers,
             Prepare(h) \/ GiveUp(h) \/ Complete(h) \/ FailClaim(h) \/ Poll(h)
      PROVE  TokensUnique'
  BY <1>3, <1>6 DEF Prepare, GiveUp, Complete, CompleteCommit, CompleteRejected, FailClaim,
    Poll, Refuse, Success
<1>7. CASE Crash
  BY <1>2, <1>7 DEF Crash, NoWork
<1>8. CASE Start \/ RecoverElsewhere \/ (\E m \in Messages : CommitTurn(m)) \/ UNCHANGED vars
  BY <1>2, <1>8 DEF Start, RecoverElsewhere, CommitTurn, handlerVars, vars
<1> QED
  BY <1>4, <1>5, <1>6, <1>7, <1>8 DEF Next, HandlerStep

(* The invariant, as the conjunction of its layers.                        *)
LEMMA Layers ==
  IInv <=> /\ Bookkeeping /\ LogContiguous /\ ExactlyOnce /\ Ties
           /\ AnswersDurable /\ TokensUnique
BY DEF IInv, Bookkeeping, Ties

(* Every transaction, every move of a coroutine, every death and every     *)
(* recovery of the gateway preserves the invariant.                        *)
THEOREM NextIInv == IInv /\ [Next]_vars => IInv'
<1> SUFFICES ASSUME IInv, [Next]_vars PROVE IInv'
  OBVIOUS
<1>1. Bookkeeping /\ LogContiguous /\ ExactlyOnce /\ Ties /\ AnswersDurable /\ TokensUnique
  BY Layers
<1>2. Bookkeeping'
  BY <1>1, NextBookkeeping
<1>3. LogContiguous' /\ ExactlyOnce' /\ turns \subseteq turns'
  BY <1>1, NextLog
<1>4. Ties'
  BY <1>1, NextTies
<1>5. AnswersDurable'
  BY <1>1, <1>3, NewAnswers DEF AnswersDurable
<1>6. TokensUnique'
  BY <1>1, NextTokens
<1> QED
  BY <1>2, <1>3, <1>4, <1>5, <1>6 DEF IInv, Bookkeeping, Ties

(* The inductive invariant holds in every reachable state.                 *)
THEOREM InductiveInvariant == Spec => []IInv
BY InitIInv, NextIInv, PTL DEF Spec

(* Every variable keeps its type.                                          *)
THEOREM TypeInvariant == Spec => []TypeOK
<1>1. IInv => TypeOK
  BY DEF IInv
<1> QED
  BY <1>1, InductiveInvariant, PTL

(* Turns are numbered without gaps, and neither an idempotency key nor a   *)
(* request identifier is ever spent on two turns.                          *)
THEOREM HistoryExactlyOnce == Spec => [](LogContiguous /\ ExactlyOnce)
<1>1. IInv => LogContiguous /\ ExactlyOnce
  BY DEF IInv
<1> QED
  BY <1>1, InductiveInvariant, PTL

(* A success reply always quotes a turn that is in the database, with the  *)
(* input the client sent.                                                  *)
THEOREM RepliesAreDurable == Spec => []AnswersDurable
<1>1. IInv => AnswersDurable
  BY DEF IInv
<1> QED
  BY <1>1, InductiveInvariant, PTL

(* One narration of the Party at a time, and while the process lives its   *)
(* claim is held by a coroutine that will end it.                          *)
THEOREM ClaimsAreHeld == Spec => [](OneInFlight /\ NoOrphanClaim)
<1>1. IInv => OneInFlight /\ NoOrphanClaim
  BY DEF IInv
<1> QED
  BY <1>1, InductiveInvariant, PTL

(* A request that says succeeded has its turn.                             *)
THEOREM SuccessIsCommitted == Spec => []SucceededHasTurn
<1>1. IInv => SucceededHasTurn
  BY DEF IInv
<1> QED
  BY <1>1, InductiveInvariant, PTL
-----------------------------------------------------------------------------
(* Every step respects the claims: the action property of Narration.       *)
LEMMA FencedStepHolds ==
  ASSUME IInv, Next
  PROVE  FencedStep
<1> SUFFICES ASSUME NEW k \in Keys
             PROVE  /\ status[k] = "succeeded" =>
                         status'[k] = "succeeded" /\ turnOf'[k] = turnOf[k]
                    /\ (status[k] = "running" /\ status'[k] = "succeeded") =>
                         \E t \in turns' : t.key = k /\ t.text = claim[k]
                    /\ claim[k] # 0 => claim'[k] \in {claim[k], 0}
  BY DEF FencedStep
<1>1. Bookkeeping
  BY Layers
<1>2. CASE UNCHANGED requestVars
  BY <1>2 DEF requestVars
<1>3. ASSUME NEW h \in Handlers, ClaimAcquire(h), pc[h] = "claiming"
      PROVE  /\ status[k] = "succeeded" =>
                  status'[k] = "succeeded" /\ turnOf'[k] = turnOf[k]
             /\ status'[k] = "succeeded" => status[k] = "succeeded"
             /\ claim[k] # 0 => claim'[k] = claim[k]
  <2>1. status[work[h].key] \in {"absent", "failed"} /\ work[h].key \in Keys
    BY <1>1, <1>3, InputFacts DEF ClaimAcquire, Claimable, Rivals, Bookkeeping, TypeOK,
      HandlersSound
  <2>2. claim[work[h].key] = 0
    BY <1>1, <2>1 DEF Bookkeeping, ClaimsSound
  <2> QED
    BY <1>1, <1>3, <2>1, <2>2 DEF ClaimAcquire, Bookkeeping, TypeOK
<1>4. ASSUME NEW h \in Handlers, pc[h] = "calling", CompleteCommit(h)
      PROVE  /\ status[k] = "succeeded" =>
                  status'[k] = "succeeded" /\ turnOf'[k] = turnOf[k]
             /\ (status[k] = "running" /\ status'[k] = "succeeded") =>
                  \E t \in turns' : t.key = k /\ t.text = claim[k]
             /\ claim[k] # 0 => claim'[k] \in {claim[k], 0}
  <2>1. status[work[h].key] = "running" /\ claim[work[h].key] = work[h].token
    BY <1>4 DEF CompleteCommit, Owns
  <2>2. CASE k = work[h].key
    <3> DEFINE row == [ver |-> work[h].input.expected + 1, key |-> work[h].key,
                       input |-> work[h].input, text |-> work[h].token]
    <3>1. row \in turns' /\ row.key = k /\ row.text = claim[k]
      BY <1>4, <2>1, <2>2 DEF CompleteCommit, CommitRow
    <3>2. claim'[k] = 0
      BY <1>1, <1>4, <2>2 DEF CompleteCommit, Bookkeeping, TypeOK
    <3> HIDE DEF row
    <3> QED
      BY <2>1, <2>2, <3>1, <3>2
  <2>3. CASE k # work[h].key
    BY <1>1, <1>4, <2>3 DEF CompleteCommit, Bookkeeping, TypeOK
  <2> QED
    BY <2>2, <2>3
<1>5. ASSUME NEW h \in Handlers, FailClaim(h), Owns(h)
      PROVE  /\ status[k] = "succeeded" =>
                  status'[k] = "succeeded" /\ turnOf'[k] = turnOf[k]
             /\ status'[k] = "succeeded" => status[k] = "succeeded"
             /\ claim[k] # 0 => claim'[k] \in {claim[k], 0}
  BY <1>1, <1>5 DEF FailClaim, Owns, Bookkeeping, TypeOK
<1>6. CASE RecoverRequests
  BY <1>6 DEF RecoverRequests
<1>7. ASSUME NEW h \in Handlers, HandlerStep(h)
      PROVE  \/ UNCHANGED requestVars
             \/ ClaimAcquire(h) /\ pc[h] = "claiming"
             \/ pc[h] = "calling" /\ CompleteCommit(h)
             \/ FailClaim(h) /\ Owns(h)
  <2>1. ASSUME Claim(h), ~ClaimAcquire(h) PROVE UNCHANGED requestVars
    BY <2>1 DEF Claim, ClaimConflict, ClaimReplay, ClaimJoin, ClaimRefused, storeVars
  <2>2. ASSUME Prepare(h) \/ GiveUp(h) \/ Poll(h) \/ CompleteRejected(h)
        PROVE  UNCHANGED requestVars
    BY <2>2 DEF Prepare, GiveUp, Poll, CompleteRejected, storeVars
  <2>3. ASSUME FailClaim(h), ~Owns(h) PROVE UNCHANGED requestVars
    BY <2>3 DEF FailClaim, requestVars
  <2> QED
    BY <1>7, <2>1, <2>2, <2>3 DEF HandlerStep, Claim, Complete
<1>8. ASSUME (\E h \in Handlers, m \in Messages : Receive(h, m)) \/ Crash
             \/ \E m \in Messages : CommitTurn(m)
      PROVE  UNCHANGED requestVars
  BY <1>8 DEF Receive, Crash, CommitTurn, storeVars
<1>9. Start \/ RecoverElsewhere => RecoverRequests
  BY DEF Start, RecoverElsewhere
<1> QED
  BY <1>2, <1>3, <1>4, <1>5, <1>6, <1>7, <1>8, <1>9 DEF Next

(* No step takes a success back, and a success is always that of the claim *)
(* which was current when it was committed.                                *)
THEOREM ClaimsAreFenced == Spec => Fenced
<1>1. IInv /\ [Next]_vars => [FencedStep]_vars
  BY FencedStepHolds
<1> QED
  BY <1>1, InductiveInvariant, PTL DEF Spec, Fenced
-----------------------------------------------------------------------------
(* The history of the Party, read as a sequence.                           *)
Entry == [key : Keys, input : Input]

(* There is exactly one turn of each version.                              *)
LEMMA TurnAtFacts ==
  ASSUME TypeOK, LogContiguous
  PROVE  /\ \A n \in 1..version : TurnAt(n) \in turns /\ TurnAt(n).ver = n
         /\ \A t \in turns : t.ver \in 1..version /\ TurnAt(t.ver) = t
<1>1. ASSUME NEW n \in 1..version PROVE TurnAt(n) \in turns /\ TurnAt(n).ver = n
  BY <1>1 DEF LogContiguous, TurnAt
<1>2. ASSUME NEW t \in turns PROVE t.ver \in 1..version /\ TurnAt(t.ver) = t
  <2>1. t.ver \in 1..version
    BY <1>2 DEF LogContiguous
  <2> QED
    BY <1>1, <2>1 DEF LogContiguous
<1> QED
  BY <1>1, <1>2

(* The history is a sequence of entries, as long as the version says.      *)
LEMMA HistoryFacts ==
  ASSUME TypeOK, LogContiguous
  PROVE  /\ History \in Seq(Entry)
         /\ Len(History) = version
         /\ \A n \in 1..version : /\ History[n].key = TurnAt(n).key
                                  /\ History[n].input = TurnAt(n).input
<1>1. version \in Nat
  BY DEF TypeOK
<1>2. \A n \in 1..version : [key |-> TurnAt(n).key, input |-> TurnAt(n).input] \in Entry
  <2> TAKE n \in 1..version
  <2>1. TurnAt(n) \in Turn
    BY TurnAtFacts DEF TypeOK
  <2> QED
    BY <2>1 DEF Turn, Entry
<1>3. History \in [1..version -> Entry]
  BY <1>2 DEF History
<1> QED
  BY <1>1, <1>3 DEF History

(* A commit appends one entry to the history.                              *)
LEMMA CommitAppends ==
  ASSUME Bookkeeping, LogContiguous, ExactlyOnce,
         NEW k \in Keys, NEW i \in Input, NEW text \in Nat, Commits(k, i, text)
  PROVE  /\ History' = Append(History, [key |-> k, input |-> i])
         /\ Log!Fresh([key |-> k, input |-> i])
         /\ i.expected = Len(History)
<1> DEFINE row == [ver |-> i.expected + 1, key |-> k, input |-> i, text |-> text]
           entry == [key |-> k, input |-> i]
<1>1. /\ version \in Nat /\ i.expected = version /\ version' = version + 1
      /\ turns' = turns \union {row}
      /\ \A t \in turns : t.key # k /\ t.input.rid # i.rid
  BY DEF Commits, CommitConflict, CommitRow, Bookkeeping, TypeOK
<1>2. row.ver = version + 1 /\ row.key = k /\ row.input = i
  BY <1>1
<1>3. LogContiguous' /\ TypeOK /\ Len(History) = version /\ History \in Seq(Entry)
  BY CommitKeepsLog, HistoryFacts DEF Bookkeeping
<1> HIDE DEF row
<1>4. Log!Fresh(entry)
  <2> SUFFICES ASSUME NEW n \in 1..version
               PROVE  History[n].key # k /\ History[n].input.rid # i.rid
    BY <1>3 DEF Log!Fresh
  <2> QED
    BY <1>1, <1>3, TurnAtFacts, HistoryFacts
<1>5. \A n \in 1..version : TurnAt(n)' = TurnAt(n)
  <2> TAKE n \in 1..version
  <2>1. TurnAt(n) \in turns' /\ TurnAt(n).ver = n
    BY <1>1, <1>3, TurnAtFacts
  <2>2. \A s, t \in turns' : s.ver = t.ver => s = t
    BY <1>3 DEF LogContiguous
  <2> QED
    BY <2>1, <2>2 DEF TurnAt
<1>6. \A n \in Nat : n = version + 1 => TurnAt(n)' = row
  <2>1. \A s, t \in turns' : s.ver = t.ver => s = t
    BY <1>3 DEF LogContiguous
  <2> QED
    BY <1>1, <1>2, <2>1 DEF TurnAt
<1>7. History' = Append(History, entry)
  <2> DEFINE after == Append(History, entry)
  <2>1. entry \in Entry
    BY DEF Entry
  <2>2. /\ DOMAIN after = 1..(version + 1)
        /\ after = [n \in 1..(version + 1) |-> after[n]]
        /\ after[version + 1] = entry
        /\ \A n \in 1..version : after[n] = History[n]
    BY <1>1, <1>3, <2>1
  <2> HIDE DEF after
  <2>3. \A n \in 1..version : after[n] = [key |-> TurnAt(n)'.key, input |-> TurnAt(n)'.input]
    BY <1>5, <2>2 DEF History
  <2>4. \A n \in 1..(version + 1) :
          after[n] = [key |-> TurnAt(n)'.key, input |-> TurnAt(n)'.input]
    <3> TAKE n \in 1..(version + 1)
    <3>1. CASE n \in 1..version
      BY <2>3, <3>1
    <3>2. CASE n = version + 1
      BY <1>1, <1>2, <1>6, <2>2, <3>2
    <3>3. n \in 1..version \/ n = version + 1
      BY <1>1
    <3> QED
      BY <3>1, <3>2, <3>3
  <2>5. History' = [n \in 1..(version + 1) |->
                      [key |-> TurnAt(n)'.key, input |-> TurnAt(n)'.input]]
    BY <1>1 DEF History
  <2>6. History' = after
    BY <2>2, <2>4, <2>5
  <2> QED
    BY <2>6 DEF after
<1> QED
  BY <1>1, <1>3, <1>4, <1>7

(* The reply that a step may give to a turn that is already there.         *)
Quotes(a) == \E t \in turns : a = [key |-> t.key, input |-> t.input, ver |-> t.ver]

(* A reply with a turn that is there is a replay of the log.               *)
LEMMA QuoteIsReplay ==
  ASSUME TypeOK, LogContiguous, UNCHANGED <<version, turns>>, NEW a, Quotes(a),
         answers' = answers \union {a}
  PROVE  Log!Replay
<1>1. PICK t \in turns : a = [key |-> t.key, input |-> t.input, ver |-> t.ver]
  BY DEF Quotes
<1>2. t.ver \in 1..Len(History)
      /\ History[t.ver].key = t.key /\ History[t.ver].input = t.input
  BY TurnAtFacts, HistoryFacts
<1>3. UNCHANGED History
  BY DEF History, TurnAt
<1>4. answers' = answers \union {Log!Reply(History[t.ver], t.ver)}
  BY <1>1, <1>2 DEF Log!Reply
<1> QED
  BY <1>2, <1>3, <1>4 DEF Log!Replay

(* A step that changes neither turns nor replies is none of the log.       *)
LEMMA StutterLog ==
  ASSUME UNCHANGED <<version, turns, answers>>
  PROVE  UNCHANGED Log!logVars
BY DEF Log!logVars, History, TurnAt

(* A commit, answered or not, extends the log.                             *)
LEMMA CommitIsExtend ==
  ASSUME Bookkeeping, LogContiguous, ExactlyOnce,
         NEW k \in Keys, NEW i \in Input, NEW text \in Nat, Commits(k, i, text),
         answers' \in {answers, answers \union {[key |-> k, input |-> i, ver |-> i.expected + 1]}}
  PROVE  Log!Extend
<1> DEFINE entry == [key |-> k, input |-> i]
<1>1. entry \in Entry /\ entry.key = k /\ entry.input = i
  BY DEF Entry
<1>2. /\ History' = Append(History, entry)
      /\ Log!Fresh(entry)
      /\ i.expected = Len(History)
  BY CommitAppends
<1>3. Log!Reply(entry, Len(History) + 1) = [key |-> k, input |-> i, ver |-> i.expected + 1]
  BY <1>1, <1>2 DEF Log!Reply
<1> HIDE DEF entry
<1> QED
  BY <1>1, <1>2, <1>3 DEF Log!Extend, Entry

(* Every step of the protocol is an append, a replay or nothing to the log.*)
LEMMA StepImplementsLog ==
  ASSUME IInv, [Next]_vars
  PROVE  Log!Next \/ UNCHANGED Log!logVars
<1>1. Bookkeeping /\ TypeOK /\ LogContiguous /\ ExactlyOnce /\ Ties
  BY Layers DEF Bookkeeping
<1>2. CASE UNCHANGED vars
  BY <1>2, StutterLog DEF vars
<1>3. ASSUME NEW h \in Handlers, NEW m \in Messages, Receive(h, m)
      PROVE  Log!Replay \/ UNCHANGED Log!logVars
  <2>1. UNCHANGED <<version, turns>>
    BY <1>3 DEF Receive, storeVars
  <2>2. CASE answers' = answers
    BY <2>1, <2>2, StutterLog
  <2>3. CASE answers' # answers
    <3>1. PICK t \in Replays(m.key, InputOf(m)) :
            answers' = answers \union {[key |-> m.key, input |-> InputOf(m), ver |-> t.ver]}
      BY <1>3, <2>3 DEF Receive, Refuse, Reply
    <3>2. Quotes([key |-> m.key, input |-> InputOf(m), ver |-> t.ver])
      BY DEF Replays, Quotes
    <3> QED
      BY <1>1, <2>1, <3>1, <3>2, QuoteIsReplay
  <2> QED
    BY <2>2, <2>3
<1>4. ASSUME NEW h \in Handlers, Claim(h)
      PROVE  Log!Replay \/ UNCHANGED Log!logVars
  <2>1. UNCHANGED <<version, turns>>
    BY <1>4 DEF Claim, ClaimConflict, ClaimReplay, ClaimJoin, ClaimRefused,
      ClaimAcquire, storeVars
  <2>2. CASE ClaimReplay(h)
    <3> DEFINE a == [key |-> work[h].key, input |-> work[h].input, ver |-> turnOf[work[h].key]]
    <3>1. work[h].key \in Keys
      BY <1>1, <1>4, InputFacts DEF Claim, Bookkeeping, HandlersSound, TypeOK
    <3>2. answers' = answers \union {a}
      BY <2>2 DEF ClaimReplay, Success, Reply
    <3>3. Quotes(a)
      BY <1>1, <2>2, <3>1 DEF ClaimReplay, SameRequest, Ties, SucceededHasTurn, Quotes
    <3> QED
      BY <1>1, <2>1, <3>2, <3>3, QuoteIsReplay
  <2>3. CASE ~ClaimReplay(h)
    BY <1>4, <2>1, <2>3, StutterLog DEF Claim, ClaimConflict, ClaimJoin, ClaimRefused,
      ClaimAcquire, Refuse
  <2> QED
    BY <2>2, <2>3
<1>5. ASSUME NEW h \in Handlers, Complete(h)
      PROVE  Log!Extend \/ UNCHANGED Log!logVars
  <2>1. CASE CompleteCommit(h)
    <3>1. work[h].key \in Keys /\ work[h].input \in Input /\ work[h].token \in Nat
      BY <1>1, <1>5, InputFacts DEF Complete, Bookkeeping, HandlersSound, TypeOK
    <3>2. Commits(work[h].key, work[h].input, work[h].token)
      BY <2>1 DEF CompleteCommit, Commits
    <3>3. answers' = answers \union
            {[key |-> work[h].key, input |-> work[h].input, ver |-> work[h].input.expected + 1]}
      BY <2>1 DEF CompleteCommit, Success, Reply
    <3> QED
      BY <1>1, <3>1, <3>2, <3>3, CommitIsExtend
  <2>2. CASE CompleteRejected(h)
    BY <2>2, StutterLog DEF CompleteRejected, storeVars
  <2> QED
    BY <1>5, <2>1, <2>2 DEF Complete
<1>6. ASSUME NEW h \in Handlers, Poll(h)
      PROVE  Log!Replay \/ UNCHANGED Log!logVars
  <2>1. UNCHANGED <<version, turns>>
    BY <1>6 DEF Poll, storeVars
  <2>2. CASE answers' = answers
    BY <2>1, <2>2, StutterLog
  <2>3. CASE answers' # answers
    <3>1. PICK t \in Replays(work[h].key, work[h].input) :
            answers' = answers \union
              {[key |-> work[h].key, input |-> work[h].input, ver |-> t.ver]}
      BY <1>6, <2>3 DEF Poll, Refuse, Success, Reply
    <3>2. Quotes([key |-> work[h].key, input |-> work[h].input, ver |-> t.ver])
      BY DEF Replays, Quotes
    <3> QED
      BY <1>1, <2>1, <3>1, <3>2, QuoteIsReplay
  <2> QED
    BY <2>2, <2>3
<1>7. ASSUME NEW h \in Handlers, Prepare(h) \/ GiveUp(h) \/ FailClaim(h)
      PROVE  UNCHANGED Log!logVars
  BY <1>7, StutterLog DEF Prepare, GiveUp, FailClaim, Refuse, storeVars
<1>8. CASE Crash \/ Start \/ RecoverElsewhere
  BY <1>8, StutterLog DEF Crash, Start, RecoverElsewhere, RecoverRequests, storeVars
<1>9. ASSUME NEW m \in Messages, CommitTurn(m) PROVE Log!Extend
  <2>1. Commits(m.key, DirectInput(m), 0) /\ answers' = answers
    BY <1>9 DEF CommitTurn, Commits, DirectInput
  <2>2. m.key \in Keys /\ DirectInput(m) \in Input /\ 0 \in Nat
    BY DirectInputOfType
  <2> HIDE DEF DirectInput
  <2> QED
    BY <1>1, <2>1, <2>2, CommitIsExtend
<1> QED
  BY <1>2, <1>3, <1>4, <1>5, <1>6, <1>7, <1>8, <1>9
  DEF Next, HandlerStep, Log!Next

(* Claims, retries, joins, crashes and recoveries implement the log that   *)
(* only grows and that answers every retry with the turn it has.           *)
THEOREM NarrationImplementsLog == Spec => ImplementsLog
<1>1. Init => Log!Init
  BY DEF Init, Log!Init, History
<1>2. IInv /\ [Next]_vars => [Log!Next]_(Log!logVars)
  BY StepImplementsLog
<1> QED
  BY <1>1, <1>2, InductiveInvariant, PTL DEF Spec, ImplementsLog, Log!Spec

-----------------------------------------------------------------------------
(* Refinement: one author of the next turn.                                *)

\* A handler that holds the claim of a running request.
Author(h) == \E k \in Keys : status[k] = "running" /\ Holds(h, k)

(* There is one author at most.                                            *)
LEMMA AuthorsUnique ==
  ASSUME IInv, NEW g \in Handlers, NEW h \in Handlers, Author(g), Author(h)
  PROVE  g = h
<1>1. PICK j \in Keys : status[j] = "running" /\ Holds(g, j)
  BY DEF Author
<1>2. PICK k \in Keys : status[k] = "running" /\ Holds(h, k)
  BY DEF Author
<1>3. j = k
  BY <1>1, <1>2 DEF IInv, OneInFlight
<1>4. claim[k] # 0 /\ work[g].token = claim[k] /\ work[h].token = claim[k]
  BY <1>1, <1>2, <1>3 DEF IInv, ClaimsSound, Holds
<1> QED BY <1>4 DEF IInv, TokensUnique

(* What the author does is the phase.                                      *)
LEMMA PhaseOfAuthor ==
  ASSUME IInv, NEW h \in Handlers, Author(h)
  PROVE  /\ Phase = IF pc[h] = "failing" THEN "idle" ELSE pc[h]
         /\ Asked = IF pc[h] = "calling" THEN work[h].input.expected ELSE 0
         /\ pc[h] \in {"preparing", "calling", "failing"}
<1>1. pc[h] \in {"preparing", "calling", "failing"}
  BY DEF Author, Holds
<1>2. \A point : Authors(point) = IF pc[h] = point THEN {h} ELSE {}
  BY AuthorsUnique DEF Authors, Author
<1>3. pc[h] = "calling" => (CHOOSE g \in Authors("calling") : TRUE) = h
  BY <1>2
<1> QED BY <1>1, <1>2, <1>3 DEF Phase, Asked

(* Without an author nothing is written.                                   *)
LEMMA NoAuthorIdle ==
  ASSUME \A h \in Handlers : ~Author(h)
  PROVE  Phase = "idle" /\ Asked = 0
<1>1. \A point : Authors(point) = {}
  BY DEF Authors, Author
<1> QED BY <1>1 DEF Phase, Asked

\* What the phase is, with an author and without.
PhaseIs ==
  /\ \A h \in Handlers : Author(h) =>
       /\ Phase = IF pc[h] = "failing" THEN "idle" ELSE pc[h]
       /\ Asked = IF pc[h] = "calling" THEN work[h].input.expected ELSE 0
  /\ (\A h \in Handlers : ~Author(h)) => Phase = "idle" /\ Asked = 0

(* So it is in every state of the invariant,                               *)
LEMMA PhaseNow == IInv => PhaseIs
BY PhaseOfAuthor, NoAuthorIdle DEF PhaseIs

(* and in the next one.                                                    *)
LEMMA PhaseNext == IInv' => PhaseIs'
BY PhaseNow, PTL

(* Who owns the claim that it works for is the author.                     *)
LEMMA OwnerIsAuthor ==
  ASSUME IInv, NEW h \in Handlers, pc[h] \in {"preparing", "calling", "failing"}
  PROVE  /\ Owns(h) <=> Author(h)
         /\ work[h].key \in Keys /\ work[h].input.expected \in Nat
<1>1. work[h] # NoWork /\ work[h] \in Work
  BY DEF IInv, TypeOK, HandlersSound
<1>2. work[h].key \in Keys /\ work[h].input.expected \in Nat
  BY <1>1, InputFacts
<1> QED BY <1>2 DEF Owns, Author, Holds

(* After a recovery, a commit or a failure nobody is the author.           *)
LEMMA NothingRuns ==
  ASSUME \A k \in Keys : status[k] # "running"
  PROVE  \A h \in Handlers : ~Author(h)
BY DEF Author

(* The author goes on as it was.                                           *)
LEMMA SameAuthor ==
  ASSUME IInv, IInv',
         \A h \in Handlers : Author(h)' <=> Author(h),
         \A h \in Handlers : Author(h) => pc'[h] = pc[h] /\ work'[h] = work[h]
  PROVE  UNCHANGED <<Phase, Asked>>
<1>1. CASE \E h \in Handlers : Author(h)
  <2>1. PICK h \in Handlers : Author(h)
    BY <1>1
  <2>2. pc'[h] = pc[h] /\ work'[h] = work[h]
    BY <2>1
  <2>3. Author(h)'
    BY <2>1
  <2>4. /\ Phase' = IF pc'[h] = "failing" THEN "idle" ELSE pc'[h]
        /\ Asked' = IF pc'[h] = "calling" THEN work'[h].input.expected ELSE 0
    BY <2>3, PhaseNext DEF PhaseIs
  <2> QED BY <2>1, <2>2, <2>4, PhaseOfAuthor
<1>2. CASE \A h \in Handlers : ~Author(h)
  <2>1. \A h \in Handlers : ~Author(h)'
    BY <1>2
  <2> QED BY <1>2, <2>1, PhaseNow, PhaseNext DEF PhaseIs
<1> QED BY <1>1, <1>2

(* A handler that is not the author comes and goes.                        *)
LEMMA BystanderMoves ==
  ASSUME IInv, IInv', NEW h \in Handlers, ~Author(h), ~Author(h)',
         UNCHANGED <<version, status, claim>>,
         \A g \in Handlers \ {h} : pc'[g] = pc[g] /\ work'[g] = work[g]
  PROVE  UNCHANGED OneAuthor!authoringVars
<1>1. \A g \in Handlers \ {h} : Author(g)' <=> Author(g)
  BY DEF Author, Holds
<1>2. UNCHANGED <<Phase, Asked>>
  BY <1>1, SameAuthor
<1> QED BY <1>2 DEF OneAuthor!authoringVars

(* The author is gone.                                                     *)
LEMMA AuthorStops ==
  ASSUME UNCHANGED version, Phase' = "idle", Asked' = 0
  PROVE  OneAuthor!Next
BY DEF OneAuthor!Next, OneAuthor!Stop

(* A claim that is acquired has no rival in flight: its coroutine becomes  *)
(* the author.                                                             *)
LEMMA ClaimBegins ==
  ASSUME IInv, IInv', NEW h \in Handlers, pc[h] = "claiming", ClaimAcquire(h)
  PROVE  OneAuthor!Next
<1>1. work[h] # NoWork /\ work[h] \in Work
  BY DEF IInv, TypeOK, HandlersSound
<1>2. work[h].key \in Keys
  BY <1>1, InputFacts
<1>3. \A k \in Keys : status[k] # "running"
  <2>1. status[work[h].key] # "running"
    BY <1>2 DEF ClaimAcquire, Claimable, Rivals, SameRequest
  <2> QED BY <2>1 DEF ClaimAcquire, InFlight
<1>4. Phase = "idle" /\ Asked = 0
  BY <1>3, NothingRuns, PhaseNow DEF PhaseIs
<1>5. /\ status'[work[h].key] = "running" /\ claim'[work[h].key] = nextToken
      /\ pc'[h] = "preparing" /\ work'[h].token = nextToken
      /\ work'[h].key = work[h].key
  <2>1. work[h] \in [key : Keys, input : Input, token : Nat]
    BY <1>1 DEF Work
  <2> QED BY <1>2, <2>1 DEF ClaimAcquire, Goto, IInv, TypeOK
<1>6. Author(h)'
  BY <1>2, <1>5 DEF Author, Holds
<1>7. Phase' = "preparing" /\ Asked' = 0
  BY <1>5, <1>6, PhaseNext DEF PhaseIs
<1>8. version' = version
  BY DEF ClaimAcquire
<1> QED BY <1>4, <1>7, <1>8 DEF OneAuthor!Next, OneAuthor!Begin

(* The author moves within its narration: it hands its prompt over, if the *)
(* prompt is for the version that is current, or it fails.                 *)
LEMMA AuthorMoves ==
  ASSUME IInv, IInv', NEW h \in Handlers, Prepare(h) \/ GiveUp(h) \/ CompleteRejected(h),
         pc[h] \in {"preparing", "calling"}
  PROVE  [OneAuthor!Next]_(OneAuthor!authoringVars)
<1>1. /\ UNCHANGED <<version, status, claim, work>>
      /\ pc' = [pc EXCEPT ![h] = pc'[h]] /\ pc'[h] \in {"calling", "failing"}
      /\ pc'[h] = "calling" => pc[h] = "preparing" /\ version = work[h].input.expected
  BY DEF Prepare, GiveUp, CompleteRejected, Goto, storeVars, requestVars, IInv, TypeOK
<1>2. \A g \in Handlers \ {h} : pc'[g] = pc[g] /\ work'[g] = work[g]
  BY <1>1 DEF IInv, TypeOK
<1>3. Author(h)' <=> Author(h)
  BY <1>1 DEF Author, Holds
<1>4. CASE ~Author(h)
  BY <1>1, <1>2, <1>3, <1>4, BystanderMoves
<1>5. CASE Author(h)
  <2>1. /\ Phase = pc[h]
        /\ Asked = IF pc[h] = "calling" THEN work[h].input.expected ELSE 0
    BY <1>5, PhaseNow DEF PhaseIs
  <2>2. /\ Phase' = IF pc'[h] = "failing" THEN "idle" ELSE pc'[h]
        /\ Asked' = IF pc'[h] = "calling" THEN work'[h].input.expected ELSE 0
    BY <1>3, <1>5, PhaseNext DEF PhaseIs
  <2>3. CASE pc'[h] = "failing"
    BY <1>1, <2>2, <2>3, AuthorStops
  <2>4. CASE pc'[h] = "calling"
    BY <1>1, <2>1, <2>2, <2>4 DEF OneAuthor!Next, OneAuthor!Ask
  <2> QED BY <1>1, <2>3, <2>4
<1> QED BY <1>4, <1>5

(* A turn is committed by the author, at the version its prompt was for.   *)
LEMMA AuthorCommits ==
  ASSUME IInv, IInv', NEW h \in Handlers, pc[h] = "calling", CompleteCommit(h)
  PROVE  OneAuthor!Next
<1>1. Author(h) /\ work[h].key \in Keys
  BY OwnerIsAuthor DEF CompleteCommit
<1>2. Phase = "calling" /\ Asked = work[h].input.expected
  BY <1>1, PhaseNow DEF PhaseIs
<1>3. version = work[h].input.expected /\ version' = version + 1
  BY DEF CompleteCommit, CommitConflict, CommitRow
<1>4. \A k \in Keys : status'[k] # "running"
  BY <1>1 DEF CompleteCommit, Owns, IInv, TypeOK, OneInFlight
<1>5. \A g \in Handlers : ~Author(g)'
  BY <1>4 DEF Author
<1>6. Phase' = "idle" /\ Asked' = 0
  BY <1>5, PhaseNext DEF PhaseIs
<1> QED BY <1>2, <1>3, <1>6 DEF OneAuthor!Next, OneAuthor!Commit

(* Every step is a step of Authoring or none.                              *)
LEMMA StepImplementsAuthoring ==
  ASSUME IInv, IInv', [Next]_vars
  PROVE  [OneAuthor!Next]_(OneAuthor!authoringVars)
<1>1. ASSUME UNCHANGED version, \A k \in Keys : status'[k] # "running"
      PROVE  OneAuthor!Next
  <2>1. \A g \in Handlers : ~Author(g)'
    BY <1>1 DEF Author
  <2> QED BY <1>1, <2>1, AuthorStops, PhaseNext DEF PhaseIs
<1>2. ASSUME NEW h \in Handlers, pc[h] \in {"idle", "claiming", "waiting"},
             pc'[h] \in {"idle", "claiming", "waiting"},
             \A g \in Handlers \ {h} : pc'[g] = pc[g] /\ work'[g] = work[g],
             UNCHANGED <<version, status, claim>>
      PROVE  UNCHANGED OneAuthor!authoringVars
  BY <1>2, BystanderMoves DEF Author, Holds
<1>3. ASSUME NEW h \in Handlers, NEW m \in Messages, Receive(h, m)
      PROVE  UNCHANGED OneAuthor!authoringVars
  <2>1. /\ pc[h] = "idle" /\ pc'[h] \in {"idle", "claiming"}
        /\ \A g \in Handlers \ {h} : pc'[g] = pc[g] /\ work'[g] = work[g]
        /\ UNCHANGED <<version, status, claim>>
    BY <1>3 DEF Receive, Refuse, Return, Goto, storeVars, requestVars, IInv, TypeOK
  <2> QED BY <1>2, <2>1
<1>4. ASSUME NEW h \in Handlers, Claim(h)
      PROVE  [OneAuthor!Next]_(OneAuthor!authoringVars)
  <2>1. CASE ClaimAcquire(h)
    BY <1>4, <2>1, ClaimBegins DEF Claim
  <2>2. CASE ~ClaimAcquire(h)
    <3>1. /\ pc[h] = "claiming" /\ pc'[h] \in {"idle", "waiting"}
          /\ \A g \in Handlers \ {h} : pc'[g] = pc[g] /\ work'[g] = work[g]
          /\ UNCHANGED <<version, status, claim>>
      BY <1>4, <2>2 DEF Claim, ClaimConflict, ClaimReplay, ClaimJoin, ClaimRefused, Refuse,
        Success, Return, Goto, storeVars, requestVars, IInv, TypeOK
    <3> QED BY <1>2, <3>1
  <2> QED BY <2>1, <2>2
<1>5. ASSUME NEW h \in Handlers, Prepare(h) \/ GiveUp(h)
      PROVE  [OneAuthor!Next]_(OneAuthor!authoringVars)
  BY <1>5, AuthorMoves DEF Prepare, GiveUp
<1>6. ASSUME NEW h \in Handlers, Complete(h)
      PROVE  [OneAuthor!Next]_(OneAuthor!authoringVars)
  BY <1>6, AuthorMoves, AuthorCommits DEF Complete
<1>7. ASSUME NEW h \in Handlers, FailClaim(h)
      PROVE  [OneAuthor!Next]_(OneAuthor!authoringVars)
  <2>1. /\ pc[h] = "failing" /\ pc'[h] = "idle" /\ UNCHANGED version
        /\ \A g \in Handlers \ {h} : pc'[g] = pc[g] /\ work'[g] = work[g]
    BY <1>7 DEF FailClaim, Refuse, Return, Goto, IInv, TypeOK
  <2>2. CASE Owns(h)
    <3>1. \A k \in Keys : status'[k] # "running"
      BY <1>7, <2>1, <2>2, OwnerIsAuthor DEF FailClaim, Owns, IInv, TypeOK, OneInFlight
    <3> QED BY <1>1, <2>1, <3>1
  <2>3. CASE ~Owns(h)
    <3>1. ~Author(h) /\ UNCHANGED <<status, claim>>
      BY <1>7, <2>1, <2>3, OwnerIsAuthor DEF FailClaim
    <3>2. ~Author(h)'
      BY <2>1 DEF Author, Holds
    <3> QED BY <2>1, <3>1, <3>2, BystanderMoves
  <2> QED BY <2>2, <2>3
<1>8. ASSUME NEW h \in Handlers, Poll(h)
      PROVE  UNCHANGED OneAuthor!authoringVars
  <2>1. /\ pc[h] = "waiting" /\ pc'[h] = "idle"
        /\ \A g \in Handlers \ {h} : pc'[g] = pc[g] /\ work'[g] = work[g]
        /\ UNCHANGED <<version, status, claim>>
    BY <1>8 DEF Poll, Refuse, Success, Return, Goto, storeVars, requestVars, IInv, TypeOK
  <2> QED BY <1>2, <2>1
<1>9. CASE Crash
  <2>1. version' = version /\ \A h \in Handlers : ~Author(h)'
    BY <1>9 DEF Crash, storeVars, Author, Holds
  <2> QED BY <2>1, AuthorStops, PhaseNext DEF PhaseIs
<1>10. CASE Start \/ RecoverElsewhere
  BY <1>1, <1>10 DEF Start, RecoverElsewhere, RecoverRequests
<1>11. ASSUME NEW m \in Messages, CommitTurn(m)
       PROVE  OneAuthor!Next
  <2>1. Seeding /\ version' = version + 1 /\ UNCHANGED <<status, claim, pc, work>>
    BY <1>11 DEF CommitTurn, CommitConflict, CommitRow, requestVars, handlerVars
  <2>2. UNCHANGED <<Phase, Asked>>
    BY <2>1 DEF Phase, Asked, Authors, Holds
  <2> QED BY <2>1, <2>2 DEF OneAuthor!Next, OneAuthor!Seed
<1>12. CASE UNCHANGED vars
  BY <1>12 DEF vars, OneAuthor!authoringVars, Phase, Asked, Authors, Holds
<1> QED
  BY <1>3, <1>4, <1>5, <1>6, <1>7, <1>8, <1>9, <1>10, <1>11, <1>12 DEF Next, HandlerStep

(* Of all the coroutines that ever held a claim, also those that a         *)
(* recovery has taken it from, only one can commit the next turn, and its  *)
(* prompt was assembled for that turn.                                     *)
THEOREM NarrationImplementsAuthoring == Spec => ImplementsAuthoring
<1>1. Init => OneAuthor!Init
  <2> SUFFICES ASSUME Init PROVE OneAuthor!Init
    OBVIOUS
  <2>1. \A h \in Handlers : ~Author(h)
    BY DEF Init, Author
  <2> QED BY <2>1, NoAuthorIdle DEF Init, OneAuthor!Init
<1>2. IInv /\ IInv' /\ [Next]_vars => [OneAuthor!Next]_(OneAuthor!authoringVars)
  BY StepImplementsAuthoring
<1> QED
  BY <1>1, <1>2, InductiveInvariant, PTL DEF Spec, ImplementsAuthoring, OneAuthor!Spec
=============================================================================
