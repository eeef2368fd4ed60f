--------------------------- MODULE ModelTurnProofs ---------------------------
(***************************************************************************)
(* Theorems about ModelTurn for every value of its constants.              *)
(***************************************************************************)
EXTENDS ModelTurn, SequenceTheorems, TLAPS

(***************************************************************************)
(* What is at work in which phase: a call of the gateway and a tool never  *)
(* at once, neither outside a turn, and one result at a time.              *)
(***************************************************************************)
ModeInv ==
  /\ phase # "tools" => step = "free" /\ result = "none"
  /\ gate # "free" \/ reply # "none" => phase \in {"curate", "ask"}
  /\ gate # "free" => reply = "none"
  /\ step # "free" => result = "none"

(***************************************************************************)
(* How far a write is at each step of ToolExecutor._execute.               *)
(***************************************************************************)
ToolInv ==
  /\ step \in Step /\ wrote \in BOOLEAN /\ shielded \in BOOLEAN
  /\ step # "free" => tool \in ToolKind
  /\ step # "recover" => ~shielded
  /\ step = "free" => ~wrote
  /\ step \in {"resolve", "prepare"} => effect = "none" /\ ~wrote
  /\ step = "prepare" => tool = "transactional"
  /\ step = "execute" => /\ wrote <=> tool # "read"
                         /\ effect \in {"none", "partial", "done"}
                         /\ tool = "read" => effect = "none"
  /\ step = "commit" => wrote /\ effect = "done"
  /\ Recovering => wrote /\ effect = "partial"
  /\ WriteIsSettled


(***************************************************************************)
(* Whose call an id is: the id of a call in progress was not sent before,  *)
(* unless for the same turn.                                               *)
(***************************************************************************)
OwnerInv ==
  /\ \A o \in owners : o[1] \in seen
  /\ gate # "free" => /\ call.id \in seen
                      /\ \A o \in owners : o[1] = call.id => o[2] = call.turn
  /\ OneTurnPerCall

(***************************************************************************)
(* What is approved is what the gateway holds, until it is sent.           *)
(***************************************************************************)
ApprovalInv ==
  /\ gate = "decide" => screen = call
  /\ Debug /\ gate = "send" => approved = call

(***************************************************************************)
(* One snapshot: of the objects, of a call in progress and of what was     *)
(* sent; no load ends while a call is made or a turn has sent anything.    *)
(***************************************************************************)
SnapshotInv ==
  /\ snapshot = Snapshot(snapshot.settings, snapshot.revision)
  /\ built = snapshot
  /\ gate # "free" => call.config = snapshot
  /\ sent # None => sent.config = snapshot
  /\ wanted # None => Torn \/ snapshot.settings = wanted
  /\ phase \notin {"curate", "ask", "tools"} => sent = None /\ wanted = None

(***************************************************************************)
(* The types, in parts, and why no counter leaves its range: a turn        *)
(* answers once, and a batch is staged or asked about only while a turn is *)
(* not curated.                                                            *)
(***************************************************************************)
CallTypes ==
  /\ seen \subseteq CallId /\ owners \subseteq CallId \X TurnId
  /\ DOMAIN nextSeq \subseteq TurnId
  /\ \A t \in DOMAIN nextSeq : nextSeq[t] \in Nat \ {0}
  /\ {call, sender, screen, approved, sent} \subseteq Payloads \cup {None}
  /\ gate \in Gate /\ reply \in Reply
  /\ gate # "free" => call # None
  /\ gate = "backoff" => call.attempt < MaxAttempts

\* A call of the round is at work, or its result was not taken.
Busy == step # "free" \/ result # "none"

ToolTypes ==
  /\ tool \in ToolKind \cup {"none"} /\ step \in Step
  /\ wrote \in BOOLEAN /\ shielded \in BOOLEAN
  /\ effect \in Effect /\ result \in Result
  /\ batch \in Seq(ToolId) /\ seenCalls \subseteq ToolId
  /\ Busy => batch # <<>>

ConfigTypes ==
  /\ disk \in Revision /\ parsed \in Revision \ Unreadable
  /\ {snapshot, built} \subseteq [settings : Good, revision : Revision]
  /\ required \in BOOLEAN /\ wanted \in Good \cup {None}

CountTypes ==
  /\ phase \in Phase /\ turn \in 0..MaxTurns
  /\ resumed \in BOOLEAN /\ pending \in BOOLEAN /\ staged \in BOOLEAN
  /\ answered \in Nat /\ curated \in Nat /\ round \in 0..MaxRounds
  /\ answered <= Earlier + turn /\ curated <= answered
  /\ Running => turn > 0 /\ answered < Earlier + turn
  /\ staged => curated < answered
  /\ phase = "tools" => round < MaxRounds
  /\ phase = "curate" /\ (gate # "free" \/ reply # "none" \/ sent # None) => BatchDue

TypeInv == CallTypes /\ ToolTypes /\ ConfigTypes /\ CountTypes

(***************************************************************************)
(* Where the numbers of a turn's requests stand.  A turn id is used for    *)
(* the first time by the first request of a turn, for a curator's call of  *)
(* a resumed turn is the first call of its process.                        *)
(***************************************************************************)
Quiet == gate = "free" /\ reply \in {"none", "text", "tools"}

NumberInv ==
  /\ gate \in {"prepare", "decide", "send"} => Follows(sent, call)
  /\ gate \in {"await", "backoff"} => sent = call
  /\ gate # "free" => /\ call.turn \in DOMAIN nextSeq
                      /\ nextSeq[call.turn] = call.seq + 1
                      /\ call.turn = IF phase = "curate" THEN CuratorTurn ELSE <<"turn", turn>>
  /\ gate # "free" => call.id \in seen
  /\ sent # None => sent.id \in seen
  /\ sent # None /\ Quiet => /\ sent.turn \in DOMAIN nextSeq
                             /\ nextSeq[sent.turn] = sent.seq + 1
  /\ gate = "free" /\ reply \in {"text", "tools"} => sent # None
  /\ phase = "curate" /\ Quiet /\ reply = "none" => sent = None
  /\ phase = "curate" /\ sent # None => sent.turn = CuratorTurn
  /\ resumed /\ sent = None /\ Quiet => DOMAIN nextSeq = {}
  /\ \A t \in DOMAIN nextSeq : t[1] = "turn" => t[2] <= turn
  /\ Running /\ <<"turn", turn>> \in DOMAIN nextSeq =>
       \/ gate # "free" /\ call.turn = <<"turn", turn>>
       \/ sent # None /\ sent.turn = <<"turn", turn>>
       \/ reply \notin {"none", "text", "tools"}

(***************************************************************************)
(* What is in tool_events: each response with its calls, then their        *)
(* results as far as they go; what is missing is in batch.                 *)
(***************************************************************************)
EventsInv ==
  /\ events \in Seq([kind : {"calls", "result"}, ids : Seq(ToolId)])
  /\ phase # "tools" => batch = <<>>
  /\ \A i \in DOMAIN events : IsCalls(i) =>
       \A k \in DOMAIN events[i].ids :
         IF i + k \in DOMAIN events
           THEN IsResult(i + k) /\ events[i + k].ids = <<events[i].ids[k]>>
           ELSE /\ i + k - Len(events) \in DOMAIN batch
                /\ batch[i + k - Len(events)] = events[i].ids[k]
  /\ batch # <<>> =>
       \E i \in DOMAIN events : /\ IsCalls(i) /\ events[i].ids \in Seq(ToolId)
                                /\ i + Len(events[i].ids) = Len(events) + Len(batch)
  /\ \A j \in DOMAIN events : IsResult(j) =>
       /\ \E i \in DOMAIN events : IsCalls(i) /\ j - i \in DOMAIN events[i].ids
       /\ events[j].ids[1] \in seenCalls
       /\ events[j].ids = <<events[j].ids[1]>>
  /\ \A j, l \in DOMAIN events :
       IsResult(j) /\ IsResult(l) /\ events[j].ids = events[l].ids => j = l
  /\ Busy => /\ Head(batch) \in seenCalls
             /\ \A j \in DOMAIN events : IsResult(j) => events[j].ids[1] # Head(batch)

-----------------------------------------------------------------------------
LEMMA ModeInit == Init => ModeInv
  BY DEF Init, CallInit, ToolInit, ModeInv

LEMMA ModeStep == ModeInv /\ [Next]_vars => ModeInv'
<1> SUFFICES ASSUME ModeInv, [Next]_vars
             PROVE  ModeInv'
  OBVIOUS
<1> USE DEF ModeInv, Running
<1>1. CASE EditConfig
  BY <1>1 DEF EditConfig, callVars, toolVars
<1>2. CASE StartProcess \/ Boot \/ BootFails \/ BeginTurn \/ Leave
  BY <1>2 DEF StartProcess, Boot, BootFails, BeginTurn, Leave, callVars, toolVars
<1>3. CASE ReloadConfig \/ NothingDue \/ AskCurator \/ AskChat
  BY <1>3 DEF ReloadConfig, NothingDue, AskCurator, AskChat, BeginCall, Attempting,
              callVars, toolVars
<1>4. CASE Curated \/ CuratorErrs \/ Answer \/ ModelWantsTools \/ RoundLimit
           \/ Rejected \/ CallFailed
  BY <1>4 DEF Curated, CuratorErrs, Answer, ModelWantsTools, RoundLimit, Rejected,
              CallFailed, TakeReply, EndTurn, toolVars, executorVars
<1>5. CASE RunCall \/ DuplicateCall \/ TakeResult \/ Continue \/ ToolCancelled
  BY <1>5 DEF RunCall, DuplicateCall, TakeResult, Continue, ToolCancelled, BeginTool,
              EndTurn, callVars, toolVars, executorVars
<1>6. CASE GatewayStep
  BY <1>6 DEF GatewayStep, CallStep, Prepared, Blocked, Approve, NotApproved, Send,
              Respond, FailAgain, FailForGood, Retry, EndCall, Attempting, toolVars
<1>7. CASE ExecutorStep
  BY <1>7 DEF ExecutorStep, ToolStep, Refuse, Resolve, PrepareDone, PrepareFails,
              ExecuteWrites, ExecuteSucceeds, ResultRejected, Fail, CommitDone,
              RecoverDone, RecoverFails, Recovering, RecoverWrite, EndTool, callVars
<1>8. CASE CancelDuringCall \/ CancelDuringTool
  BY <1>8 DEF CancelDuringCall, CancelDuringTool, CancelCall, CancelTool, CancelRunning,
              CancelRevert, CancelRecovery, EndTool, EndTurn, callVars, executorVars
<1>9. CASE UNCHANGED vars
  BY <1>9 DEF vars, callVars, toolVars
<1> QED
  BY <1>1, <1>2, <1>3, <1>4, <1>5, <1>6, <1>7, <1>8, <1>9 DEF Next, Turn

LEMMA ModeAlways == Spec => []ModeInv
  BY ModeInit, ModeStep, PTL DEF Spec

-----------------------------------------------------------------------------
(***************************************************************************)
(* ToolExecution.                                                          *)
(***************************************************************************)
LEMMA RecoverySettles ==
  ASSUME ToolInv, step \in {"execute", "commit"},
         NEW where \in {"revert", "recover"}, RecoverWrite(where),
         where = "revert" => step = "execute"
  PROVE  ToolInv'
<1> USE DEF ToolInv, WriteIsSettled, EndTool, Step, ToolKind, Recovering
<1>1. CASE wrote
  BY <1>1 DEF RecoverWrite
<1>2. CASE ~wrote
  BY <1>2 DEF RecoverWrite
<1> QED
  BY <1>1, <1>2

LEMMA ToolStepSettles ==
  ASSUME ToolInv, ToolStep
  PROVE  ToolInv'
<1> USE DEF ToolInv, WriteIsSettled, EndTool, Step, ToolKind, Recovering
<1>1. CASE Refuse \/ PrepareFails
  BY <1>1 DEF Refuse, PrepareFails
<1>2. CASE Resolve
  BY <1>2 DEF Resolve
<1>3. CASE PrepareDone
  BY <1>3 DEF PrepareDone
<1>4. CASE ExecuteWrites
  BY <1>4 DEF ExecuteWrites
<1>5. CASE ExecuteSucceeds
  BY <1>5 DEF ExecuteSucceeds
<1>6. CASE ResultRejected \/ Fail
  BY <1>6, RecoverySettles DEF ResultRejected, Fail
<1>7. CASE CommitDone \/ RecoverDone \/ RecoverFails
  BY <1>7 DEF CommitDone, RecoverDone, RecoverFails
<1> QED
  BY <1>1, <1>2, <1>3, <1>4, <1>5, <1>6, <1>7 DEF ToolStep

LEMMA CancellationSettles ==
  ASSUME ToolInv, CancelTool
  PROVE  ToolInv'
<1> USE DEF ToolInv, WriteIsSettled, EndTool, Step, ToolKind, Recovering
<1>1. CASE CancelRunning
  BY <1>1 DEF CancelRunning
<1>2. CASE CancelRevert
  BY <1>2 DEF CancelRevert
<1>3. CASE CancelRecovery
  BY <1>3 DEF CancelRecovery
<1> QED
  BY <1>1, <1>2, <1>3 DEF CancelTool

LEMMA EndTurnSettles ==
  ASSUME NEW next, NEW waits, ToolInv, step = "free", EndTurn(next, waits)
  PROVE  ToolInv'
  BY DEF EndTurn, executorVars, ToolInv, WriteIsSettled, Recovering

LEMMA ToolInvInit == Init => ToolInv
  BY DEF Init, ToolInit, ToolInv, WriteIsSettled, Step, Recovering

LEMMA ToolInvStep == ModeInv /\ ToolInv /\ [Next]_vars => ToolInv'
<1> SUFFICES ASSUME ModeInv, ToolInv, [Next]_vars
             PROVE  ToolInv'
  OBVIOUS
<1>1. CASE UNCHANGED toolVars
  BY <1>1 DEF toolVars, ToolInv, WriteIsSettled, Recovering
<1>2. CASE EditConfig \/ StartProcess \/ Boot \/ BootFails \/ BeginTurn \/ Leave
  BY <1>1, <1>2 DEF EditConfig, StartProcess, Boot, BootFails, BeginTurn, Leave
<1>3. CASE ReloadConfig \/ NothingDue \/ AskCurator \/ Curated \/ AskChat
           \/ ModelWantsTools \/ Continue \/ GatewayStep \/ UNCHANGED vars
  BY <1>1, <1>3 DEF ReloadConfig, NothingDue, AskCurator, Curated, AskChat,
                    ModelWantsTools, Continue, GatewayStep, vars
<1>4. CASE CuratorErrs \/ Answer \/ RoundLimit \/ DuplicateCall \/ Rejected \/ CallFailed
           \/ ToolCancelled \/ CancelDuringCall
  <2>1. step = "free"
    BY <1>4 DEF CuratorErrs, Answer, RoundLimit, DuplicateCall, Rejected, CallFailed,
                ToolCancelled, CancelDuringCall, CancelCall, ModeInv
  <2>2. \E next, waits : EndTurn(next, waits)
    BY <1>4 DEF CuratorErrs, Answer, RoundLimit, DuplicateCall, Rejected, CallFailed,
                ToolCancelled, CancelDuringCall
  <2> QED
    BY <2>1, <2>2, EndTurnSettles
<1>5. CASE RunCall
  BY <1>5, TurnAssumption DEF RunCall, BeginTool, ToolInv, WriteIsSettled, Step, Recovering
<1>6. CASE TakeResult
  BY <1>6 DEF TakeResult, executorVars, ToolInv, WriteIsSettled, ModeInv, Recovering
<1>7. CASE ExecutorStep
  BY <1>7, ToolStepSettles DEF ExecutorStep
<1>8. CASE CancelDuringTool
  BY <1>8, CancellationSettles DEF CancelDuringTool
<1> QED
  BY <1>2, <1>3, <1>4, <1>5, <1>6, <1>7, <1>8 DEF Next, Turn

\* In every reachable state in which no tool is at work, its write is kept,
\* undone or was never made, and the result says which; only a recovery that
\* raised or was cut leaves anything else (ToolExecutor._execute).
THEOREM WritesAreSettled == Spec => []WriteIsSettled
<1>1. ToolInv => WriteIsSettled
  BY DEF ToolInv
<1> QED
  BY <1>1, ModeAlways, ToolInvInit, ToolInvStep, PTL DEF Spec

-----------------------------------------------------------------------------
(***************************************************************************)
(* The gateway's calls.                                                    *)
(***************************************************************************)
LEMMA OwnerInit == Init => OwnerInv
  BY DEF Init, CallInit, OwnerInv, OneTurnPerCall

\* An id that was refused or is new leaves the owners apart.
LEMMA BeginCallOwns ==
  ASSUME NEW id, NEW t, NEW config, OwnerInv, BeginCall(id, t, config)
  PROVE  OwnerInv'
<1>1. CASE id \in seen
  BY <1>1 DEF BeginCall, OwnerInv, OneTurnPerCall
<1>2. CASE id \notin seen
  <2>1. /\ seen' = seen \cup {id} /\ owners' = owners
        /\ call'.id = id
    BY <1>2 DEF BeginCall, Attempting
  <2> QED
    BY <1>2, <2>1 DEF OwnerInv, OneTurnPerCall
<1> QED
  BY <1>1, <1>2

LEMMA CallStepOwns ==
  ASSUME OwnerInv, CallStep
  PROVE  OwnerInv'
<1> USE DEF OwnerInv, OneTurnPerCall, EndCall
<1>1. CASE Prepared \/ Blocked \/ Approve \/ NotApproved
  BY <1>1 DEF Prepared, Blocked, Approve, NotApproved
<1>2. CASE Send
  BY <1>2 DEF Send
<1>3. CASE Respond \/ FailAgain \/ FailForGood
  BY <1>3 DEF Respond, FailAgain, FailForGood
<1>4. CASE Retry
  <2>1. call'.id = call.id /\ call'.turn = call.turn
    BY <1>4 DEF Retry, Attempting
  <2> QED
    BY <1>4, <2>1 DEF Retry
<1> QED
  BY <1>1, <1>2, <1>3, <1>4 DEF CallStep

LEMMA OwnerStep == ModeInv /\ OwnerInv /\ [Next]_vars => OwnerInv'
<1> SUFFICES ASSUME ModeInv, OwnerInv, [Next]_vars
             PROVE  OwnerInv'
  OBVIOUS
<1>1. CASE UNCHANGED <<seen, owners, call, gate>>
  BY <1>1 DEF OwnerInv, OneTurnPerCall
<1>2. CASE EditConfig \/ StartProcess \/ BootFails \/ BeginTurn \/ Leave \/ NothingDue
           \/ RunCall \/ DuplicateCall \/ TakeResult \/ Continue \/ ToolCancelled
           \/ ExecutorStep \/ CancelDuringTool \/ UNCHANGED vars
  BY <1>1, <1>2 DEF EditConfig, StartProcess, BootFails, BeginTurn, Leave, NothingDue,
                    RunCall, DuplicateCall, TakeResult, Continue, ToolCancelled,
                    ExecutorStep, CancelDuringTool, vars, callVars
<1>3. CASE Curated \/ CuratorErrs \/ Answer \/ ModelWantsTools \/ RoundLimit
           \/ Rejected \/ CallFailed
  BY <1>1, <1>3 DEF Curated, CuratorErrs, Answer, ModelWantsTools, RoundLimit, Rejected,
                    CallFailed, TakeReply
<1>4. CASE Boot
  BY <1>4 DEF Boot, ModeInv, OwnerInv, OneTurnPerCall
<1>5. CASE ReloadConfig
  BY <1>1, <1>5 DEF ReloadConfig, Publish
<1>6. CASE AskCurator
  BY <1>6, BeginCallOwns DEF AskCurator
<1>7. CASE AskChat
  BY <1>7, BeginCallOwns DEF AskChat
<1>8. CASE GatewayStep
  BY <1>8, CallStepOwns DEF GatewayStep
<1>9. CASE CancelDuringCall
  BY <1>9 DEF CancelDuringCall, CancelCall, OwnerInv, OneTurnPerCall
<1> QED
  BY <1>2, <1>3, <1>4, <1>5, <1>6, <1>7, <1>8, <1>9 DEF Next, Turn

\* Within one process no call id is ever sent for two turns
\* (CallIdentityAllocator.assign).
THEOREM CallsHaveOneTurn == Spec => []OneTurnPerCall
<1>1. OwnerInv => OneTurnPerCall
  BY DEF OwnerInv
<1> QED
  BY <1>1, ModeAlways, OwnerInit, OwnerStep, PTL DEF Spec

-----------------------------------------------------------------------------
LEMMA ApprovalInit == Init => ApprovalInv
  BY DEF Init, CallInit, ApprovalInv

LEMMA ApprovalStep == ModeInv /\ ApprovalInv /\ [Next]_vars => ApprovalInv'
<1> SUFFICES ASSUME ModeInv, ApprovalInv, [Next]_vars
             PROVE  ApprovalInv'
  OBVIOUS
<1>1. CASE UNCHANGED <<call, gate, screen, approved>>
  BY <1>1 DEF ApprovalInv
<1>2. CASE EditConfig \/ StartProcess \/ BootFails \/ BeginTurn \/ Leave \/ NothingDue
           \/ RunCall \/ TakeResult \/ Continue \/ ExecutorStep \/ CancelDuringTool
           \/ ReloadConfig \/ UNCHANGED vars
  BY <1>1, <1>2 DEF EditConfig, StartProcess, BootFails, BeginTurn, Leave, NothingDue,
                    RunCall, TakeResult, Continue, ExecutorStep, CancelDuringTool,
                    ReloadConfig, historyVars, vars, callVars
<1>3. CASE Boot \/ Curated \/ CuratorErrs \/ Answer \/ ModelWantsTools \/ RoundLimit
           \/ Rejected \/ CallFailed \/ DuplicateCall \/ ToolCancelled
  <2>1. gate' = "free"
    BY <1>3 DEF Boot, Curated, CuratorErrs, Answer, ModelWantsTools, RoundLimit, Rejected,
                CallFailed, DuplicateCall, ToolCancelled, TakeReply, ModeInv
  <2> QED
    BY <2>1 DEF ApprovalInv
<1>4. CASE AskCurator \/ AskChat
  BY <1>4 DEF AskCurator, AskChat, BeginCall, Attempting, ApprovalInv
<1>5. CASE GatewayStep
  BY <1>5 DEF GatewayStep, CallStep, Prepared, Blocked, Approve, NotApproved, Send,
              Respond, FailAgain, FailForGood, Retry, EndCall, Attempting, ApprovalInv
<1>6. CASE CancelDuringCall
  BY <1>6 DEF CancelDuringCall, CancelCall, ApprovalInv
<1> QED
  BY <1>2, <1>3, <1>4, <1>5, <1>6 DEF Next, Turn

\* A request is made by Send only.
LEMMA OnlySendSends ==
  ASSUME [Next]_vars, Sends
  PROVE  Send
<1>1. CASE EditConfig \/ StartProcess \/ Boot \/ BootFails \/ BeginTurn \/ Leave
  BY <1>1 DEF EditConfig, StartProcess, Boot, BootFails, BeginTurn, Leave, callVars, Sends
<1>2. CASE ReloadConfig \/ NothingDue \/ AskCurator \/ AskChat
  BY <1>2 DEF ReloadConfig, NothingDue, AskCurator, AskChat, BeginCall, Attempting,
              callVars, Sends
<1>3. CASE Curated \/ CuratorErrs \/ Answer \/ ModelWantsTools \/ RoundLimit
           \/ Rejected \/ CallFailed
  BY <1>3 DEF Curated, CuratorErrs, Answer, ModelWantsTools, RoundLimit, Rejected,
              CallFailed, TakeReply, Sends
<1>4. CASE RunCall \/ DuplicateCall \/ TakeResult \/ Continue \/ ToolCancelled
           \/ ExecutorStep \/ CancelDuringTool \/ UNCHANGED vars
  BY <1>4 DEF RunCall, DuplicateCall, TakeResult, Continue, ToolCancelled,
              ExecutorStep, CancelDuringTool, callVars, vars, Sends
<1>5. CASE GatewayStep
  BY <1>5 DEF GatewayStep, CallStep, Prepared, Blocked, Approve, NotApproved,
              Respond, FailAgain, FailForGood, Retry, EndCall, Attempting, Sends
<1>6. CASE CancelDuringCall
  BY <1>6 DEF CancelDuringCall, CancelCall, Sends
<1> QED
  BY <1>1, <1>2, <1>3, <1>4, <1>5, <1>6 DEF Next, Turn

\* With debugging on, every physical request is the payload that was approved
\* for this very attempt (ModelCallGateway._complete_assigned).
THEOREM ApprovedSends == Spec => SendsAreApproved
<1>1. ModeInv /\ ApprovalInv /\ [Next]_vars
        => ApprovalInv' /\ (Debug /\ Sends => sender' = approved)
  <2> SUFFICES ASSUME ModeInv, ApprovalInv, [Next]_vars, Debug, Sends
               PROVE  sender' = approved
    BY ApprovalStep
  <2>1. gate = "send" /\ sender' = call
    BY OnlySendSends DEF Send
  <2> QED
    BY <2>1 DEF ApprovalInv
<1>2. ApprovalInv /\ ModeInv /\ [Next]_vars => [Debug /\ Sends => sender' = approved]_vars
  BY <1>1
<1> QED
  BY <1>2, ModeAlways, ApprovalInit, ApprovalStep, PTL DEF Spec, SendsAreApproved

-----------------------------------------------------------------------------
(***************************************************************************)
(* The configuration a turn's calls are made from.                         *)
(***************************************************************************)
LEMMA SnapshotInit == Init => SnapshotInv
  BY DEF Init, CallInit, SnapshotInv, Snapshot

\* What CallStep sends is the call in progress.
LEMMA CallStepKeepsSnapshot ==
  ASSUME SnapshotInv, Running, ModeInv, CallStep,
         UNCHANGED <<snapshot, built, wanted, phase>>
  PROVE  SnapshotInv'
<1> USE DEF SnapshotInv, Snapshot, Torn, EndCall, Running, ModeInv
<1>1. CASE Prepared \/ Blocked \/ Approve \/ NotApproved
  BY <1>1 DEF Prepared, Blocked, Approve, NotApproved
<1>2. CASE Send
  BY <1>2 DEF Send
<1>3. CASE Respond \/ FailAgain \/ FailForGood
  BY <1>3 DEF Respond, FailAgain, FailForGood
<1>4. CASE Retry
  <2>1. gate # "free" /\ call'.config = call.config
    BY <1>4 DEF Retry, Attempting
  <2> QED
    BY <1>4, <2>1 DEF Retry
<1> QED
  BY <1>1, <1>2, <1>3, <1>4 DEF CallStep

LEMMA SnapshotStep == ModeInv /\ SnapshotInv /\ [Next]_vars => SnapshotInv'
<1> SUFFICES ASSUME ModeInv, SnapshotInv, [Next]_vars
             PROVE  SnapshotInv'
  OBVIOUS
<1> USE DEF SnapshotInv, Torn, Snapshot
<1>1. CASE UNCHANGED <<snapshot, built, wanted, sent, call, gate, phase>>
  BY <1>1
<1>2. CASE EditConfig \/ StartProcess \/ BootFails \/ BeginTurn \/ Leave \/ NothingDue
           \/ RunCall \/ TakeResult \/ Continue \/ ExecutorStep \/ CancelDuringTool
           \/ UNCHANGED vars
  BY <1>2 DEF EditConfig, StartProcess, BootFails, BeginTurn, Leave, NothingDue,
              RunCall, TakeResult, Continue, ExecutorStep, CancelDuringTool,
              vars, callVars, configVars, loadedVars
<1>3. CASE Curated \/ ModelWantsTools
  BY <1>3 DEF Curated, ModelWantsTools, TakeReply, historyVars, configVars, loadedVars
<1>4. CASE CuratorErrs \/ Answer \/ RoundLimit \/ Rejected \/ CallFailed
           \/ DuplicateCall \/ ToolCancelled \/ CancelDuringCall
  BY <1>4 DEF CuratorErrs, Answer, RoundLimit, Rejected, CallFailed, DuplicateCall,
              ToolCancelled, CancelDuringCall, CancelCall, TakeReply, EndTurn, ModeInv,
              configVars, loadedVars
<1>5. CASE Boot
  BY <1>5 DEF Boot, ModeInv, historyVars
<1>6. CASE ReloadConfig
  <2>1. gate' = "free" /\ sent' = None /\ wanted = None
    BY <1>6 DEF ReloadConfig, ModeInv, historyVars
  <2>2. built' = snapshot' /\ snapshot' = [settings |-> snapshot'.settings,
                                           revision |-> snapshot'.revision]
    BY <1>6 DEF ReloadConfig, Publish
  <2>3. wanted' # None => \/ snapshot'.settings # snapshot'.revision
                          \/ snapshot'.settings = wanted'
    BY <1>6 DEF ReloadConfig, Publish
  <2>4. phase' = "curate"
    BY <1>6 DEF ReloadConfig
  <2> QED
    BY <2>1, <2>2, <2>3, <2>4
<1>7. CASE AskCurator \/ AskChat
  <2>1. gate = "free" /\ phase \in {"curate", "ask"}
        /\ UNCHANGED <<sent, snapshot, built, wanted, phase>>
    BY <1>7 DEF AskCurator, AskChat, BeginCall, configVars, loadedVars
  <2>2. gate' # "free" => call'.config = snapshot
    BY <1>7, <2>1 DEF AskCurator, AskChat, BeginCall, Attempting
  <2> QED
    BY <2>1, <2>2
<1>8. CASE GatewayStep
  BY <1>8, CallStepKeepsSnapshot DEF GatewayStep, configVars, loadedVars
<1> QED
  BY <1>2, <1>3, <1>4, <1>5, <1>6, <1>7, <1>8 DEF Next, Turn

\* Everything a turn sends was built from the snapshot the turn is recorded
\* with, and that is what was on disk when the turn began unless an edit fell
\* between the two readings of a load (AgentApplication._reload_config).
THEOREM TurnsHaveOneRevision == Spec => []OneRevision
<1>1. SnapshotInv => OneRevision
  BY DEF SnapshotInv, OneRevision
<1> QED
  BY <1>1, ModeAlways, SnapshotInit, SnapshotStep, PTL DEF Spec

-----------------------------------------------------------------------------
(***************************************************************************)
(* Types.                                                                  *)
(***************************************************************************)
LEMMA ConfigTypesInit == Init => ConfigTypes
<1> SUFFICES ASSUME Init PROVE ConfigTypes
  OBVIOUS
<1>1. (CHOOSE r \in Good : TRUE) \in Good
  BY TurnAssumption
<1>2. disk \in Good
  BY <1>1 DEF Init
<1>3. /\ parsed = disk /\ required = FALSE /\ wanted = None
      /\ snapshot = Snapshot(disk, disk) /\ built = snapshot
  BY DEF Init
<1>4. Good \subseteq Revision \ Unreadable
  BY DEF Good
<1>5. Snapshot(disk, disk) \in [settings : Good, revision : Revision]
  BY <1>2, <1>4 DEF Snapshot
<1> QED
  BY <1>2, <1>3, <1>4, <1>5 DEF ConfigTypes

LEMMA ConfigTypesStep == ConfigTypes /\ [Next]_vars => ConfigTypes'
<1> SUFFICES ASSUME ConfigTypes, [Next]_vars
             PROVE  ConfigTypes'
  OBVIOUS
<1> USE DEF ConfigTypes
<1>1. CASE UNCHANGED <<disk, parsed, snapshot, built, required>> /\ wanted' \in {wanted, None}
  BY <1>1
<1>2. CASE EditConfig \/ StartProcess \/ BeginTurn
  BY <1>2 DEF EditConfig, StartProcess, BeginTurn, loadedVars
<1>3. CASE Boot
  <2>1. /\ parsed \in Good /\ disk \in Revision
        /\ snapshot' = Snapshot(parsed, disk) /\ built' = Snapshot(parsed, disk)
        /\ required' = FALSE /\ UNCHANGED <<disk, parsed, wanted>>
    BY <1>3 DEF Boot
  <2>2. Snapshot(parsed, disk) \in [settings : Good, revision : Revision]
    BY <2>1 DEF Snapshot
  <2> QED
    BY <2>1, <2>2
<1>4. CASE ReloadConfig
  <2> DEFINE fresh == Snapshot(parsed, disk)
  <2>1. fresh.settings \in Good => fresh \in [settings : Good, revision : Revision]
    BY DEF Snapshot
  <2>2. \/ UNCHANGED <<snapshot, built, required>>
        \/ fresh.settings \in Good /\ snapshot' = fresh /\ built' = fresh /\ required' = FALSE
        \/ required' = TRUE /\ UNCHANGED <<snapshot, built>>
    BY <1>4 DEF ReloadConfig, Publish
  <2>3. UNCHANGED <<disk, parsed>> /\ wanted' \in Good \cup {None}
    BY <1>4 DEF ReloadConfig
  <2> HIDE DEF fresh
  <2> QED
    BY <2>1, <2>2, <2>3
<1>5. CASE BootFails \/ Leave \/ NothingDue \/ AskCurator \/ AskChat \/ Curated
           \/ ModelWantsTools \/ RunCall \/ TakeResult \/ Continue \/ ExecutorStep
           \/ GatewayStep \/ CancelDuringTool \/ UNCHANGED vars
  BY <1>1, <1>5 DEF BootFails, Leave, NothingDue, AskCurator, AskChat, Curated,
                    ModelWantsTools, RunCall, TakeResult, Continue, ExecutorStep,
                    GatewayStep, CancelDuringTool, vars, configVars, loadedVars
<1>6. CASE CuratorErrs \/ Answer \/ RoundLimit \/ Rejected \/ CallFailed
           \/ DuplicateCall \/ ToolCancelled \/ CancelDuringCall
  BY <1>1, <1>6 DEF CuratorErrs, Answer, RoundLimit, Rejected, CallFailed, DuplicateCall,
                    ToolCancelled, CancelDuringCall, EndTurn, configVars, loadedVars
<1> QED
  BY <1>2, <1>3, <1>4, <1>5, <1>6 DEF Next, Turn

LEMMA ToolTypesInit == Init => ToolTypes
  BY EmptySeq DEF Init, ToolInit, ToolTypes, Busy, Step, Effect, Result

LEMMA ToolStepTypes ==
  ASSUME ToolTypes, ToolStep \/ CancelTool
  PROVE  /\ tool' \in ToolKind \cup {"none"} /\ step' \in Step
         /\ wrote' \in BOOLEAN /\ shielded' \in BOOLEAN
         /\ effect' \in Effect /\ result' \in Result
  BY DEF ToolTypes, ToolStep, Refuse, Resolve, PrepareDone, PrepareFails, ExecuteWrites,
         ExecuteSucceeds, ResultRejected, Fail, CommitDone, RecoverDone, RecoverFails,
         RecoverWrite, EndTool, CancelTool, CancelRunning, CancelRevert, CancelRecovery,
         Step, Effect, Result

LEMMA ToolStepStaysBusy ==
  ASSUME ToolStep \/ CancelTool
  PROVE  Busy /\ Busy'
  BY DEF ToolStep, Refuse, Resolve, PrepareDone, PrepareFails, ExecuteWrites,
         ExecuteSucceeds, ResultRejected, Fail, CommitDone, RecoverDone, RecoverFails,
         Recovering, RecoverWrite, EndTool, CancelTool, CancelRunning, CancelRevert,
         CancelRecovery, Busy

LEMMA ToolTypesStep == ModeInv /\ ToolTypes /\ [Next]_vars => ToolTypes'
<1> SUFFICES ASSUME ModeInv, ToolTypes, [Next]_vars
             PROVE  ToolTypes'
  OBVIOUS
<1>1. CASE UNCHANGED <<toolVars, batch, seenCalls>>
  BY <1>1 DEF ToolTypes, toolVars, Busy
<1>2. CASE EditConfig \/ StartProcess \/ Boot \/ BootFails \/ BeginTurn \/ Leave \/ ReloadConfig
           \/ NothingDue \/ AskCurator \/ AskChat \/ Curated \/ GatewayStep \/ Continue
           \/ UNCHANGED vars
  BY <1>1, <1>2 DEF EditConfig, StartProcess, Boot, BootFails, BeginTurn, Leave, ReloadConfig,
                    NothingDue, AskCurator, AskChat, Curated, GatewayStep, Continue, vars,
                    toolTurnVars
<1>3. CASE CuratorErrs \/ Answer \/ RoundLimit \/ Rejected \/ CallFailed
           \/ DuplicateCall \/ ToolCancelled \/ CancelDuringCall
  <2>1. <<>> \in Seq(ToolId)
    BY EmptySeq
  <2>2. \E next, waits : EndTurn(next, waits)
    BY <1>3 DEF CuratorErrs, Answer, RoundLimit, Rejected, CallFailed, DuplicateCall,
                ToolCancelled, CancelDuringCall
  <2>3. step = "free"
    BY <1>3 DEF CuratorErrs, Answer, RoundLimit, DuplicateCall, Rejected, CallFailed,
                ToolCancelled, CancelDuringCall, CancelCall, ModeInv
  <2> QED
    BY <2>1, <2>2, <2>3 DEF EndTurn, executorVars, ToolTypes, Effect, Result, Busy
<1>4. CASE ModelWantsTools
  <2>1. batch' \in SeqOf(ToolId, 2)
    BY <1>4 DEF ModelWantsTools
  <2>2. batch' \in Seq(ToolId)
    <3>1. PICK m \in 0..2 : batch' \in [1..m -> ToolId]
      BY <2>1 DEF SeqOf
    <3> QED
      BY <3>1, IsASeq
  <2> QED
    BY <1>4, <2>2 DEF ModelWantsTools, ToolTypes, toolVars, Busy, ModeInv
<1>5. CASE RunCall
  <2>1. Head(batch) \in ToolId
    BY <1>5 DEF RunCall, ToolTypes
  <2> QED
    BY <1>5, <2>1, TurnAssumption DEF RunCall, BeginTool, ToolTypes, Step, Effect, Busy
<1>6. CASE TakeResult
  <2>1. batch # <<>> /\ batch \in Seq(ToolId)
    BY <1>6 DEF TakeResult, ToolTypes, Busy
  <2>2. Tail(batch) \in Seq(ToolId)
    BY <2>1, HeadTailProperties
  <2>3. step = "free"
    BY <1>6 DEF TakeResult, ModeInv
  <2> QED
    BY <1>6, <2>2, <2>3 DEF TakeResult, executorVars, ToolTypes, Effect, Result, Busy
<1>7. CASE ExecutorStep \/ CancelDuringTool
  BY <1>7, ToolStepTypes, ToolStepStaysBusy DEF ExecutorStep, CancelDuringTool, toolTurnVars, ToolTypes
<1> QED
  BY <1>2, <1>3, <1>4, <1>5, <1>6, <1>7 DEF Next, Turn

LEMMA CountTypesInit == Init => CountTypes
<1> SUFFICES ASSUME Init PROVE CountTypes
  OBVIOUS
<1>1. MaxTurns \in Nat /\ MaxRounds \in Nat /\ Earlier \in Nat
  BY TurnAssumption
<1>2. answered \in Nat /\ answered <= Earlier + 0
  BY <1>1 DEF Init
<1>3. /\ phase = "down" /\ turn = 0 /\ resumed = FALSE /\ pending = FALSE
      /\ curated = 0 /\ staged = FALSE /\ round = 0
  BY DEF Init
<1>4. 0 \in 0..MaxTurns /\ 0 \in 0..MaxRounds /\ curated <= answered
  BY <1>1, <1>2, <1>3
<1> QED
  BY <1>2, <1>3, <1>4 DEF CountTypes, Phase, Running

LEMMA EndTurnCounts ==
  ASSUME NEW next \in {"idle", "down"}, NEW waits \in BOOLEAN, CountTypes, Running,
         EndTurn(next, waits), gate' = "free", reply' = "none",
         \/ UNCHANGED <<answered, curated>>
         \/ answered' = answered + 1 /\ curated' = IF staged THEN curated + 1 ELSE curated
  PROVE  CountTypes'
<1>1. turn \in Nat /\ MaxTurns \in Nat /\ Earlier \in Nat /\ answered \in Nat /\ curated \in Nat
      /\ 0 \in 0..MaxRounds
  BY TurnAssumption DEF CountTypes
<1>2. /\ answered' \in Nat /\ curated' \in Nat
      /\ answered' <= Earlier + turn /\ curated' <= answered'
  BY <1>1 DEF CountTypes
<1>3. /\ phase' = next /\ resumed' = FALSE /\ pending' = waits /\ staged' = FALSE
      /\ round' = 0 /\ sent' = None /\ turn' = turn
  BY DEF EndTurn
<1>4. ~Running'
  BY <1>3 DEF Running
<1> QED
  BY <1>1, <1>2, <1>3, <1>4 DEF CountTypes, Phase

LEMMA CountTypesStep == ModeInv /\ SnapshotInv /\ CountTypes /\ [Next]_vars => CountTypes'
<1> SUFFICES ASSUME ModeInv, SnapshotInv, CountTypes, [Next]_vars
             PROVE  CountTypes'
  OBVIOUS
<1>0. /\ turn \in Nat /\ MaxTurns \in Nat /\ Earlier \in Nat /\ MaxRounds \in Nat
      /\ answered \in Nat /\ curated \in Nat /\ round \in Nat
  BY TurnAssumption DEF CountTypes
<1>1. ASSUME UNCHANGED <<turn, resumed, pending, staged, answered, curated, round, phase>>,
             phase = "curate" /\ (gate' # "free" \/ reply' # "none" \/ sent' # None) => BatchDue
      PROVE  CountTypes'
  BY <1>1 DEF CountTypes, Running, BatchDue
<1>2. CASE EditConfig \/ RunCall \/ TakeResult \/ ExecutorStep \/ CancelDuringTool
           \/ AskCurator \/ AskChat \/ UNCHANGED vars
  <2>1. UNCHANGED <<turn, resumed, pending, staged, answered, curated, round, phase>>
    BY <1>2 DEF EditConfig, RunCall, TakeResult, ExecutorStep, CancelDuringTool,
                AskCurator, AskChat, memoryVars, toolTurnVars, vars
  <2>2. UNCHANGED <<gate, reply, sent>> \/ BatchDue \/ phase # "curate"
    BY <1>2 DEF EditConfig, RunCall, TakeResult, ExecutorStep, CancelDuringTool,
                AskCurator, AskChat, callVars, vars
  <2> QED
    BY <1>1, <2>1, <2>2 DEF CountTypes
<1>3. CASE StartProcess \/ BootFails \/ Leave
  BY <1>0, <1>3 DEF StartProcess, BootFails, Leave, memoryVars, toolTurnVars, CountTypes,
                    Running, Phase
<1>4. CASE Boot
  BY <1>0, <1>4 DEF Boot, toolTurnVars, CountTypes, Running, Phase
<1>5. CASE BeginTurn
  <2>1. sent' = None /\ gate' = "free" /\ reply' = "none"
    BY <1>5 DEF BeginTurn, callVars, ModeInv, SnapshotInv
  <2> QED
    BY <1>0, <1>5, <2>1 DEF BeginTurn, memoryVars, toolTurnVars, CountTypes, Running, Phase
<1>6. CASE ReloadConfig
  <2>1. sent' = None /\ gate' = "free" /\ reply' = "none"
    BY <1>6 DEF ReloadConfig, historyVars, ModeInv, SnapshotInv
  <2> QED
    BY <1>0, <1>6, <2>1 DEF ReloadConfig, memoryVars, toolTurnVars, CountTypes, Running, Phase
<1>7. CASE NothingDue
  BY <1>7 DEF NothingDue, memoryVars, toolTurnVars, CountTypes, Running, Phase
<1>8. CASE Curated
  <2>1. answered > curated
    BY <1>8 DEF Curated, CountTypes, BatchDue
  <2>2. CASE resumed
    <3>1. /\ phase' = "ask" /\ staged' = FALSE /\ curated' = curated + 1
          /\ UNCHANGED <<turn, resumed, pending, answered, round>>
      BY <1>8, <2>2 DEF Curated, toolTurnVars
    <3> QED
      BY <1>0, <1>8, <2>1, <3>1 DEF Curated, CountTypes, Running, Phase
  <2>3. CASE ~resumed
    <3>1. /\ phase' = "ask" /\ staged' = TRUE /\ curated' = curated
          /\ UNCHANGED <<turn, resumed, pending, answered, round>>
      BY <1>8, <2>3 DEF Curated, toolTurnVars
    <3> QED
      BY <1>0, <1>8, <2>1, <3>1 DEF Curated, CountTypes, Running, Phase
  <2> QED
    BY <2>2, <2>3
<1>9. CASE ModelWantsTools
  BY <1>0, <1>9 DEF ModelWantsTools, memoryVars, CountTypes, Running, Phase
<1>10. CASE Continue
  BY <1>0, <1>10 DEF Continue, memoryVars, CountTypes, Running, Phase
<1>11. CASE CuratorErrs \/ Answer \/ RoundLimit \/ Rejected \/ CallFailed
            \/ DuplicateCall \/ ToolCancelled \/ CancelDuringCall
  <2>1. \E next \in {"idle", "down"}, waits \in BOOLEAN : EndTurn(next, waits)
    BY <1>11 DEF CuratorErrs, Answer, RoundLimit, Rejected, CallFailed, DuplicateCall,
                 ToolCancelled, CancelDuringCall, CountTypes
  <2>2. gate' = "free" /\ reply' = "none" /\ Running
    BY <1>11 DEF CuratorErrs, Answer, RoundLimit, Rejected, CallFailed, DuplicateCall,
                 ToolCancelled, CancelDuringCall, CancelCall, TakeReply, ModeInv, Running
  <2>3. \/ UNCHANGED <<answered, curated>>
        \/ answered' = answered + 1 /\ curated' = IF staged THEN curated + 1 ELSE curated
    BY <1>11 DEF CuratorErrs, Answer, RoundLimit, Rejected, CallFailed, DuplicateCall,
                 ToolCancelled, CancelDuringCall
  <2> QED
    BY <2>1, <2>2, <2>3, EndTurnCounts
<1>12. CASE GatewayStep
  <2>1. UNCHANGED <<turn, resumed, pending, staged, answered, curated, round, phase>>
    BY <1>12 DEF GatewayStep, memoryVars, toolTurnVars
  <2>2. gate # "free"
    BY <1>12 DEF GatewayStep, CallStep, Prepared, Blocked, Approve, NotApproved, Send,
                 Respond, FailAgain, FailForGood, Retry
  <2> QED
    BY <1>1, <2>1, <2>2 DEF CountTypes
<1> QED
  BY <1>2, <1>3, <1>4, <1>5, <1>6, <1>7, <1>8, <1>9, <1>10, <1>11, <1>12 DEF Next, Turn

LEMMA NumbersOfTurns ==
  ASSUME CallTypes, NEW t
  PROVE  NextNumber(t) \in Nat \ {0}
  BY DEF CallTypes, NextNumber

\* What assign and the first attempt of a call make of the allocator.
LEMMA CallBegun ==
  ASSUME NEW id, NEW t, NEW config, BeginCall(id, t, config), id \notin seen
  PROVE  /\ seen' = seen \cup {id} /\ gate' = "prepare" /\ reply' = "none"
         /\ call' = [id |-> id, turn |-> t, seq |-> NextNumber(t),
                     attempt |-> 1, config |-> config]
         /\ DOMAIN nextSeq' = DOMAIN nextSeq \cup {t}
         /\ nextSeq'[t] = NextNumber(t) + 1
         /\ \A u \in DOMAIN nextSeq : u # t => nextSeq'[u] = nextSeq[u]
         /\ UNCHANGED <<sender, screen, approved, sent, owners>>
<1>1. /\ seen' = seen \cup {id} /\ gate' = "prepare" /\ reply' = "none"
      /\ call' = [id |-> id, turn |-> t, seq |-> NextNumber(t),
                  attempt |-> 1, config |-> config]
      /\ UNCHANGED <<sender, screen, approved, sent, owners>>
  BY DEF BeginCall, Attempting
<1>2. TakeNumber(t)
  BY DEF BeginCall
<1> QED
  BY <1>1, <1>2 DEF TakeNumber

LEMMA BeginCallTypes ==
  ASSUME CallTypes, NEW id \in CallId, NEW t \in TurnId,
         NEW config \in [settings : Good, revision : Revision], BeginCall(id, t, config)
  PROVE  CallTypes'
<1>1. CASE id \in seen
  BY <1>1 DEF BeginCall, CallTypes, Reply
<1>2. CASE id \notin seen
  <2>1. NextNumber(t) \in Nat \ {0} /\ NextNumber(t) + 1 \in Nat \ {0}
    BY NumbersOfTurns
  <2>2. 1 \in 1..MaxAttempts
    BY CallAssumption
  <2> DEFINE c == [id |-> id, turn |-> t, seq |-> NextNumber(t),
                   attempt |-> 1, config |-> config]
  <2>3. c \in Payloads
    BY <2>1, <2>2 DEF Payloads, Payload
  <2>6. call' = c
    BY <1>2, CallBegun
  <2>7. /\ seen' = seen \cup {id} /\ gate' = "prepare" /\ reply' = "none"
        /\ DOMAIN nextSeq' = DOMAIN nextSeq \cup {t}
        /\ UNCHANGED <<sender, screen, approved, sent, owners>>
    BY <1>2, CallBegun
  <2> HIDE DEF c
  <2>4. call' # None /\ call' \in Payloads
    BY <2>3, <2>6, TurnAssumption
  <2>5. \A u \in DOMAIN nextSeq' : nextSeq'[u] \in Nat \ {0}
    BY <1>2, <2>1, CallBegun DEF CallTypes
  <2> QED
    BY <2>4, <2>5, <2>7 DEF CallTypes, Gate, Reply
<1> QED
  BY <1>1, <1>2

LEMMA CallStepTypes ==
  ASSUME CallTypes, CallStep
  PROVE  CallTypes'
<1> USE DEF CallTypes, EndCall, Gate, Reply
<1>1. CASE Prepared \/ Blocked \/ Approve \/ NotApproved
  BY <1>1 DEF Prepared, Blocked, Approve, NotApproved
<1>2. CASE Send
  <2>1. call \in Payloads
    BY <1>2 DEF Send
  <2>2. call.id \in CallId /\ call.turn \in TurnId
    BY <2>1 DEF Payloads, Payload
  <2> QED
    BY <1>2, <2>2 DEF Send
<1>3. CASE Respond \/ FailAgain \/ FailForGood
  BY <1>3 DEF Respond, FailAgain, FailForGood
<1>4. CASE Retry
  <2>1. call \in Payloads /\ call.attempt < MaxAttempts
    BY <1>4 DEF Retry
  <2>2. call.attempt + 1 \in 1..MaxAttempts
    BY <2>1, CallAssumption DEF Payloads, Payload
  <2>3. [call EXCEPT !.attempt = @ + 1] \in Payloads
    BY <2>1, <2>2 DEF Payloads, Payload
  <2>4. call' \in Payloads
    BY <1>4, <2>3 DEF Retry, Attempting
  <2>5. call' # None
    BY <2>4, TurnAssumption
  <2> QED
    BY <1>4, <2>4, <2>5 DEF Retry, Attempting
<1> QED
  BY <1>1, <1>2, <1>3, <1>4 DEF CallStep

LEMMA CallTypesInit == Init => CallTypes
  BY DEF Init, CallInit, CallTypes, Gate, Reply

\* What a turn asks with: the curator for a batch, the chat model in a round.
LEMMA IdsOfCalls ==
  ASSUME CountTypes, ConfigTypes, Running
  PROVE  /\ phase = "curate" /\ BatchDue => CuratorId \in CallId /\ CuratorTurn \in TurnId
         /\ ChatId \in CallId /\ <<"turn", turn>> \in TurnId
         /\ Snapshot(built.settings, snapshot.revision) \in [settings : Good, revision : Revision]
<1>1. /\ turn \in 1..MaxTurns /\ round \in 0..MaxRounds
      /\ Earlier \in Nat /\ MaxTurns \in Nat /\ curated \in Nat /\ answered \in Nat
      /\ answered <= Earlier + turn
  BY TurnAssumption DEF CountTypes
<1>2. ASSUME BatchDue
      PROVE  curated + 1 \in 1..(Earlier + MaxTurns)
  BY <1>1, <1>2 DEF BatchDue
<1>3. BatchDue => CuratorId \in CallId /\ CuratorTurn \in TurnId
  BY <1>1, <1>2 DEF CuratorId, CuratorTurn, CallId, TurnId
<1>4. ChatId \in CallId /\ <<"turn", turn>> \in TurnId
  BY <1>1 DEF ChatId, CallId, TurnId
<1>5. Snapshot(built.settings, snapshot.revision) \in [settings : Good, revision : Revision]
  BY DEF ConfigTypes, Snapshot
<1> QED
  BY <1>3, <1>4, <1>5

LEMMA CallTypesStep ==
  ModeInv /\ ConfigTypes /\ CountTypes /\ CallTypes /\ [Next]_vars => CallTypes'
<1> SUFFICES ASSUME ModeInv, ConfigTypes, CountTypes, CallTypes, [Next]_vars
             PROVE  CallTypes'
  OBVIOUS
<1>1. ASSUME UNCHANGED <<seen, nextSeq, call, gate, sender, screen, owners>>,
             reply' \in {reply, "none"}, approved' \in {approved, None}, sent' \in {sent, None}
      PROVE  CallTypes'
  BY <1>1 DEF CallTypes, Reply
<1>2. CASE EditConfig \/ StartProcess \/ BootFails \/ BeginTurn \/ Leave \/ NothingDue
           \/ RunCall \/ TakeResult \/ Continue \/ ExecutorStep \/ CancelDuringTool
           \/ UNCHANGED vars
  BY <1>1, <1>2 DEF EditConfig, StartProcess, BootFails, BeginTurn, Leave, NothingDue,
                    RunCall, TakeResult, Continue, ExecutorStep, CancelDuringTool,
                    vars, callVars
<1>3. CASE ReloadConfig
  BY <1>1, <1>3 DEF ReloadConfig, Publish, historyVars
<1>4. CASE Curated \/ ModelWantsTools
  BY <1>1, <1>4 DEF Curated, ModelWantsTools, TakeReply, historyVars
<1>5. CASE CuratorErrs \/ Answer \/ RoundLimit \/ Rejected \/ CallFailed
           \/ DuplicateCall \/ ToolCancelled
  BY <1>1, <1>5 DEF CuratorErrs, Answer, RoundLimit, Rejected, CallFailed, DuplicateCall,
                    ToolCancelled, TakeReply, EndTurn
<1>6. CASE Boot
  <2>1. gate = "free"
    BY <1>6 DEF Boot, ModeInv
  <2>2. DOMAIN nextSeq' = {}
    BY <1>6 DEF Boot
  <2> QED
    BY <1>6, <2>1, <2>2 DEF Boot, CallTypes, historyVars
<1>7. CASE AskCurator
  <2>1. CuratorId \in CallId /\ CuratorTurn \in TurnId
    BY <1>7, IdsOfCalls DEF AskCurator, Running
  <2>2. built \in [settings : Good, revision : Revision]
    BY DEF ConfigTypes
  <2>3. BeginCall(CuratorId, CuratorTurn, built)
    BY <1>7 DEF AskCurator
  <2> QED
    BY <2>1, <2>2, <2>3, BeginCallTypes
<1>8. CASE AskChat
  <2>1. /\ ChatId \in CallId /\ <<"turn", turn>> \in TurnId
        /\ Snapshot(built.settings, snapshot.revision) \in [settings : Good, revision : Revision]
    BY <1>8, IdsOfCalls DEF AskChat, Running
  <2>2. BeginCall(ChatId, <<"turn", turn>>, Snapshot(built.settings, snapshot.revision))
    BY <1>8 DEF AskChat
  <2> QED
    BY <2>1, <2>2, BeginCallTypes
<1>9. CASE GatewayStep
  BY <1>9, CallStepTypes DEF GatewayStep
<1>10. CASE CancelDuringCall
  BY <1>10 DEF CancelDuringCall, CancelCall, EndTurn, CallTypes, Gate
<1> QED
  BY <1>2, <1>3, <1>4, <1>5, <1>6, <1>7, <1>8, <1>9, <1>10 DEF Next, Turn

LEMMA TypesImplyTypeOK == TypeInv => TypeOK
<1> SUFFICES ASSUME TypeInv PROVE TypeOK
  OBVIOUS
<1> USE DEF TypeInv
<1>1. answered \in 0..(Earlier + MaxTurns) /\ curated \in 0..answered
  BY TurnAssumption DEF CountTypes
<1>2. ToSet(batch) \subseteq ToolId
  BY ElementOfSeq DEF ToolTypes, ToSet
<1>3. /\ {disk, snapshot.revision, built.revision} \subseteq Revision
      /\ {snapshot.settings, built.settings} \subseteq Good
  BY DEF ConfigTypes
<1> QED
  BY <1>1, <1>2, <1>3 DEF TypeOK, CallTypes, ToolTypes, ConfigTypes, CountTypes

LEMMA TypesAlways == Spec => []TypeInv
<1>1. Init => TypeInv
  BY CallTypesInit, ToolTypesInit, ConfigTypesInit, CountTypesInit DEF TypeInv
<1>2. ModeInv /\ SnapshotInv /\ TypeInv /\ [Next]_vars => TypeInv'
  BY CallTypesStep, ToolTypesStep, ConfigTypesStep, CountTypesStep DEF TypeInv
<1>3. Spec => []SnapshotInv
  BY ModeAlways, SnapshotInit, SnapshotStep, PTL DEF Spec
<1> QED
  BY <1>1, <1>2, <1>3, ModeAlways, PTL DEF Spec

\* Every variable has its type: no attempt is beyond max_attempts, no round of
\* tools beyond max_tool_rounds, and a curator asks about a turn that was
\* answered.
THEOREM TypesAreKept == Spec => []TypeOK
  BY TypesAlways, TypesImplyTypeOK, PTL

-----------------------------------------------------------------------------
(***************************************************************************)
(* The numbers of the requests.                                            *)
(***************************************************************************)
LEMMA NumberInit == Init => NumberInv
  BY DEF Init, CallInit, NumberInv, Running

\* A call that begins has the number after the turn's last request.
LEMMA BeginCallNumbers ==
  ASSUME TypeInv, NumberInv, NEW id, NEW t, NEW config, BeginCall(id, t, config), id \notin seen,
         t \in DOMAIN nextSeq => sent # None /\ sent.turn = t
  PROVE  /\ Follows(sent, call') /\ gate' = "prepare" /\ reply' = "none" /\ sent' = sent
         /\ call'.turn = t /\ call'.id = id
         /\ DOMAIN nextSeq' = DOMAIN nextSeq \cup {t}
         /\ nextSeq'[t] = call'.seq + 1
         /\ seen' = seen \cup {id}
<1>1. /\ gate' = "prepare" /\ reply' = "none" /\ sent' = sent /\ seen' = seen \cup {id}
      /\ DOMAIN nextSeq' = DOMAIN nextSeq \cup {t}
      /\ nextSeq'[t] = NextNumber(t) + 1
  BY CallBegun
<1>2. /\ call'.id = id /\ call'.turn = t /\ call'.attempt = 1 /\ call'.seq = NextNumber(t)
  <2>1. call' = [id |-> id, turn |-> t, seq |-> NextNumber(t),
                 attempt |-> 1, config |-> config]
    BY CallBegun
  <2> QED
    BY <2>1
<1>3. Quiet /\ gate = "free"
  BY DEF BeginCall, Quiet
<1>4. NextNumber(t) = IF sent # None /\ t = sent.turn THEN sent.seq + 1 ELSE 1
  BY <1>3 DEF NumberInv, NextNumber
<1>5. ~(sent # None /\ sent.id = id)
  BY DEF NumberInv
<1>6. Follows(sent, call')
  BY <1>2, <1>4, <1>5 DEF Follows
<1> QED
  BY <1>1, <1>2, <1>6

LEMMA CallStepNumbers ==
  ASSUME TypeInv, ModeInv, NumberInv, Running, CallStep,
         UNCHANGED <<phase, turn, resumed, curated>>
  PROVE  NumberInv'
<1> USE DEF EndCall
<1>1. gate # "free" /\ reply = "none" /\ phase \in {"curate", "ask"}
  BY DEF CallStep, Prepared, Blocked, Approve, NotApproved, Send, Respond, FailAgain,
         FailForGood, Retry, ModeInv
<1>2. CuratorTurn' = CuratorTurn
  BY DEF CuratorTurn
<1>3. seen' = seen /\ nextSeq' = nextSeq
  BY DEF CallStep, Prepared, Blocked, Approve, NotApproved, Send, Respond, FailAgain,
         FailForGood, Retry
<1>4. CASE Prepared \/ Approve
  <2>1. /\ gate \in {"prepare", "decide"} /\ gate' \in {"decide", "send"}
        /\ UNCHANGED <<call, reply, sent>>
    BY <1>4 DEF Prepared, Approve
  <2> QED
    BY <1>1, <1>2, <1>3, <2>1 DEF NumberInv, Quiet, Running, Follows
<1>5. CASE Blocked \/ NotApproved
  <2>1. gate' = "free" /\ reply' \notin {"none", "text", "tools"} /\ sent' = sent
    BY <1>5 DEF Blocked, NotApproved
  <2> QED
    BY <1>1, <1>2, <1>3, <2>1 DEF NumberInv, Quiet, Running
<1>6. CASE Send
  <2>1. /\ gate = "send" /\ gate' = "await" /\ sent' = call /\ UNCHANGED <<call, reply>>
    BY <1>6 DEF Send
  <2>2. /\ call.turn \in DOMAIN nextSeq /\ nextSeq[call.turn] = call.seq + 1
        /\ call.turn = IF phase = "curate" THEN CuratorTurn ELSE <<"turn", turn>>
    BY <2>1 DEF NumberInv
  <2>3. call.id \in seen
    BY <2>1 DEF NumberInv
  <2> QED
    BY <1>1, <1>2, <1>3, <2>1, <2>2, <2>3 DEF NumberInv, Quiet, Running
<1>7. CASE Respond \/ FailForGood
  <2>1. /\ gate = "await" /\ gate' = "free" /\ sent' = sent
        /\ reply' \in {"text", "tools", "kept"}
    BY <1>7 DEF Respond, FailForGood
  <2>2. sent = call /\ call # None
    BY <2>1 DEF NumberInv, TypeInv, CallTypes
  <2> QED
    BY <1>1, <1>2, <1>3, <2>1, <2>2 DEF NumberInv, Quiet, Running
<1>8. CASE FailAgain
  <2>1. gate = "await" /\ gate' = "backoff" /\ UNCHANGED <<call, reply, sent>>
    BY <1>8 DEF FailAgain
  <2> QED
    BY <1>1, <1>2, <1>3, <2>1 DEF NumberInv, Quiet, Running
<1>9. CASE Retry
  <2>1. /\ gate = "backoff" /\ gate' = "prepare" /\ sent' = sent /\ reply' = reply
        /\ call' = [call EXCEPT !.attempt = @ + 1]
    BY <1>9 DEF Retry, Attempting
  <2>2. sent = call /\ call # None /\ call \in Payloads
    BY <2>1 DEF NumberInv, TypeInv, CallTypes
  <2>3. call'.id = call.id /\ call'.turn = call.turn /\ call'.seq = call.seq
    BY <2>1, <2>2 DEF Payloads, Payload
  <2>4. Follows(sent, call')
    BY <2>1, <2>2, <2>3 DEF Follows
  <2> QED
    BY <1>1, <1>2, <1>3, <2>1, <2>2, <2>3, <2>4 DEF NumberInv, Quiet, Running, Follows
<1> QED
  BY <1>4, <1>5, <1>6, <1>7, <1>8, <1>9 DEF CallStep

LEMMA NumberStep ==
  TypeInv /\ ModeInv /\ SnapshotInv /\ NumberInv /\ [Next]_vars => NumberInv'
<1> SUFFICES ASSUME TypeInv, ModeInv, SnapshotInv, NumberInv, [Next]_vars
             PROVE  NumberInv'
  OBVIOUS
<1>1. CASE UNCHANGED <<seen, nextSeq, call, gate, reply, sent, phase, turn, resumed, curated>>
  BY <1>1 DEF NumberInv, Quiet, CuratorTurn, Running
<1>2. CASE EditConfig \/ RunCall \/ TakeResult \/ ExecutorStep \/ CancelDuringTool
           \/ UNCHANGED vars
  BY <1>1, <1>2 DEF EditConfig, RunCall, TakeResult, ExecutorStep, CancelDuringTool,
                    vars, callVars, memoryVars
<1>3. CASE StartProcess \/ BootFails \/ Leave
  <2>1. phase' \in {"down", "boot"} /\ sent = None /\ gate = "free" /\ reply = "none"
        /\ UNCHANGED <<seen, nextSeq, call, gate, reply, sent, turn, resumed>>
    BY <1>3 DEF StartProcess, BootFails, Leave, callVars, ModeInv, SnapshotInv
  <2> QED
    BY <2>1 DEF NumberInv, Quiet, Running
<1>4. CASE Boot
  <2>1. phase' = "idle" /\ sent' = None /\ gate' = "free" /\ reply' = "none"
        /\ DOMAIN nextSeq' = {}
    BY <1>4 DEF Boot, historyVars, ModeInv, SnapshotInv
  <2> QED
    BY <2>1 DEF NumberInv, Quiet, Running
<1>5. CASE BeginTurn
  <2>1. /\ sent = None /\ gate = "free" /\ reply = "none" /\ turn' = turn + 1 /\ turn \in Nat
        /\ UNCHANGED <<seen, nextSeq, call, gate, reply, sent, resumed>>
    BY <1>5 DEF BeginTurn, callVars, ModeInv, SnapshotInv, TypeInv, CountTypes
  <2>2. ASSUME NEW t \in DOMAIN nextSeq, t[1] = "turn"
        PROVE  t[2] \in Int /\ t[2] <= turn
    <3>1. t \in TurnId
      BY DEF TypeInv, CallTypes
    <3>2. t[2] \in Int
      BY <3>1, TurnAssumption DEF TurnId
    <3> QED
      BY <2>2, <3>2 DEF NumberInv
  <2>3. \A t \in DOMAIN nextSeq : t[1] = "turn" => t[2] <= turn + 1
    BY <2>1, <2>2
  <2>4. <<"turn", turn + 1>> \notin DOMAIN nextSeq
    BY <2>1, <2>2
  <2> QED
    BY <2>1, <2>3, <2>4 DEF NumberInv, Quiet
<1>6. CASE ReloadConfig
  <2>1. /\ sent = None /\ gate = "free" /\ reply = "none" /\ phase' = "curate" /\ Running
        /\ UNCHANGED <<seen, nextSeq, call, gate, reply, sent, resumed, turn>>
    BY <1>6 DEF ReloadConfig, Publish, historyVars, ModeInv, SnapshotInv, Running
  <2> QED
    BY <2>1 DEF NumberInv, Quiet
<1>7. CASE NothingDue
  <2>1. /\ sent = None /\ gate = "free" /\ reply = "none" /\ phase' = "ask" /\ Running
        /\ UNCHANGED <<seen, nextSeq, call, gate, reply, sent, resumed, turn>>
    BY <1>7 DEF NothingDue, callVars, TypeInv, CountTypes, Running
  <2> QED
    BY <2>1 DEF NumberInv, Quiet
<1>8. CASE Curated \/ ModelWantsTools
  <2>1. /\ gate = "free" /\ reply \in {"text", "tools"} /\ reply' = "none"
        /\ phase' \in {"ask", "tools"} /\ Running
        /\ UNCHANGED <<seen, nextSeq, call, gate, sent, resumed, turn>>
    BY <1>8 DEF Curated, ModelWantsTools, TakeReply, historyVars, ModeInv, Running
  <2> QED
    BY <2>1 DEF NumberInv, Quiet
<1>9. CASE Continue
  <2>1. /\ gate = "free" /\ reply = "none" /\ phase' = "ask" /\ Running
        /\ UNCHANGED <<seen, nextSeq, call, gate, reply, sent, resumed, turn>>
    BY <1>9 DEF Continue, callVars, ModeInv, Running
  <2> QED
    BY <2>1 DEF NumberInv, Quiet
<1>10. CASE CuratorErrs \/ Answer \/ RoundLimit \/ Rejected \/ CallFailed
            \/ DuplicateCall \/ ToolCancelled \/ CancelDuringCall
  <2>1. \E next \in {"idle", "down"} : \E waits : EndTurn(next, waits)
    BY <1>10 DEF CuratorErrs, Answer, RoundLimit, Rejected, CallFailed, DuplicateCall,
                 ToolCancelled, CancelDuringCall
  <2>2. gate' = "free" /\ reply' = "none" /\ UNCHANGED <<seen, nextSeq>>
    BY <1>10 DEF CuratorErrs, Answer, RoundLimit, Rejected, CallFailed, DuplicateCall,
                 ToolCancelled, CancelDuringCall, CancelCall, TakeReply, ModeInv
  <2>3. sent' = None /\ resumed' = FALSE /\ turn' = turn /\ phase' \in {"idle", "down"}
    BY <2>1 DEF EndTurn
  <2> QED
    BY <2>2, <2>3 DEF NumberInv, Quiet, Running
<1>11. CASE GatewayStep
  BY <1>11, CallStepNumbers DEF GatewayStep, memoryVars
<1>12. ASSUME NEW id, NEW t, NEW config, BeginCall(id, t, config),
              phase \in {"curate", "ask"}, UNCHANGED <<phase, turn, resumed, curated>>,
              t = IF phase = "curate" THEN CuratorTurn ELSE <<"turn", turn>>
       PROVE  NumberInv'
  <2>1. gate = "free" /\ reply = "none" /\ Quiet /\ Running
    BY <1>12 DEF BeginCall, Quiet, Running
  <2>2. CuratorTurn' = CuratorTurn
    BY <1>12 DEF CuratorTurn
  <2>3. CASE id \in seen
    <3>1. reply' = "hard" /\ UNCHANGED <<seen, nextSeq, call, gate, sent>>
      BY <1>12, <2>3 DEF BeginCall
    <3> QED
      BY <1>12, <2>1, <2>2, <3>1 DEF NumberInv, Quiet
  <2>4. CASE id \notin seen
    <3>1. t \in DOMAIN nextSeq => sent # None /\ sent.turn = t
      <4>1. CASE phase = "ask"
        BY <1>12, <2>1, <4>1 DEF NumberInv
      <4>2. CASE phase = "curate"
        BY <1>12, <2>1, <4>2 DEF NumberInv, CuratorTurn
      <4> QED
        BY <1>12, <4>1, <4>2
    <3>2. /\ Follows(sent, call') /\ gate' = "prepare" /\ reply' = "none" /\ sent' = sent
          /\ call'.turn = t /\ call'.id = id
          /\ DOMAIN nextSeq' = DOMAIN nextSeq \cup {t}
          /\ nextSeq'[t] = call'.seq + 1
          /\ seen' = seen \cup {id}
      BY <1>12, <2>4, <3>1, BeginCallNumbers
    <3>3. t[1] = "turn" => t[2] <= turn
      BY <1>12 DEF CuratorTurn, TypeInv, CountTypes
    <3>4. <<"turn", turn>> \in DOMAIN nextSeq' =>
            \/ call'.turn = <<"turn", turn>>
            \/ sent # None /\ sent.turn = <<"turn", turn>>
      BY <2>1, <3>2 DEF NumberInv
    <3> QED
      BY <1>12, <2>1, <2>2, <3>2, <3>3, <3>4 DEF NumberInv, Quiet, Follows
  <2> QED
    BY <2>3, <2>4
<1>13. CASE AskCurator
  BY <1>12, <1>13 DEF AskCurator, memoryVars
<1>14. CASE AskChat
  BY <1>12, <1>14 DEF AskChat, memoryVars
<1> QED
  BY <1>2, <1>3, <1>4, <1>5, <1>6, <1>7, <1>8, <1>9, <1>10, <1>11, <1>13, <1>14
     DEF Next, Turn

\* The physical requests of a turn are numbered without a gap: a retry keeps
\* the number and counts the attempt, another call has the next number of its
\* turn id (CallIdentityAllocator, ModelCallGateway._complete_assigned).
THEOREM SendsFollow == Spec => SendsAreNumbered
<1>1. NumberInv /\ [Next]_vars => [Sends => Follows(sent, sender')]_vars
  BY OnlySendSends DEF NumberInv, Send
<1>2. Spec => [](ModeInv /\ SnapshotInv)
  BY ModeAlways, SnapshotInit, SnapshotStep, PTL DEF Spec
<1>3. Spec => []NumberInv
  BY <1>2, TypesAlways, NumberInit, NumberStep, PTL DEF Spec
<1> QED
  BY <1>1, <1>3, PTL DEF Spec, SendsAreNumbered

-----------------------------------------------------------------------------
(***************************************************************************)
(* The rounds of tool calls.                                               *)
(***************************************************************************)
LEMMA EventsInit == Init => EventsInv
  BY EmptySeq DEF Init, ToolInit, EventsInv, Busy, IsCalls, IsResult

LEMMA NoEvents ==
  ASSUME events' = <<>>, batch' = <<>>, ~Busy'
  PROVE  EventsInv'
  BY EmptySeq DEF EventsInv, IsCalls, IsResult

\* A response with tool calls is asked about when nothing is open.
LEMMA ResponseOpens ==
  ASSUME EventsInv, ~Busy', phase = "ask", phase' = "tools", seenCalls' = seenCalls,
         batch' \in Seq(ToolId), events' = Append(events, Event("calls", batch'))
  PROVE  EventsInv'
<1> DEFINE e == Event("calls", batch')
           n == Len(events) + 1
           E == [kind : {"calls", "result"}, ids : Seq(ToolId)]
<1>1. e \in E /\ e.kind = "calls" /\ e.ids = batch'
  BY DEF Event
<1>2. events \in Seq(E) /\ Len(events) \in Nat /\ batch = <<>>
  BY LenProperties DEF EventsInv
<1>3. /\ events' \in Seq(E) /\ Len(events') = n /\ DOMAIN events' = 1..n
      /\ events'[n] = e
      /\ DOMAIN events = 1..(n - 1)
      /\ \A i \in 1..(n - 1) : events'[i] = events[i]
  BY <1>1, <1>2, AppendProperties, LenProperties
<1>4. Len(batch') \in Nat /\ DOMAIN batch' = 1..Len(batch')
  BY LenProperties
<1> HIDE DEF e
<1>5. ASSUME NEW i \in DOMAIN events', IsCalls(i)', NEW k \in DOMAIN events'[i].ids
      PROVE  IF i + k \in DOMAIN events'
               THEN IsResult(i + k)' /\ events'[i + k].ids = <<events'[i].ids[k]>>
               ELSE /\ i + k - Len(events') \in DOMAIN batch'
                    /\ batch'[i + k - Len(events')] = events'[i].ids[k]
  <2>1. CASE i = n
    BY <1>1, <1>2, <1>3, <1>4, <1>5, <2>1
  <2>2. CASE i # n
    <3>1. i \in DOMAIN events /\ IsCalls(i) /\ k \in DOMAIN events[i].ids
      BY <1>2, <1>3, <1>5, <2>2 DEF IsCalls
    <3>2. i + k \in DOMAIN events
      BY <1>2, <3>1 DEF EventsInv
    <3>3. IsResult(i + k) /\ events[i + k].ids = <<events[i].ids[k]>>
      BY <3>1, <3>2 DEF EventsInv
    <3> QED
      BY <1>2, <1>3, <3>1, <3>2, <3>3 DEF IsResult
  <2> QED
    BY <2>1, <2>2
<1>6. \E i \in DOMAIN events' : /\ IsCalls(i)' /\ events'[i].ids \in Seq(ToolId)
                                /\ i + Len(events'[i].ids) = Len(events') + Len(batch')
  <2>1. n \in DOMAIN events' /\ events'[n].kind = "calls" /\ events'[n].ids = batch'
    BY <1>1, <1>2, <1>3
  <2>2. ASSUME NEW i \in DOMAIN events', i = n
        PROVE  /\ IsCalls(i)' /\ events'[i].ids \in Seq(ToolId)
               /\ i + Len(events'[i].ids) = Len(events') + Len(batch')
    BY <1>3, <2>1, <2>2 DEF IsCalls
  <2> QED
    BY <2>1, <2>2
<1>7. \A j \in DOMAIN events' : IsResult(j)' => j \in DOMAIN events /\ IsResult(j)
                                                 /\ events'[j] = events[j]
  BY <1>1, <1>2, <1>3 DEF IsResult
<1>8. ASSUME NEW j \in DOMAIN events', IsResult(j)'
      PROVE  /\ \E i \in DOMAIN events' : IsCalls(i)' /\ j - i \in DOMAIN events'[i].ids
             /\ events'[j].ids[1] \in seenCalls'
             /\ events'[j].ids = <<events'[j].ids[1]>>
  <2>1. j \in DOMAIN events /\ IsResult(j) /\ events'[j] = events[j]
    BY <1>7, <1>8
  <2>2. PICK i \in DOMAIN events : IsCalls(i) /\ j - i \in DOMAIN events[i].ids
    BY <2>1 DEF EventsInv
  <2>3. i \in DOMAIN events' /\ IsCalls(i)' /\ events'[i] = events[i]
    BY <1>2, <1>3, <2>2 DEF IsCalls
  <2> QED
    BY <2>1, <2>2, <2>3 DEF EventsInv
<1>9. \A j, l \in DOMAIN events' :
        IsResult(j)' /\ IsResult(l)' /\ events'[j].ids = events'[l].ids => j = l
  BY <1>7 DEF EventsInv
<1> QED
  BY <1>3, <1>5, <1>6, <1>8, <1>9 DEF EventsInv

\* A result is added for the call that has run, the head of the batch.
LEMMA ResultFollows ==
  ASSUME EventsInv, ToolTypes, Busy, ~Busy', phase = "tools", phase' = "tools",
         seenCalls' = seenCalls, batch' = Tail(batch),
         events' = Append(events, Event("result", <<Head(batch)>>))
  PROVE  EventsInv'
<1> DEFINE e == Event("result", <<Head(batch)>>)
           n == Len(events) + 1
           E == [kind : {"calls", "result"}, ids : Seq(ToolId)]
<1>1. /\ batch \in Seq(ToolId) /\ batch # <<>> /\ Head(batch) \in seenCalls
      /\ Head(batch) \in ToolId
  BY DEF EventsInv, ToolTypes
<1>2. /\ e \in E /\ e.kind = "result" /\ e.ids = <<Head(batch)>> /\ e.ids[1] = Head(batch)
  BY <1>1 DEF Event
<1>3. events \in Seq(E) /\ Len(events) \in Nat
  BY LenProperties DEF EventsInv
<1>4. /\ events' \in Seq(E) /\ Len(events') = n /\ DOMAIN events' = 1..n
      /\ events'[n] = e
      /\ DOMAIN events = 1..(n - 1)
      /\ \A i \in 1..(n - 1) : events'[i] = events[i]
  BY <1>2, <1>3, AppendProperties, LenProperties
<1>5. /\ Len(batch) \in Nat \ {0} /\ DOMAIN batch = 1..Len(batch)
      /\ Len(batch') = Len(batch) - 1 /\ DOMAIN batch' = 1..(Len(batch) - 1)
      /\ \A m \in 1..(Len(batch) - 1) : batch'[m] = batch[m + 1]
      /\ Head(batch) = batch[1]
  BY <1>1, HeadTailProperties, LenProperties
<1> HIDE DEF e
<1>6. ASSUME NEW i \in DOMAIN events', IsCalls(i)'
      PROVE  i \in DOMAIN events /\ i # n /\ IsCalls(i) /\ events'[i] = events[i]
  BY <1>2, <1>3, <1>4, <1>6 DEF IsCalls
<1>7. ASSUME NEW i \in DOMAIN events', IsCalls(i)', NEW k \in DOMAIN events'[i].ids
      PROVE  IF i + k \in DOMAIN events'
               THEN IsResult(i + k)' /\ events'[i + k].ids = <<events'[i].ids[k]>>
               ELSE /\ i + k - Len(events') \in DOMAIN batch'
                    /\ batch'[i + k - Len(events')] = events'[i].ids[k]
  <2>1. i \in DOMAIN events /\ IsCalls(i) /\ k \in DOMAIN events[i].ids
        /\ events'[i] = events[i]
    BY <1>6, <1>7
  <2>2. i \in Nat /\ k \in Nat \ {0}
    <3>1. i \in 1..Len(events)
      BY <1>3, <1>4, <2>1
    <3>2. events[i] \in E
      BY <1>3, <3>1, ElementOfSeq
    <3>3. events[i].ids \in Seq(ToolId)
      BY <3>2
    <3>4. DOMAIN events[i].ids = 1..Len(events[i].ids) /\ Len(events[i].ids) \in Nat
      BY <3>3, LenProperties
    <3> QED
      BY <1>3, <2>1, <3>1, <3>4
  <2>3. IF i + k \in DOMAIN events
          THEN IsResult(i + k) /\ events[i + k].ids = <<events[i].ids[k]>>
          ELSE /\ i + k - Len(events) \in DOMAIN batch
               /\ batch[i + k - Len(events)] = events[i].ids[k]
    BY <2>1 DEF EventsInv
  <2>4. CASE i + k \in DOMAIN events
    BY <1>3, <1>4, <2>1, <2>3, <2>4 DEF IsResult
  <2>5. CASE i + k = n
    <3>1. i + k - Len(events) = 1 /\ i + k \notin DOMAIN events
      BY <1>3, <1>4, <2>2, <2>5
    <3>2. events[i].ids[k] = Head(batch)
      BY <1>5, <2>3, <3>1
    <3>3. i + k \in DOMAIN events' /\ events'[i + k] = e
      BY <1>3, <1>4, <2>5
    <3> QED
      BY <1>2, <2>1, <3>2, <3>3 DEF IsResult
  <2>6. CASE i + k > n
    <3>1. i + k \notin DOMAIN events /\ i + k \notin DOMAIN events'
      BY <1>3, <1>4, <2>2, <2>6
    <3>2. /\ i + k - Len(events) \in 2..Len(batch)
          /\ batch[i + k - Len(events)] = events[i].ids[k]
      BY <1>3, <1>5, <2>2, <2>3, <2>6, <3>1
    <3>3. i + k - Len(events') \in 1..(Len(batch) - 1)
      BY <1>3, <1>4, <1>5, <2>2, <3>2
    <3>4. batch'[i + k - Len(events')] = batch[(i + k - Len(events')) + 1]
      BY <1>5, <3>3
    <3>5. (i + k - Len(events')) + 1 = i + k - Len(events)
      BY <1>3, <1>4, <2>2
    <3> QED
      BY <1>5, <2>1, <3>1, <3>2, <3>3, <3>4, <3>5
  <2>7. i + k \in DOMAIN events \/ i + k = n \/ i + k > n
    <3>1. \A m \in Nat \ {0}, l \in Nat : m \in 1..(l - 1) \/ m = l \/ m > l
      OBVIOUS
    <3>2. i + k \in Nat \ {0} /\ n \in Nat
      BY <1>3, <2>2
    <3> HIDE DEF n
    <3> QED
      BY <1>4, <3>1, <3>2
  <2> QED
    BY <2>4, <2>5, <2>6, <2>7
<1>8. PICK o \in DOMAIN events : /\ IsCalls(o) /\ events[o].ids \in Seq(ToolId)
                                 /\ o + Len(events[o].ids) = Len(events) + Len(batch)
  BY <1>1 DEF EventsInv
<1>9. /\ o \in Nat /\ o \in DOMAIN events' /\ IsCalls(o)' /\ events'[o] = events[o]
      /\ Len(events[o].ids) \in Nat /\ DOMAIN events[o].ids = 1..Len(events[o].ids)
  BY <1>3, <1>4, <1>8, LenProperties DEF IsCalls
<1>10. batch' # <<>> =>
         \E i \in DOMAIN events' : /\ IsCalls(i)' /\ events'[i].ids \in Seq(ToolId)
                                   /\ i + Len(events'[i].ids) = Len(events') + Len(batch')
  BY <1>3, <1>4, <1>5, <1>8, <1>9
<1>11. n - o \in DOMAIN events[o].ids
  BY <1>3, <1>4, <1>5, <1>8, <1>9
<1>12. ASSUME NEW j \in DOMAIN events', IsResult(j)'
       PROVE  \/ j = n
              \/ j \in DOMAIN events /\ IsResult(j) /\ events'[j] = events[j]
  BY <1>3, <1>4, <1>12 DEF IsResult
<1>13. ASSUME NEW j \in DOMAIN events', IsResult(j)'
       PROVE  /\ \E i \in DOMAIN events' : IsCalls(i)' /\ j - i \in DOMAIN events'[i].ids
              /\ events'[j].ids[1] \in seenCalls'
              /\ events'[j].ids = <<events'[j].ids[1]>>
  <2>1. CASE j = n
    <3>1. events'[j] = e
      BY <1>4, <2>1
    <3>2. j - o \in DOMAIN events'[o].ids
      BY <1>9, <1>11, <2>1
    <3> QED
      BY <1>1, <1>2, <1>9, <3>1, <3>2
  <2>2. CASE j \in DOMAIN events /\ IsResult(j) /\ events'[j] = events[j]
    <3>1. PICK i \in DOMAIN events : IsCalls(i) /\ j - i \in DOMAIN events[i].ids
      BY <2>2 DEF EventsInv
    <3>2. i \in DOMAIN events' /\ IsCalls(i)' /\ events'[i] = events[i]
      BY <1>3, <1>4, <3>1 DEF IsCalls
    <3> QED
      BY <2>2, <3>1, <3>2 DEF EventsInv
  <2> QED
    BY <1>12, <1>13, <2>1, <2>2
<1>14. \A j, l \in DOMAIN events' :
         IsResult(j)' /\ IsResult(l)' /\ events'[j].ids = events'[l].ids => j = l
  <2> SUFFICES ASSUME NEW j \in DOMAIN events', NEW l \in DOMAIN events',
                      IsResult(j)', IsResult(l)', events'[j].ids = events'[l].ids
               PROVE  j = l
    OBVIOUS
  <2>1. \A m \in DOMAIN events : IsResult(m) => events[m].ids[1] # Head(batch)
    BY DEF EventsInv
  <2> QED
    BY <1>2, <1>4, <1>12, <2>1 DEF EventsInv
<1> QED
  BY <1>4, <1>7, <1>10, <1>13, <1>14 DEF EventsInv

LEMMA EventsStep == ModeInv /\ ToolTypes /\ EventsInv /\ [Next]_vars => EventsInv'
<1> SUFFICES ASSUME ModeInv, ToolTypes, EventsInv, [Next]_vars
             PROVE  EventsInv'
  OBVIOUS
<1>1. ASSUME UNCHANGED <<batch, seenCalls, events>>, Busy' => Busy,
             phase' # "tools" => batch = <<>>
      PROVE  EventsInv'
  BY <1>1 DEF EventsInv, IsCalls, IsResult
<1>2. CASE EditConfig \/ StartProcess \/ Boot \/ BootFails \/ BeginTurn \/ Leave
           \/ ReloadConfig \/ NothingDue \/ AskCurator \/ AskChat \/ Curated
           \/ GatewayStep \/ UNCHANGED vars
  <2>1. UNCHANGED <<toolVars, batch, seenCalls, events>>
    BY <1>2 DEF EditConfig, StartProcess, Boot, BootFails, BeginTurn, Leave,
                ReloadConfig, NothingDue, AskCurator, AskChat, Curated, GatewayStep,
                vars, toolTurnVars
  <2>2. phase # "tools" \/ phase' = phase
    BY <1>2 DEF EditConfig, StartProcess, Boot, BootFails, BeginTurn, Leave,
                ReloadConfig, NothingDue, AskCurator, AskChat, Curated, GatewayStep, vars
  <2> QED
    BY <1>1, <2>1, <2>2 DEF toolVars, Busy, EventsInv
<1>3. CASE CuratorErrs \/ Answer \/ RoundLimit \/ Rejected \/ CallFailed
           \/ DuplicateCall \/ ToolCancelled \/ CancelDuringCall
  <2>1. \E next, waits : EndTurn(next, waits)
    BY <1>3 DEF CuratorErrs, Answer, RoundLimit, Rejected, CallFailed, DuplicateCall,
                ToolCancelled, CancelDuringCall
  <2>2. step = "free"
    BY <1>3 DEF CuratorErrs, Answer, RoundLimit, DuplicateCall, Rejected, CallFailed,
                ToolCancelled, CancelDuringCall, CancelCall, ModeInv
  <2>3. events' = <<>> /\ batch' = <<>> /\ ~Busy'
    BY <2>1, <2>2 DEF EndTurn, executorVars, Busy
  <2> QED
    BY <2>3, NoEvents
<1>4. CASE ModelWantsTools
  <2>1. /\ batch' \in SeqOf(ToolId, 2) /\ events' = Append(events, Event("calls", batch'))
        /\ phase = "ask" /\ phase' = "tools" /\ seenCalls' = seenCalls
        /\ UNCHANGED toolVars
    BY <1>4 DEF ModelWantsTools
  <2>2. PICK m \in 0..2 : batch' \in [1..m -> ToolId]
    BY <2>1 DEF SeqOf
  <2>3. batch' \in Seq(ToolId)
    BY <2>2, IsASeq
  <2>4. ~Busy'
    BY <2>1 DEF Busy, toolVars, ModeInv
  <2> QED
    BY <2>1, <2>3, <2>4, ResponseOpens
<1>5. CASE RunCall
  <2>1. /\ phase = "tools" /\ phase' = "tools" /\ batch # <<>> /\ Head(batch) \notin seenCalls
        /\ seenCalls' = seenCalls \cup {Head(batch)} /\ UNCHANGED <<batch, events>>
    BY <1>5 DEF RunCall
  <2>2. \A j \in DOMAIN events : IsResult(j) => events[j].ids[1] # Head(batch)
    BY <2>1 DEF EventsInv
  <2> QED
    BY <2>1, <2>2 DEF EventsInv, IsCalls, IsResult
<1>6. CASE TakeResult
  <2>1. /\ phase = "tools" /\ phase' = "tools" /\ seenCalls' = seenCalls
        /\ batch' = Tail(batch)
        /\ events' = Append(events, Event("result", <<Head(batch)>>))
    BY <1>6 DEF TakeResult
  <2>2. Busy /\ ~Busy'
    BY <1>6 DEF TakeResult, Busy, ModeInv, executorVars
  <2> QED
    BY <2>1, <2>2, ResultFollows
<1>7. CASE Continue
  BY <1>1, <1>7 DEF Continue, toolVars, Busy
<1>8. CASE ExecutorStep \/ CancelDuringTool
  <2>1. /\ UNCHANGED <<batch, seenCalls, events, phase>>
        /\ ToolStep \/ CancelTool
    BY <1>8 DEF ExecutorStep, CancelDuringTool, toolTurnVars
  <2>2. Busy
    BY <2>1, ToolStepStaysBusy
  <2> QED
    BY <1>1, <2>1, <2>2 DEF EventsInv
<1> QED
  BY <1>2, <1>3, <1>4, <1>5, <1>6, <1>7, <1>8 DEF Next, Turn

\* When the model is asked again, each tool call of the turn has run once, and
\* the results follow their response one by one in the order of its calls
\* (run_turn's tool_events).
THEOREM ToolCallsAreAnswered == Spec => []CallsAreAnswered
<1>1. EventsInv => CallsAreAnswered
  <2> SUFFICES ASSUME EventsInv, phase = "ask"
               PROVE  CallsAreAnswered
    BY DEF CallsAreAnswered
  <2>1. batch = <<>> /\ DOMAIN batch = {}
    BY DEF EventsInv
  <2> QED
    BY <2>1 DEF EventsInv, CallsAreAnswered
<1>2. Spec => []ToolTypes
  BY TypesAlways, PTL DEF TypeInv
<1> QED
  BY <1>1, <1>2, ModeAlways, EventsInit, EventsStep, PTL DEF Spec
=============================================================================
