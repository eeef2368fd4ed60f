------------------------------- MODULE ModelTurn -------------------------------
(***************************************************************************)
(* One turn as the model sees it: SingleTurnController.run_turn with the   *)
(* curator's call, the chat call, the rounds of tool calls and their       *)
(* continuations, over ModelCalls and ToolExecution, in a session that     *)
(* reloads the configuration before every turn, ends at the first error    *)
(* that is not a rejection, and is started again.                          *)
(*                                                                         *)
(* What a turn writes to the memory directory is TurnTransaction's; here   *)
(* it is what the calls depend on: how many turns are answered, how many   *)
(* of those are curated, and whether a question waits.                     *)
(***************************************************************************)
EXTENDS ModelCalls, ToolExecution, Sequences, SequencesExt, Functions

CONSTANTS
  Revision,         \* contents of the configuration directory
  Unreadable,       \* load_config refuses these
  Unbuildable,      \* load_config takes them, the build raises a BaiError
  MaxRounds,        \* max_tool_rounds
  DirectRecords,    \* short_term: max_records - reserved_records
  ToolId,           \* the call ids the model makes up
  Earlier,          \* bound: turns answered in earlier sessions
  Kinds,            \* the kinds of the tools that are registered
  MaxTurns,         \* bound: turns begun
  MaxEdits,         \* bound: edits of the configuration
  MaxCancels        \* bound: cancellations of the worker

VARIABLES
  phase,            \* where the session is
  turn,             \* number of the current turn
  resumed,          \* whether it resumes a pending question
  pending,          \* whether the archive ends with a question
  answered, curated,           \* turns answered, turns curated
  staged,           \* whether the turn holds a proposed curation
  round,            \* rounds of tools run
  batch,            \* calls of the round that have not run
  seenCalls,        \* seen_call_ids
  events,           \* tool_events
  disk,             \* contents of the configuration directory
  parsed,           \* what a load in progress has parsed
  snapshot, built,  \* the published snapshot, that of the controller's objects
  required,         \* _config_reload_required
  wanted,           \* history: what was on disk during the turn's load, or None
  edits, cancels    \* counters of the bounds

memoryVars == <<pending, answered, curated>>
toolTurnVars == <<round, batch, seenCalls, events>>
historyVars == <<approved, sent>>
executorVars == <<tool, step, wrote, shielded>>
loadedVars == <<parsed, snapshot, built, required>>
configVars == <<disk, loadedVars, edits>>
vars == <<callVars, toolVars, memoryVars, toolTurnVars, configVars,
          phase, turn, resumed, staged, wanted, cancels>>

Good == Revision \ (Unreadable \cup Unbuildable)

\* The ids of turns and of calls, and the payloads that can be made of them.
TurnId == ({"turn"} \X (1..MaxTurns)) \cup ({"curation"} \X (1..(Earlier + MaxTurns)))
CallId == ({"batch"} \X (1..(Earlier + MaxTurns))) \cup ({"chat"} \X (1..MaxTurns) \X (0..MaxRounds))
Payloads == Payload(CallId, TurnId, [settings : Good, revision : Revision])

ASSUME TurnAssumption ==
  /\ Good # {} /\ {MaxRounds, DirectRecords, Earlier, MaxTurns} \subseteq Nat
  /\ Kinds \subseteq ToolKind /\ Kinds # {}
  /\ None \notin Payloads \cup Good

Phase == {"down", "boot", "idle", "load", "curate", "ask", "tools"}
Running == phase \in {"load", "curate", "ask", "tools"}

\* What load_config returns: settings and prompts are read first, the revision
\* is computed from the bytes of a second reading.
Snapshot(settings, revision) == [settings |-> settings, revision |-> revision]

\* A kept question is the last record, and is counted.
BatchDue ==
  /\ answered > curated
  /\ 2 * (answered - curated) + (IF resumed THEN 1 ELSE 0) > DirectRecords

\* The id of a curator's call is a hash of the batch, here one turn.
CuratorId == <<"batch", curated + 1>>

\* Only a turn that can be rejected gives the curator's call its own id.
CuratorTurn == <<IF resumed THEN "curation" ELSE "turn", IF resumed THEN curated + 1 ELSE turn>>

\* new_id: fresh in every call.
ChatId == <<"chat", turn, round>>

Event(kind, ids) == [kind |-> kind, ids |-> ids]

\* All good contents of the configuration directory are alike.
Init ==
  /\ CallInit /\ ToolInit
  /\ phase = "down" /\ turn = 0 /\ resumed = FALSE /\ pending = FALSE
  /\ answered \in 0..Earlier /\ curated = 0 /\ staged = FALSE
  /\ round = 0 /\ batch = <<>> /\ seenCalls = {} /\ events = <<>>
  /\ disk = (CHOOSE r \in Good : TRUE) /\ parsed = disk /\ required = FALSE /\ wanted = None
  /\ snapshot = Snapshot(disk, disk) /\ built = snapshot
  /\ edits = 0 /\ cancels = 0

-----------------------------------------------------------------------------
(***************************************************************************)
(* The session.                                                            *)
(***************************************************************************)
\* At any time, also between the two readings of a load.
EditConfig ==
  /\ edits < MaxEdits
  /\ \E r \in Revision \ {disk} : disk' = r
  /\ edits' = edits + 1
  /\ UNCHANGED <<callVars, toolVars, memoryVars, toolTurnVars, loadedVars,
                 phase, turn, resumed, staged, wanted, cancels>>

StartProcess ==
  /\ phase = "down" /\ disk \notin Unreadable /\ turn < MaxTurns
  /\ phase' = "boot" /\ parsed' = disk
  /\ UNCHANGED <<callVars, toolVars, memoryVars, toolTurnVars, disk, snapshot, built,
                 required, edits, turn, resumed, staged, wanted, cancels>>

\* build_application: new gateways with a new allocator.  The pending question
\* is discarded or resumed.  Without a good configuration there is no start.
Boot ==
  /\ phase = "boot" /\ parsed \in Good
  /\ phase' = "idle"
  /\ resumed' \in {FALSE, pending} /\ pending' = resumed'
  /\ snapshot' = Snapshot(parsed, disk) /\ built' = snapshot' /\ required' = FALSE
  /\ seen' = {} /\ nextSeq' = <<>> /\ screen' = None /\ owners' = {}
  /\ UNCHANGED <<call, gate, sender, reply, historyVars, toolVars, answered, curated,
                 toolTurnVars, disk, parsed, edits, turn, staged, wanted, cancels>>

BootFails ==
  /\ phase = "boot" /\ parsed \notin Good
  /\ phase' = "down"
  /\ UNCHANGED <<callVars, toolVars, memoryVars, toolTurnVars, configVars,
                 turn, resumed, staged, wanted, cancels>>

\* The shell reloads before every turn; it goes on with the old snapshot when
\* load_config raises, and the next reload builds everything anew.
BeginTurn ==
  /\ phase = "idle" /\ turn < MaxTurns
  /\ turn' = turn + 1
  /\ IF disk \in Unreadable
       THEN phase' = "curate" /\ required' = TRUE /\ UNCHANGED parsed
       ELSE phase' = "load" /\ parsed' = disk /\ UNCHANGED required
  /\ UNCHANGED <<callVars, toolVars, memoryVars, toolTurnVars, disk, snapshot, built,
                 edits, resumed, staged, wanted, cancels>>

\* Mutant: the snapshot is published before the objects are built.
PublishFirst(fresh) ==
  /\ snapshot' = fresh
  /\ built' = IF fresh.settings \in Good THEN fresh ELSE built
  /\ required' = (fresh.settings \notin Good)
  /\ UNCHANGED seen

\* Mutant: the new gateways get a new allocator.
ReloadForgetsCalls(fresh) ==
  IF fresh.settings \in Good
    THEN snapshot' = fresh /\ built' = fresh /\ required' = FALSE /\ seen' = {}
    ELSE required' = TRUE /\ UNCHANGED <<snapshot, built, seen>>

\* Nothing is published unless everything could be built, and the allocator is
\* handed on.
Publish(fresh) ==
  /\ IF fresh.settings \in Good
       THEN snapshot' = fresh /\ built' = fresh /\ required' = FALSE
       ELSE required' = TRUE /\ UNCHANGED <<snapshot, built>>
  /\ UNCHANGED seen

\* _reload_config: a revision that is published already is not built again.
ReloadConfig ==
  /\ phase = "load"
  /\ phase' = "curate"
  /\ IF disk = snapshot.revision /\ ~required
       THEN UNCHANGED <<snapshot, built, required, seen>>
       ELSE Publish(Snapshot(parsed, disk))
  /\ wanted' = IF parsed = disk /\ disk \in Good THEN disk ELSE None
  /\ UNCHANGED <<nextSeq, call, gate, sender, screen, reply, owners, historyVars, toolVars,
                 memoryVars, toolTurnVars, disk, parsed, edits, turn, resumed, staged,
                 cancels>>

\* The end of the input stops a session that is not at work.
Leave ==
  /\ phase = "idle"
  /\ phase' = "down"
  /\ UNCHANGED <<callVars, toolVars, memoryVars, toolTurnVars, configVars,
                 turn, resumed, staged, wanted, cancels>>

-----------------------------------------------------------------------------
(***************************************************************************)
(* run_turn.                                                               *)
(***************************************************************************)
\* How a turn ends; what the journal makes of it is in TurnTransaction.
EndTurn(next, waits) ==
  /\ phase' = next /\ resumed' = FALSE /\ pending' = waits /\ staged' = FALSE
  /\ round' = 0 /\ batch' = <<>> /\ seenCalls' = {} /\ events' = <<>>
  /\ approved' = None /\ sent' = None /\ wanted' = None
  /\ result' = "none" /\ effect' = "none"
  /\ UNCHANGED <<executorVars, configVars, turn>>

NothingDue ==
  /\ phase = "curate" /\ ~BatchDue
  /\ phase' = "ask"
  /\ UNCHANGED <<callVars, toolVars, memoryVars, toolTurnVars, configVars,
                 turn, resumed, staged, wanted, cancels>>

AskCurator ==
  /\ phase = "curate" /\ BatchDue
  /\ BeginCall(CuratorId, CuratorTurn, built)
  /\ UNCHANGED <<toolVars, memoryVars, toolTurnVars, configVars,
                 phase, turn, resumed, staged, wanted, cancels>>

TakeReply ==
  reply' = "none" /\ UNCHANGED <<seen, nextSeq, call, gate, sender, screen, owners>>

\* A valid proposal is staged for the end of the turn; a resumed turn, which
\* has no journal, commits it at once.
Curated ==
  /\ phase = "curate" /\ reply = "text"
  /\ phase' = "ask"
  /\ staged' = ~resumed
  /\ curated' = IF resumed THEN curated + 1 ELSE curated
  /\ TakeReply
  /\ UNCHANGED <<historyVars, toolVars, pending, answered, toolTurnVars, configVars,
                 turn, resumed, wanted, cancels>>

\* No JSON is a retryable error, a wrong schema or source is not.
CuratorErrs ==
  /\ phase = "curate" /\ reply \in {"text", "tools"}
  /\ TakeReply
  /\ \/ EndTurn("down", TRUE)
     \/ reply = "text" /\ EndTurn("down", resumed)
  /\ UNCHANGED <<answered, curated, cancels>>

AskChat ==
  /\ phase = "ask"
  /\ BeginCall(ChatId, <<"turn", turn>>, Snapshot(built.settings, snapshot.revision))
  /\ UNCHANGED <<toolVars, memoryVars, toolTurnVars, configVars,
                 phase, turn, resumed, staged, wanted, cancels>>

Answer ==
  /\ phase = "ask" /\ reply = "text"
  /\ TakeReply
  /\ answered' = answered + 1
  /\ curated' = IF staged THEN curated + 1 ELSE curated
  /\ EndTurn("idle", FALSE)
  /\ UNCHANGED cancels

\* The ids of a response are distinct: send_once refuses any other.
ModelWantsTools ==
  /\ phase = "ask" /\ reply = "tools" /\ round < MaxRounds
  /\ TakeReply
  /\ \E ids \in {s \in SeqOf(ToolId, 2) : s # <<>> /\ IsInjective(s)} :
       /\ batch' = ids
       /\ events' = Append(events, Event("calls", ids))
  /\ phase' = "tools"
  /\ UNCHANGED <<historyVars, toolVars, memoryVars, round, seenCalls, configVars,
                 turn, resumed, staged, wanted, cancels>>

\* TOOL_ROUND_LIMIT
RoundLimit ==
  /\ phase = "ask" /\ reply = "tools" /\ round = MaxRounds
  /\ TakeReply
  /\ EndTurn("down", resumed)
  /\ UNCHANGED <<answered, curated, cancels>>

\* Mutant: only the ids of one response are compared.
RunCallOnceARound ==
  /\ phase = "tools" /\ batch # <<>>
  /\ seenCalls' = {Head(batch)}
  /\ \E kind \in Kinds : BeginTool(kind)
  /\ UNCHANGED <<callVars, memoryVars, round, batch, events, configVars,
                 phase, turn, resumed, staged, wanted, cancels>>

RunCall ==
  /\ phase = "tools" /\ batch # <<>> /\ Head(batch) \notin seenCalls
  /\ seenCalls' = seenCalls \cup {Head(batch)}
  /\ \E kind \in Kinds : BeginTool(kind)
  /\ UNCHANGED <<callVars, memoryVars, round, batch, events, configVars,
                 phase, turn, resumed, staged, wanted, cancels>>

\* TOOL_CALL_DUPLICATE: earlier calls of the response have run.
DuplicateCall ==
  /\ phase = "tools" /\ batch # <<>> /\ step = "free" /\ result = "none"
  /\ Head(batch) \in seenCalls
  /\ EndTurn("down", resumed)
  /\ UNCHANGED <<seen, nextSeq, call, gate, sender, screen, reply, owners,
                 answered, curated, cancels>>

TakeResult ==
  /\ phase = "tools" /\ result \notin {"none", "cancelled"}
  /\ result' = "none" /\ effect' = "none"
  /\ events' = Append(events, Event("result", <<Head(batch)>>))
  /\ batch' = Tail(batch)
  /\ UNCHANGED <<callVars, executorVars, memoryVars, round, seenCalls, configVars,
                 phase, turn, resumed, staged, wanted, cancels>>

Continue ==
  /\ phase = "tools" /\ batch = <<>> /\ step = "free" /\ result = "none"
  /\ round' = round + 1 /\ phase' = "ask"
  /\ UNCHANGED <<callVars, toolVars, memoryVars, batch, seenCalls, events, configVars,
                 turn, resumed, staged, wanted, cancels>>

\* TurnRejected discards the turn, and the session goes on; TurnInterrupted
\* is a TurnRejected after which the shell stops.
Rejected ==
  /\ Running /\ reply \in {"rejected", "interrupted"}
  /\ TakeReply
  /\ EndTurn(IF reply = "rejected" THEN "idle" ELSE "down", FALSE)
  /\ UNCHANGED <<answered, curated, cancels>>

\* Any other error ends the process; the question waits if it may be retried,
\* and a resumed one waits anyway.
CallFailed ==
  /\ Running /\ reply \in {"kept", "hard"}
  /\ TakeReply
  /\ EndTurn("down", reply = "kept" \/ resumed)
  /\ UNCHANGED <<answered, curated, cancels>>

GatewayStep ==
  /\ Running /\ CallStep
  /\ UNCHANGED <<toolVars, memoryVars, toolTurnVars, configVars,
                 phase, turn, resumed, staged, wanted, cancels>>

ExecutorStep ==
  /\ Running /\ ToolStep
  /\ UNCHANGED <<callVars, memoryVars, toolTurnVars, configVars,
                 phase, turn, resumed, staged, wanted, cancels>>

-----------------------------------------------------------------------------
(***************************************************************************)
(* request_abort: the worker is cancelled at its await, and the process    *)
(* stops.                                                                  *)
(***************************************************************************)
CancelDuringCall ==
  /\ Running /\ cancels < MaxCancels
  /\ CancelCall
  /\ cancels' = cancels + 1
  /\ EndTurn("down", resumed)
  /\ UNCHANGED <<answered, curated>>

CancelDuringTool ==
  /\ phase = "tools" /\ cancels < MaxCancels
  /\ CancelTool
  /\ cancels' = cancels + 1
  /\ UNCHANGED <<callVars, memoryVars, toolTurnVars, configVars, phase, turn, resumed, staged, wanted>>

ToolCancelled ==
  /\ phase = "tools" /\ result = "cancelled"
  /\ EndTurn("down", resumed)
  /\ UNCHANGED <<seen, nextSeq, call, gate, sender, screen, reply, owners,
                 answered, curated, cancels>>

Turn ==
  \/ ReloadConfig \/ NothingDue \/ AskCurator \/ Curated \/ CuratorErrs
  \/ AskChat \/ Answer \/ ModelWantsTools \/ RoundLimit
  \/ RunCall \/ DuplicateCall \/ TakeResult \/ Continue
  \/ Rejected \/ CallFailed \/ ToolCancelled
  \/ GatewayStep \/ ExecutorStep

Next ==
  \/ EditConfig \/ StartProcess \/ Boot \/ BootFails \/ BeginTurn \/ Leave
  \/ Turn \/ CancelDuringCall \/ CancelDuringTool

Spec == Init /\ [][Next]_vars

\* Waiting for the person who approves, or for a hook of a tool, which has no
\* deadline.
Waiting == gate = "decide" \/ step \in {"prepare", "commit", "revert", "recover"}

\* The SDK and the executor have deadlines, so every other step is taken.
FairSpec == Spec /\ WF_vars(Turn /\ ~Waiting)

-----------------------------------------------------------------------------
(***************************************************************************)
(* What is checked.                                                        *)
(***************************************************************************)
\* Every variable has its type: no attempt is beyond max_attempts, no round
\* beyond max_tool_rounds.
TypeOK ==
  /\ seen \subseteq CallId /\ DOMAIN nextSeq \subseteq TurnId
  /\ {call, sender, screen, approved, sent} \subseteq Payloads \cup {None}
  /\ gate \in Gate /\ reply \in Reply
  /\ owners \subseteq CallId \X TurnId
  /\ tool \in ToolKind \cup {"none"} /\ step \in Step
  /\ wrote \in BOOLEAN /\ shielded \in BOOLEAN
  /\ effect \in Effect /\ result \in Result
  /\ phase \in Phase /\ turn \in 0..MaxTurns
  /\ resumed \in BOOLEAN /\ pending \in BOOLEAN /\ staged \in BOOLEAN
  /\ answered \in 0..(Earlier + MaxTurns) /\ curated \in 0..answered
  /\ round \in 0..MaxRounds
  /\ ToSet(batch) \subseteq ToolId /\ seenCalls \subseteq ToolId
  /\ {disk, snapshot.revision, built.revision} \subseteq Revision
  /\ parsed \in Revision \ Unreadable /\ {snapshot.settings, built.settings} \subseteq Good
  /\ required \in BOOLEAN /\ wanted \in Good \cup {None}

\* A physical request is made.
Sends == gate # "await" /\ gate' = "await"

\* With debugging on, what is sent is the very payload that was approved, in
\* its attempt: a retry and a continuation need an approval of their own
\* (ModelCallGateway._complete_assigned).
SendsAreApproved == [][Debug /\ Sends => sender' = approved]_vars

\* The physical requests of a turn are numbered without a gap: a retry keeps
\* the number and counts the attempt, another call has the next number of its
\* turn id and starts at attempt 1 (CallIdentityAllocator, _complete_assigned).
Follows(p, q) ==
  IF p # None /\ p.id = q.id
    THEN q = [p EXCEPT !.attempt = @ + 1]
    ELSE q.attempt = 1 /\ q.seq = IF p # None /\ q.turn = p.turn THEN p.seq + 1 ELSE 1

SendsAreNumbered == [][Sends => Follows(sent, sender')]_vars

\* Within one process no call id is sent for two turns, whatever was reloaded,
\* rejected or retried between them (CallIdentityAllocator.assign).
OneTurnPerCall ==
  \A o, p \in owners : o[1] = p[1] => o[2] = p[2]

\* Everything a turn sends was built from the snapshot the turn is recorded
\* with, even if the configuration was edited, broken or only half built
\* meanwhile; and that snapshot is what was on disk when the turn began, unless
\* an edit fell between the two readings of this or of the last load that
\* published (AgentApplication._reload_config, load_config).
Torn == snapshot.settings # snapshot.revision

OneRevision ==
  sent # None =>
    /\ sent.config = snapshot
    /\ wanted = None \/ Torn \/ snapshot.settings = wanted

\* When the model is asked again, the results of the calls of a response follow
\* it one by one in the order of the calls, there are no other results, and no
\* call id of the turn has run twice (run_turn's tool_events).
IsCalls(i) == i \in DOMAIN events /\ events[i].kind = "calls"
IsResult(j) == j \in DOMAIN events /\ events[j].kind = "result"

CallsAreAnswered ==
  phase = "ask" =>
    /\ \A i \in DOMAIN events : IsCalls(i) =>
         \A k \in DOMAIN events[i].ids :
           IsResult(i + k) /\ events[i + k].ids = <<events[i].ids[k]>>
    /\ \A j \in DOMAIN events : IsResult(j) =>
         \E i \in DOMAIN events : IsCalls(i) /\ j - i \in DOMAIN events[i].ids
    /\ \A j, l \in DOMAIN events :
         IsResult(j) /\ IsResult(l) /\ events[j].ids = events[l].ids => j = l

\* When no tool is at work, a write is kept, undone or was never made, and the
\* model is told which; only a recovery that raised, or that a cancellation
\* hit, leaves anything else (ToolExecutor._execute).
WriteIsSettled ==
  step = "free" =>
    /\ result = "success" => effect \in {"none", "kept"}
    /\ result = "failure" => effect \in {"none", "undone"}
    /\ result = "rollback_failed" => effect = "stuck"
    /\ effect \notin {"partial", "done"}
    /\ effect = "torn" => result = "cancelled"

\* A turn that has begun ends, unless it waits for the person or for a hook
\* for good: the attempts and the rounds are limited (_complete_assigned,
\* run_turn).
TurnEnds == Running ~> (~Running \/ []Waiting)

\* Spec 002, BR-008 and SC-013: a rejected turn leaves nothing behind that
\* affects what follows.  So the session can make the curator's call of the
\* next turn (CallIdentityAllocator.assign refuses an id it has seen).
RejectLeavesNoTrace ==
  phase = "curate" /\ gate = "free" /\ reply = "none" => CuratorId \notin seen
=============================================================================
