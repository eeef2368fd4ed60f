------------------------------ MODULE ModelCalls ------------------------------
(***************************************************************************)
(* ModelCallGateway: every physical request to the model goes through it.  *)
(* A logical call gets its number from the allocator, which the gateways   *)
(* of the chat model and of the curator share and which outlives a reload  *)
(* of the configuration; every attempt is prepared, guarded, shown for     *)
(* approval if debugging is on, and sent once.                             *)
(*                                                                         *)
(* The provider is what DeepSeekProvider.send_once makes of the SDK: a     *)
(* text, tool calls, or an error that is retryable or not.  Calls never    *)
(* overlap, for their only caller is the turn.                             *)
(***************************************************************************)
EXTENDS Naturals, TLC

CONSTANTS
  None,
  Debug,            \* debug_enabled: every attempt needs an approval
  MaxAttempts       \* retry.max_attempts of the provider

VARIABLES
  seen, nextSeq,    \* CallIdentityAllocator: ids used, next numbers by turn id
  call,             \* the call in progress with its attempt, or None
  gate,             \* where the gateway is in _complete_assigned
  sender,           \* sender_payload, and active_payload of the adapter
  screen,           \* what the presenter holds, or None
  reply,            \* what complete returned or raised, until the caller takes it
  approved,         \* the payload approved last, until it is sent
  sent,             \* history: the payload sent last in this turn
  owners            \* history: the pairs of a call id and a turn it was sent for

callVars == <<seen, nextSeq, call, gate, sender, screen, reply, approved, sent, owners>>

ASSUME CallAssumption == Debug \in BOOLEAN /\ MaxAttempts \in Nat \ {0}

\* A materialized payload, identified by what its digest covers.
Payload(Id, Turn, Config) ==
  [id : Id, turn : Turn, seq : Nat \ {0}, attempt : 1..MaxAttempts, config : Config]

Gate == {"free", "prepare", "decide", "send", "await", "backoff"}

\* "kept" is a retryable error or one whose code begins with PROVIDER_ or
\* NETWORK_, after which a turn keeps its question; "hard" is any other.
Reply == {"none", "text", "tools", "kept", "hard", "rejected", "interrupted"}

CallInit ==
  /\ seen = {} /\ nextSeq = <<>>
  /\ call = None /\ gate = "free" /\ sender = None /\ screen = None
  /\ reply = "none"
  /\ approved = None /\ sent = None /\ owners = {}

-----------------------------------------------------------------------------
(***************************************************************************)
(* complete: the identity, then the attempts.                              *)
(***************************************************************************)
Attempting(c) == call' = c /\ gate' = "prepare"

NextNumber(turn) == IF turn \in DOMAIN nextSeq THEN nextSeq[turn] ELSE 1

TakeNumber(turn) ==
  nextSeq' = [t \in {turn} \cup DOMAIN nextSeq |->
                IF t = turn THEN NextNumber(turn) + 1 ELSE nextSeq[t]]

\* assign refuses an id it has seen; otherwise it gives the turn's next number.
BeginCall(id, turn, config) ==
  /\ gate = "free" /\ reply = "none"
  /\ IF id \in seen
       THEN reply' = "hard" /\ UNCHANGED <<seen, nextSeq, call, gate>>
       ELSE /\ seen' = seen \cup {id}
            /\ TakeNumber(turn)
            /\ Attempting([id |-> id, turn |-> turn, seq |-> NextNumber(turn),
                           attempt |-> 1, config |-> config])
            /\ UNCHANGED reply
  /\ UNCHANGED <<sender, screen, approved, sent, owners>>

\* The call is over; the caller gets the reply.
EndCall(r) == call' = None /\ gate' = "free" /\ reply' = r

\* Mutant: only the first attempt is shown.
PreparedOnce ==
  /\ gate = "prepare"
  /\ IF Debug /\ call.attempt = 1 THEN gate' = "decide" /\ screen' = call
                                  ELSE gate' = "send" /\ UNCHANGED screen
  /\ UNCHANGED <<seen, nextSeq, call, sender, reply, approved, sent, owners>>

\* prepare, materialize_sdk_kwargs, verify_digest, validate_provenance and
\* before_display pass; the presenter takes the payload.
Prepared ==
  /\ gate = "prepare"
  /\ IF Debug THEN gate' = "decide" /\ screen' = call
              ELSE gate' = "send" /\ UNCHANGED screen
  /\ UNCHANGED <<seen, nextSeq, call, sender, reply, approved, sent, owners>>

\* TRACE_INTEGRITY_FAILED or CREDENTIAL_EXPOSURE.
Blocked ==
  /\ gate = "prepare"
  /\ EndCall("hard")
  /\ UNCHANGED <<seen, nextSeq, sender, screen, approved, sent, owners>>

\* validate_payload: the decision is about this payload; the presenter clears.
Approve ==
  /\ gate = "decide"
  /\ approved' = screen
  /\ screen' = None /\ gate' = "send"
  /\ UNCHANGED <<seen, nextSeq, call, sender, reply, sent, owners>>

\* TurnRejected, TurnInterrupted, or DEBUG_PRESENTATION_FAILED.
NotApproved ==
  /\ gate = "decide"
  /\ \E r \in {"rejected", "interrupted", "hard"} : EndCall(r)
  /\ screen' = None
  /\ UNCHANGED <<seen, nextSeq, sender, approved, sent, owners>>

Send ==
  /\ gate = "send"
  /\ sender' = call
  /\ sent' = call /\ approved' = None
  /\ owners' = owners \cup {<<call.id, call.turn>>}
  /\ gate' = "await"
  /\ UNCHANGED <<seen, nextSeq, call, screen, reply>>

\* send_once returns a complete text or well-formed tool calls.
Respond ==
  /\ gate = "await"
  /\ \E r \in {"text", "tools"} : EndCall(r)
  /\ sender' = None
  /\ UNCHANGED <<seen, nextSeq, screen, approved, sent, owners>>

\* Mutant: the last attempt fails like the others.
FailWithoutLimit ==
  /\ gate = "await"
  /\ gate' = "backoff" /\ sender' = None
  /\ UNCHANGED <<seen, nextSeq, call, screen, reply, approved, sent, owners>>

\* NETWORK_FAILED, or a status among retryable_statuses, with attempts left.
FailAgain ==
  /\ gate = "await" /\ call.attempt < MaxAttempts
  /\ gate' = "backoff" /\ sender' = None
  /\ UNCHANGED <<seen, nextSeq, call, screen, reply, approved, sent, owners>>

\* Any error of the provider that is not retried; all their codes keep the
\* question.
FailForGood ==
  /\ gate = "await"
  /\ EndCall("kept")
  /\ sender' = None
  /\ UNCHANGED <<seen, nextSeq, screen, approved, sent, owners>>

\* Mutant: the attempts are not counted.
RetryForever ==
  /\ gate = "backoff"
  /\ Attempting(call)
  /\ UNCHANGED <<seen, nextSeq, sender, screen, reply, approved, sent, owners>>

\* Mutant: every attempt takes a number of its own.
RetryTakesNumber ==
  /\ gate = "backoff"
  /\ Attempting([call EXCEPT !.attempt = @ + 1, !.seq = NextNumber(call.turn)])
  /\ TakeNumber(call.turn)
  /\ UNCHANGED <<seen, sender, screen, reply, approved, sent, owners>>

Retry ==
  /\ gate = "backoff"
  /\ Attempting([call EXCEPT !.attempt = @ + 1])
  /\ UNCHANGED <<seen, nextSeq, sender, screen, reply, approved, sent, owners>>

CallStep ==
  \/ Prepared \/ Blocked \/ Approve \/ NotApproved \/ Send
  \/ Respond \/ FailAgain \/ FailForGood \/ Retry

\* CancelledError at an await: the payload is released, the presenter is not
\* cleared.
CancelCall ==
  /\ gate \in {"decide", "await", "backoff"}
  /\ call' = None /\ gate' = "free" /\ sender' = None
  /\ UNCHANGED <<seen, nextSeq, screen, reply, approved, sent, owners>>
=============================================================================
