---------------------------- MODULE RunnerManager ----------------------------
(***************************************************************************)
(* pkg/github/runners/manager.go on top of pkg/github/messagequeue: the    *)
(* loop that takes a message from the queue of the scale set, has it       *)
(* processed and deletes it, and the refresh of the session when its token *)
(* has expired.  The three operations of the queue share one shape: call,  *)
(* and when the token has expired refresh the session and call once more.  *)
(*                                                                         *)
(* One run of the program follows another, as in main.go: a run that stops *)
(* forgets its lastMessageId, the next one opens a session of its own.     *)
(* The queue belongs to the scale set and goes with it, when a run that    *)
(* manages its scale set starts or ends, or when one finds a session that  *)
(* an earlier run left open.                                               *)
(*                                                                         *)
(* Runs that overlap are the subject of ScaleSetLifecycle.  The ids of the *)
(* messages go on when a scale set is created again.                       *)
(***************************************************************************)
EXTENDS Integers

CONSTANT MaxMessages    \* GitHub creates no more messages

ASSUME MaxMessagesAssumption == MaxMessages \in Nat

VARIABLES
    created,        \* the id of the latest message GitHub created
    queue,          \* the messages GitHub has not been told to delete
    lost,           \* the ones that went with a scale set before any run processed them
    scaleSet,       \* GitHub has the scale set
    token,          \* the session and its token, as GitHub sees them: "revoked" is none
    manages,        \* MANAGE_RUNNER_SCALE_SETS of this run
    operation,      \* what main or ProcessMessages is doing
    attempt,        \* where that operation is with its call
    lastMessageId,  \* the last message this run handled
    message,        \* the id of the message in hand, 0 for the initial one
    processed,      \* the latest message that some run has handled
    orderly         \* no run so far manages the scale set or left a session behind

gitHubVars == <<created, queue, lost, scaleSet>>
runVars == <<manages, orderly>>
loopVars == <<operation, attempt, lastMessageId, message>>
vars == <<gitHubVars, token, runVars, loopVars, processed>>

\* The operations of the message loop, and the stages of main around it.
Loop == {"receive", "handle", "acquire", "delete"}
Start == {"replacing", "opening", "recreating", "reopening"}

TypeOK ==
    /\ created \in Nat
    /\ queue \in SUBSET (1 .. created) /\ lost \in SUBSET (1 .. created)
    /\ scaleSet \in BOOLEAN /\ manages \in BOOLEAN /\ orderly \in BOOLEAN
    /\ token \in {"valid", "expired", "revoked"}
    /\ operation \in Loop \union Start \union {"closing", "stopped"}
    /\ attempt \in {"first", "refresh", "second"}
    /\ lastMessageId \in Nat
    /\ message \in Nat
    /\ processed \in Nat

\* Before the first run.  There may be a scale set already.
Init ==
    /\ created = 0 /\ queue = {} /\ lost = {}
    /\ scaleSet \in BOOLEAN
    /\ token = "revoked"
    /\ manages = FALSE
    /\ operation = "stopped" /\ attempt = "first"
    /\ lastMessageId = 0 /\ message = 0
    /\ processed = 0
    /\ orderly = TRUE

Maximum(m, n) == IF m > n THEN m ELSE n

-----------------------------------------------------------------------------
(* GitHub.                                                                 *)

MessageCreated ==
    /\ scaleSet /\ created < MaxMessages
    /\ created' = created + 1
    /\ queue' = queue \union {created + 1}
    /\ UNCHANGED <<lost, scaleSet, token, runVars, loopVars, processed>>

TokenExpires ==
    /\ token = "valid"
    /\ token' = "expired"
    /\ UNCHANGED <<gitHubVars, runVars, loopVars, processed>>

\* GitHub has dropped the session: no call and no refresh succeeds any more.
SessionRevoked ==
    /\ token # "revoked"
    /\ token' = "revoked"
    /\ UNCHANGED <<gitHubVars, runVars, loopVars, processed>>

\* The session and the messages go with the scale set.
ScaleSetDeleted ==
    /\ scaleSet' = FALSE
    /\ lost' = lost \union {m \in queue : m > processed}
    /\ queue' = {}
    /\ token' = "revoked"
    /\ UNCHANGED created

\* The message GetMessage returns for lastMessageId.
IsNext(m) ==
    /\ m \in queue /\ m > lastMessageId
    /\ \A n \in queue : n > lastMessageId => m <= n

-----------------------------------------------------------------------------
(* The calls of an operation.                                              *)

\* A call is being made and GitHub accepts its token.
CallAccepted == attempt \in {"first", "second"} /\ token = "valid"

\* MessageQueueTokenExpiredError on the first call.
CallFindsTokenExpired ==
    /\ operation \in {"receive", "acquire", "delete"}
    /\ attempt = "first" /\ token = "expired"
    /\ attempt' = "refresh"
    /\ UNCHANGED <<gitHubVars, token, runVars, operation, lastMessageId, message, processed>>

\* Mutation: the new session is not stored.
RefreshIsForgotten ==
    /\ operation \in {"receive", "acquire", "delete"}
    /\ attempt = "refresh" /\ token # "revoked"
    /\ attempt' = "second"
    /\ UNCHANGED <<gitHubVars, token, runVars, operation, lastMessageId, message, processed>>

\* RefreshMessageSession returns a session with a token of its own.
SessionRefreshed ==
    /\ operation \in {"receive", "acquire", "delete"}
    /\ attempt = "refresh" /\ token # "revoked"
    /\ token' = "valid"
    /\ attempt' = "second"
    /\ UNCHANGED <<gitHubVars, runVars, operation, lastMessageId, message, processed>>

\* Mutation: every error is logged and the loop goes on.
OperationIsLogged ==
    /\ operation \in {"receive", "acquire", "delete"}
    /\ operation' = "receive" /\ attempt' = "first"
    /\ UNCHANGED <<gitHubVars, token, runVars, lastMessageId, message, processed>>

\* Mutation: the same, past the message that could not be handled.
MessageIsSkipped ==
    /\ operation \in {"receive", "acquire", "delete"}
    /\ operation' = "receive" /\ attempt' = "first"
    /\ lastMessageId' = IF operation = "receive" THEN lastMessageId
                        ELSE Maximum(lastMessageId, message)
    /\ UNCHANGED <<gitHubVars, token, runVars, message, processed>>

\* The operation comes back as an error: of a call, of the refresh, or of a
\* token that is refused a second time.  ProcessMessages logs the one of
\* ReceiveNextMessage and calls it again; any other ends the loop.
OperationFails ==
    /\ operation \in {"receive", "acquire", "delete"}
    /\ \/ UNCHANGED queue
       \/ operation = "delete" /\ CallAccepted /\ queue' = queue \ {message}
    /\ operation' = IF operation = "receive" THEN "receive" ELSE "closing"
    /\ attempt' = "first"
    /\ UNCHANGED <<created, lost, scaleSet, token, runVars, lastMessageId, message, processed>>

-----------------------------------------------------------------------------
(* ProcessMessages.                                                        *)

MessageReceived(m) ==
    /\ operation = "receive" /\ CallAccepted
    /\ IsNext(m)
    /\ message' = m
    /\ operation' = "handle" /\ attempt' = "first"
    /\ UNCHANGED <<gitHubVars, token, runVars, lastMessageId, processed>>

\* GetMessage comes back without a message: around the loop.
NoMessageYet ==
    /\ operation = "receive" /\ attempt = "second" /\ CallAccepted
    /\ \A m \in queue : m <= lastMessageId
    /\ attempt' = "first"
    /\ UNCHANGED <<gitHubVars, token, runVars, operation, lastMessageId, message, processed>>

\* Mutation: the message is deleted before its jobs are acquired.
MessageIsDeletedFirst ==
    /\ operation = "handle"
    /\ operation' = "acquire"
    /\ queue' = queue \ {message}
    /\ UNCHANGED <<created, lost, scaleSet, token, runVars, attempt, lastMessageId,
                   message, processed>>

\* The handler has gone through the batch, or there was none to decode.
BatchHandled ==
    /\ operation = "handle"
    /\ operation' = "acquire"
    /\ UNCHANGED <<gitHubVars, token, runVars, attempt, lastMessageId, message, processed>>

\* The handler cannot decode the message or a part of it.
HandlingFails ==
    /\ operation = "handle"
    /\ operation' = "closing"
    /\ UNCHANGED <<gitHubVars, token, runVars, attempt, lastMessageId, message, processed>>

\* AcquireJobs succeeds, or makes no call for an empty list, and the handler
\* returns without an error.  The initial message has no id and is not deleted.
HandlerReturns ==
    /\ operation = "acquire"
    /\ CallAccepted \/ attempt = "first"
    /\ processed' = Maximum(processed, message)
    /\ IF message = 0
       THEN operation' = "receive" /\ UNCHANGED lastMessageId
       ELSE operation' = "delete" /\ lastMessageId' = message
    /\ attempt' = "first"
    /\ UNCHANGED <<gitHubVars, token, runVars, message>>

MessageDeleted ==
    /\ operation = "delete" /\ CallAccepted
    /\ queue' = queue \ {message}
    /\ operation' = "receive" /\ attempt' = "first"
    /\ UNCHANGED <<created, lost, scaleSet, token, runVars, lastMessageId, message, processed>>

-----------------------------------------------------------------------------
(* main: the start and the end of a run.                                   *)

goto(stage) == operation' = stage /\ UNCHANGED <<attempt, lastMessageId, message>>

\* A run that is over keeps nothing.
Over ==
    /\ operation' = "stopped" /\ attempt' = "first"
    /\ lastMessageId' = 0 /\ message' = 0

\* Mutation: a scale set that exists is replaced whatever the configuration says.
StartReplaces ==
    /\ operation = "stopped"
    /\ manages' \in BOOLEAN
    /\ orderly' = (orderly /\ ~manages')
    /\ goto("replacing")
    /\ UNCHANGED <<gitHubVars, token, processed>>

\* The scale set is reused when it exists and the run does not manage it.
StartRun ==
    /\ operation = "stopped"
    /\ manages' \in BOOLEAN
    /\ orderly' = (orderly /\ ~manages')
    /\ goto(IF scaleSet /\ ~manages' THEN "opening" ELSE "replacing")
    /\ UNCHANGED <<gitHubVars, token, processed>>

DeleteScaleSet ==
    /\ operation \in {"replacing", "recreating"} /\ scaleSet
    /\ ScaleSetDeleted
    /\ UNCHANGED <<runVars, loopVars, processed>>

CreateScaleSet ==
    /\ operation \in {"replacing", "recreating"} /\ ~scaleSet
    /\ scaleSet' = TRUE
    /\ goto(IF operation = "replacing" THEN "opening" ELSE "reopening")
    /\ UNCHANGED <<created, queue, lost, token, runVars, processed>>

\* NewRunnerManager has opened the session and made the initial message, 0.
OpenSession ==
    /\ operation \in {"opening", "reopening"} /\ token = "revoked"
    /\ token' = "valid"
    /\ operation' = "handle" /\ attempt' = "first"
    /\ lastMessageId' = 0 /\ message' = 0
    /\ UNCHANGED <<gitHubVars, runVars, processed>>

\* The session is open, and the answer that says so did not come: one more try.
OpenSessionUnanswered ==
    /\ operation \in {"opening", "reopening"} /\ token = "revoked"
    /\ token' = "valid"
    /\ orderly' = FALSE
    /\ UNCHANGED <<gitHubVars, manages, loopVars, processed>>

\* ErrActiveSession: the scale set is replaced, once.
SessionConflict ==
    /\ operation \in {"opening", "reopening"} /\ token # "revoked"
    /\ \/ operation = "opening" /\ goto("recreating")
       \/ operation = "reopening" /\ Over
    /\ UNCHANGED <<gitHubVars, token, manages, processed>>
    /\ orderly' = FALSE

\* A signal ends the loop where it is.  What ProcessMessages still does with the
\* message in hand it might as well have done before the signal.
Signal ==
    /\ operation \in Loop
    /\ goto("closing")
    /\ UNCHANGED <<gitHubVars, token, runVars, processed>>

\* Close deletes the session, or comes back with an error; the process exits.
Exit ==
    /\ operation = "closing"
    /\ token' \in {token, "revoked"}
    /\ orderly' = (orderly /\ token' = "revoked")
    /\ Over
    /\ UNCHANGED <<gitHubVars, manages, processed>>

\* The signal goroutine deletes the scale set first.
ExitManaged ==
    /\ operation = "closing" /\ manages
    /\ ScaleSetDeleted
    /\ Over
    /\ UNCHANGED <<runVars, processed>>

\* The process is ended from outside, or main panics on a call that fails.
Kill ==
    /\ operation # "stopped"
    /\ orderly' = (orderly /\ token = "revoked")
    /\ Over
    /\ UNCHANGED <<gitHubVars, token, manages, processed>>

-----------------------------------------------------------------------------

\* A step of ProcessMessages.
LoopStep ==
    \/ CallFindsTokenExpired
    \/ SessionRefreshed
    \/ OperationFails
    \/ \E m \in queue : MessageReceived(m)
    \/ NoMessageYet
    \/ BatchHandled
    \/ HandlingFails
    \/ HandlerReturns
    \/ MessageDeleted

\* A step of main around it.
MainStep ==
    \/ StartRun
    \/ DeleteScaleSet
    \/ CreateScaleSet
    \/ OpenSession
    \/ OpenSessionUnanswered
    \/ SessionConflict
    \/ Exit
    \/ ExitManaged

GitHubStep == MessageCreated \/ TokenExpires \/ SessionRevoked

Next == LoopStep \/ MainStep \/ GitHubStep \/ Signal \/ Kill

Spec == Init /\ [][Next]_vars

-----------------------------------------------------------------------------
(* Fairness.  A run goes on and another one follows it.  A start, a call,  *)
(* a refresh and the handling of a message may fail or be cut off by the   *)
(* end of the process any number of times, but not always.                 *)

\* The initial message, one that some run has handled before, or a new one.
Kind == {"initial", "repeated", "new"}

InHand(kind) ==
    CASE kind = "initial"  -> message = 0
      [] kind = "repeated" -> message \in 1 .. processed
      [] kind = "new"      -> message > processed

Fairness ==
    /\ WF_vars(LoopStep) /\ WF_vars(MainStep)
    /\ []<>(operation \in Loop)
    /\ \A o \in {"receive", "delete"} :
          /\ SF_vars(operation = o /\ CallFindsTokenExpired)
          /\ SF_vars(operation = o /\ SessionRefreshed)
    /\ SF_vars(\E m \in queue : MessageReceived(m))
    /\ SF_vars(MessageDeleted)
    /\ \A kind \in Kind : /\ SF_vars(InHand(kind) /\ BatchHandled)
                          /\ SF_vars(InHand(kind) /\ HandlerReturns)

FairSpec == Spec /\ Fairness

-----------------------------------------------------------------------------
(* What must hold.                                                         *)

\* No message is overtaken, and GitHub is told to delete what was processed only,
\* over failures and restarts; what goes unprocessed goes with its scale set.  The
\* runs together behave as MessageDelivery says.
Delivery == INSTANCE MessageDelivery WITH removed <- (1 .. created) \ queue

ImplementsMessageDelivery == Delivery!Spec

\* A run never takes up a message again that it has had in hand, so that it does
\* not start a second goroutine for a job, although the queue may still hold it.
MessageOncePerRun ==
    [][operation = "receive" /\ operation' = "handle" => message' > message]_vars

\* As long as no run is told to manage the scale set and each one gives its session
\* back, no message is lost: the next run picks up where the one before left off,
\* after failing calls and a start that was cut off too.
OrderlyRunsLoseNothing == orderly => lost = {}

\* Every message is processed in the end, over expired tokens, failing calls,
\* crashes, restarts and dropped sessions, unless it goes with its scale set or
\* GitHub drops the session of a running loop over and over again.
MessageIsProcessed ==
    <>[](operation \in Loop => token # "revoked") =>
        \A m \in 1 .. MaxMessages : created >= m ~> processed >= m \/ m \in lost

-----------------------------------------------------------------------------
(* The inductive invariant.                                                *)

\* What no run has processed and no scale set has taken along.
Pending == {m \in 1 .. created : m > processed} \ lost

\* It is still in the queue.
UnprocessedIsQueued ==
    /\ lastMessageId <= processed /\ processed <= created
    /\ Pending \subseteq queue
    /\ lost \intersect queue = {}

\* The message in hand is processed already, or is the first one that is pending;
\* it is behind lastMessageId before the next one is received.
MessageInHandIsDue ==
    /\ operation \in {"handle", "acquire"} =>
          \/ message <= processed
          \/ message \in Pending /\ \A m \in Pending : message <= m
    /\ operation = "delete" => message \in 1 .. processed
    /\ operation \in {"receive", "delete"} => message <= lastMessageId

\* An orderly run does not get to a deletion of the scale set.
OrderlyRunKeepsScaleSet ==
    orderly =>
        /\ lost = {}
        /\ operation # "stopped" => ~manages
        /\ operation \notin {"recreating", "reopening"}
        /\ operation = "replacing" => ~scaleSet
        /\ operation \in Start \union {"stopped"} => token = "revoked"

ManagerInv ==
    TypeOK /\ UnprocessedIsQueued /\ MessageInHandIsDue /\ OrderlyRunKeepsScaleSet

=============================================================================
