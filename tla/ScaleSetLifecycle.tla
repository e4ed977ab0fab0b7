-------------------------- MODULE ScaleSetLifecycle --------------------------
(***************************************************************************)
(* main.go and createSessionWithRetry of pkg/github/runners/manager.go:    *)
(* how a run of the program finds or creates the runner scale set, opens   *)
(* the message session on it, and gives both up when it ends.              *)
(*                                                                         *)
(* Process is the set of runs of the program configured with one runner    *)
(* name: a run that ended is followed by another one, and two may overlap  *)
(* when a container is replaced.  GitHub keeps one scale set under that    *)
(* name and one session on it.  At the end of a run two goroutines race:   *)
(* main, which returns when the message loop ends, and the goroutine that  *)
(* waits for the termination signal; closeOnce is all they share.          *)
(***************************************************************************)
EXTENDS Integers, FiniteSets

CONSTANTS
    Process,                        \* the runs of the program
    NoProcess,
    SessionCreationMaxRetryCount    \* 10 in the code

ASSUME NoProcessAssumption == NoProcess \notin Process

ASSUME RetryAssumption == SessionCreationMaxRetryCount \in Nat \ {0}

VARIABLES
    scaleSet,       \* the id of the scale set at GitHub, NoScaleSet if none
    lastId,         \* the id GitHub gave last
    session,        \* the owner of the message session on the scale set
    manages,        \* MANAGE_RUNNER_SCALE_SETS of each run
    stage,          \* where main is
    scaleSetId,     \* runnerScaleSet.Id
    retryCount,     \* of createSessionWithRetry
    canceled,       \* ctx, by a signal or by the deferred stop()
    handler,        \* where the goroutine is that waits for ctx
    once            \* closeOnce: who is in it, or how Close came back

gitHubVars == <<scaleSet, lastId, session>>
shutdownVars == <<canceled, handler, once>>
vars == <<gitHubVars, manages, stage, scaleSetId, retryCount, shutdownVars>>

NoScaleSet == 0

Starting == {"lookingUp", "deleting", "creating", "connecting",
             "openingSession", "sleeping", "takingOver", "recreating",
             "reopening", "sleepingAgain", "initialMessage"}

\* The signal goroutine exists.
Serving == {"serving", "returning", "stopped"}

\* "exited": by the return of main or by os.Exit.
Ended == {"exited", "panicked", "killed"}

TypeOK ==
    /\ scaleSet \in Nat /\ lastId \in Nat
    /\ session \in Process \union {NoProcess}
    /\ manages \in [Process -> BOOLEAN]
    /\ stage \in [Process -> {"off"} \union Starting \union Serving \union Ended]
    /\ scaleSetId \in [Process -> Nat]
    /\ retryCount \in [Process -> 0 .. SessionCreationMaxRetryCount]
    /\ canceled \in [Process -> BOOLEAN]
    /\ handler \in [Process -> {"waiting", "closing", "deleting", "exiting"}]
    /\ once \in [Process -> {"free", "main", "handler", "closed", "failed"}]

Init ==
    /\ scaleSet = NoScaleSet /\ lastId = 0 /\ session = NoProcess
    /\ manages \in [Process -> BOOLEAN]
    /\ stage = [p \in Process |-> "off"]
    /\ scaleSetId = [p \in Process |-> NoScaleSet]
    /\ retryCount = [p \in Process |-> 0]
    /\ canceled = [p \in Process |-> FALSE]
    /\ handler = [p \in Process |-> "waiting"]
    /\ once = [p \in Process |-> "free"]

goto(p, next) == stage' = [stage EXCEPT ![p] = next]

-----------------------------------------------------------------------------
(* GitHub.                                                                 *)

\* Deletes by id, with the session on it.
DeleteRunnerScaleSet(id) ==
    /\ scaleSet = id /\ id # NoScaleSet
    /\ scaleSet' = NoScaleSet /\ session' = NoProcess
    /\ UNCHANGED lastId

\* The name is taken by one scale set at most.
CreateRunnerScaleSet ==
    /\ scaleSet = NoScaleSet
    /\ lastId' = lastId + 1 /\ scaleSet' = lastId + 1
    /\ UNCHANGED session

\* A second session on a scale set is a conflict.
CreateMessageSession(p) ==
    /\ scaleSet = scaleSetId[p] /\ session = NoProcess
    /\ session' = p
    /\ UNCHANGED <<scaleSet, lastId>>

\* GitHub drops the session of a run that is gone.
SessionExpires ==
    /\ session # NoProcess /\ stage[session] \in Ended
    /\ session' = NoProcess
    /\ UNCHANGED <<scaleSet, lastId, manages, stage, scaleSetId, retryCount,
                   shutdownVars>>

-----------------------------------------------------------------------------
(* The start of main.  Its calls take ctx, so they fail once it is done.   *)

Start(p) ==
    /\ stage[p] = "off"
    /\ goto(p, "lookingUp")
    /\ UNCHANGED <<gitHubVars, manages, scaleSetId, retryCount, shutdownVars>>

\* Mutation: an existing scale set is reused whatever the configuration says.
LookUpReuses(p) ==
    /\ stage[p] = "lookingUp" /\ ~canceled[p]
    /\ scaleSetId' = [scaleSetId EXCEPT ![p] = scaleSet]
    /\ goto(p, IF scaleSet = NoScaleSet THEN "creating" ELSE "connecting")
    /\ UNCHANGED <<gitHubVars, manages, retryCount, shutdownVars>>

LookUpScaleSet(p) ==
    /\ stage[p] = "lookingUp" /\ ~canceled[p]
    /\ scaleSetId' = [scaleSetId EXCEPT ![p] = scaleSet]
    /\ goto(p, IF scaleSet = NoScaleSet THEN "creating"
               ELSE IF manages[p] THEN "deleting" ELSE "connecting")
    /\ UNCHANGED <<gitHubVars, manages, retryCount, shutdownVars>>

\* The deletion of an existing scale set, or of one with an active session.
DeleteExisting(p) ==
    /\ stage[p] \in {"deleting", "takingOver"} /\ ~canceled[p]
    /\ DeleteRunnerScaleSet(scaleSetId[p])
    /\ goto(p, IF stage[p] = "deleting" THEN "creating" ELSE "recreating")
    /\ UNCHANGED <<manages, scaleSetId, retryCount, shutdownVars>>

CreateScaleSet(p) ==
    /\ stage[p] \in {"creating", "recreating"} /\ ~canceled[p]
    /\ CreateRunnerScaleSet
    /\ scaleSetId' = [scaleSetId EXCEPT ![p] = lastId + 1]
    /\ retryCount' = [retryCount EXCEPT ![p] = 0]
    /\ goto(p, IF stage[p] = "creating" THEN "connecting" ELSE "reopening")
    /\ UNCHANGED <<manages, shutdownVars>>

\* NewOrkaClient logs in to the Orka cluster.
ConnectToOrka(p) ==
    /\ stage[p] = "connecting" /\ ~canceled[p]
    /\ goto(p, "openingSession")
    /\ UNCHANGED <<gitHubVars, manages, scaleSetId, retryCount, shutdownVars>>

OpenSession(p) ==
    /\ stage[p] \in {"openingSession", "reopening"} /\ ~canceled[p]
    /\ CreateMessageSession(p)
    /\ goto(p, "initialMessage")
    /\ UNCHANGED <<manages, scaleSetId, retryCount, shutdownVars>>

\* Mutation: a conflict is an error as any other answer of GitHub.
ConflictPanics(p) ==
    /\ stage[p] \in {"openingSession", "reopening"} /\ ~canceled[p]
    /\ scaleSet = scaleSetId[p] /\ session # NoProcess
    /\ goto(p, "panicked")
    /\ UNCHANGED <<gitHubVars, manages, scaleSetId, retryCount, shutdownVars>>

\* ErrActiveSession: the first time main takes the scale set over, the second
\* time it panics.
SessionConflict(p) ==
    /\ stage[p] \in {"openingSession", "reopening"} /\ ~canceled[p]
    /\ scaleSet = scaleSetId[p] /\ session # NoProcess
    /\ goto(p, IF stage[p] = "openingSession" THEN "takingOver" ELSE "panicked")
    /\ UNCHANGED <<gitHubVars, manages, scaleSetId, retryCount, shutdownVars>>

\* The pause before the next attempt.
Pause(label) == IF label = "openingSession" THEN "sleeping" ELSE "sleepingAgain"

\* Mutation: the retries are not counted.
SessionFailsUncounted(p) ==
    /\ stage[p] \in {"openingSession", "reopening"}
    /\ goto(p, Pause(stage[p]))
    /\ \/ UNCHANGED gitHubVars
       \/ ~canceled[p] /\ CreateMessageSession(p)
    /\ UNCHANGED <<manages, scaleSetId, retryCount, shutdownVars>>

\* Any other error than an answer of GitHub is retried; the session may have
\* been created.
SessionFails(p) ==
    /\ stage[p] \in {"openingSession", "reopening"}
    /\ retryCount' = [retryCount EXCEPT ![p] = @ + 1]
    /\ goto(p, IF retryCount[p] + 1 < SessionCreationMaxRetryCount
               THEN Pause(stage[p]) ELSE "panicked")
    /\ \/ UNCHANGED gitHubVars
       \/ ~canceled[p] /\ CreateMessageSession(p)
    /\ UNCHANGED <<manages, scaleSetId, shutdownVars>>

\* The 30 seconds are over; no signal cuts them short.
TryAgain(p) ==
    /\ stage[p] \in {"sleeping", "sleepingAgain"}
    /\ goto(p, IF stage[p] = "sleeping" THEN "openingSession" ELSE "reopening")
    /\ UNCHANGED <<gitHubVars, manages, scaleSetId, retryCount, shutdownVars>>

\* Without jobs there is no call to fail, so ctx does not matter.
InitialMessage(p) ==
    /\ stage[p] = "initialMessage"
    /\ goto(p, "serving")
    /\ UNCHANGED <<gitHubVars, manages, scaleSetId, retryCount, shutdownVars>>

\* Any call of the start comes back as an error, done or not, and main panics.
StartPanics(p) ==
    /\ stage[p] \in Starting \ {"sleeping", "sleepingAgain"}
    /\ \/ UNCHANGED gitHubVars
       \/ /\ stage[p] \in {"deleting", "takingOver"} /\ ~canceled[p]
          /\ DeleteRunnerScaleSet(scaleSetId[p])
       \/ /\ stage[p] \in {"creating", "recreating"} /\ ~canceled[p]
          /\ CreateRunnerScaleSet
    /\ goto(p, "panicked")
    /\ UNCHANGED <<manages, scaleSetId, retryCount, shutdownVars>>

-----------------------------------------------------------------------------
(* The end of a run.                                                       *)

Signal(p) ==
    /\ stage[p] \in Starting \union {"serving"} /\ ~canceled[p]
    /\ canceled' = [canceled EXCEPT ![p] = TRUE]
    /\ UNCHANGED <<gitHubVars, manages, stage, scaleSetId, retryCount, handler,
                   once>>

\* StartProcessingMessages returns: ctx is done, or a call has failed.
RunReturns(p) ==
    /\ stage[p] = "serving"
    /\ goto(p, "returning")
    /\ UNCHANGED <<gitHubVars, manages, scaleSetId, retryCount, shutdownVars>>

MainCloses(p) ==
    /\ stage[p] = "returning" /\ once[p] = "free"
    /\ once' = [once EXCEPT ![p] = "main"]
    /\ UNCHANGED <<gitHubVars, manages, stage, scaleSetId, retryCount, canceled,
                   handler>>

HandlerWakes(p) ==
    /\ stage[p] \in Serving /\ canceled[p] /\ handler[p] = "waiting"
    /\ handler' = [handler EXCEPT ![p] = "closing"]
    /\ UNCHANGED <<gitHubVars, manages, stage, scaleSetId, retryCount, canceled,
                   once>>

HandlerCloses(p) ==
    /\ stage[p] \in Serving /\ handler[p] = "closing" /\ once[p] = "free"
    /\ once' = [once EXCEPT ![p] = "handler"]
    /\ UNCHANGED <<gitHubVars, manages, stage, scaleSetId, retryCount, canceled,
                   handler>>

\* Mutation: Close tries until GitHub confirms the deletion of the session.
CloseInsists(p) ==
    /\ stage[p] \in Serving /\ once[p] \in {"main", "handler"}
    /\ session = p
    /\ session' = NoProcess
    /\ once' = [once EXCEPT ![p] = "closed"]
    /\ UNCHANGED <<scaleSet, lastId, manages, stage, scaleSetId, retryCount,
                   canceled, handler>>

\* DeleteMessageSession, which has 30 seconds, succeeds or not; the session may
\* be gone with its scale set.
CloseReturns(p) ==
    /\ stage[p] \in Serving /\ once[p] \in {"main", "handler"}
    /\ \/ /\ session = p
          /\ session' = NoProcess
          /\ once' = [once EXCEPT ![p] = "closed"]
       \/ /\ UNCHANGED session
          /\ once' = [once EXCEPT ![p] = "failed"]
    /\ UNCHANGED <<scaleSet, lastId, manages, stage, scaleSetId, retryCount,
                   canceled, handler>>

\* Mutation: closeOnce lets the second caller pass while the first is in Close.
MainReturnsEarly(p) ==
    /\ stage[p] = "returning" /\ once[p] # "free"
    /\ canceled' = [canceled EXCEPT ![p] = TRUE]
    /\ goto(p, "stopped")
    /\ UNCHANGED <<gitHubVars, manages, scaleSetId, retryCount, handler, once>>

\* The deferred functions: closeOnce is through, stop() cancels ctx.
MainReturns(p) ==
    /\ stage[p] = "returning" /\ once[p] \in {"closed", "failed"}
    /\ canceled' = [canceled EXCEPT ![p] = TRUE]
    /\ goto(p, "stopped")
    /\ UNCHANGED <<gitHubVars, manages, scaleSetId, retryCount, handler, once>>

\* The return of main ends the process, whatever its goroutines are doing.
MainExits(p) ==
    /\ stage[p] = "stopped"
    /\ goto(p, "exited")
    /\ UNCHANGED <<gitHubVars, manages, scaleSetId, retryCount, shutdownVars>>

HandlerProceeds(p) ==
    /\ stage[p] \in Serving /\ handler[p] = "closing"
    /\ once[p] \in {"closed", "failed"}
    /\ handler' = [handler EXCEPT ![p] = IF manages[p] THEN "deleting" ELSE "exiting"]
    /\ UNCHANGED <<gitHubVars, manages, stage, scaleSetId, retryCount, canceled,
                   once>>

\* Mutation: the scale set of that name is deleted, whatever its id.
HandlerDeletesByName(p) ==
    /\ stage[p] \in Serving /\ handler[p] = "deleting"
    /\ DeleteRunnerScaleSet(scaleSet)
    /\ handler' = [handler EXCEPT ![p] = "exiting"]
    /\ UNCHANGED <<manages, stage, scaleSetId, retryCount, canceled, once>>

HandlerDeletes(p) ==
    /\ stage[p] \in Serving /\ handler[p] = "deleting"
    /\ DeleteRunnerScaleSet(scaleSetId[p])
    /\ handler' = [handler EXCEPT ![p] = "exiting"]
    /\ UNCHANGED <<manages, stage, scaleSetId, retryCount, canceled, once>>

\* The error is logged.
HandlerDeleteFails(p) ==
    /\ stage[p] \in Serving /\ handler[p] = "deleting"
    /\ handler' = [handler EXCEPT ![p] = "exiting"]
    /\ UNCHANGED <<gitHubVars, manages, stage, scaleSetId, retryCount, canceled,
                   once>>

HandlerExits(p) ==
    /\ stage[p] \in Serving /\ handler[p] = "exiting"
    /\ goto(p, "exited")
    /\ UNCHANGED <<gitHubVars, manages, scaleSetId, retryCount, shutdownVars>>

\* The message that is being handled comes to AcquireJobs or DeleteMessage after
\* the signal goroutine has closed the manager: m.session is nil.
NilSessionPanics(p) ==
    /\ stage[p] = "serving" /\ once[p] = "closed"
    /\ goto(p, "panicked")
    /\ UNCHANGED <<gitHubVars, manages, scaleSetId, retryCount, shutdownVars>>

\* The host, the container or the kernel ends the process.
Kill(p) ==
    /\ stage[p] \in Starting \union Serving
    /\ goto(p, "killed")
    /\ UNCHANGED <<gitHubVars, manages, scaleSetId, retryCount, shutdownVars>>

-----------------------------------------------------------------------------

StartStep(p) ==
    \/ LookUpScaleSet(p)
    \/ DeleteExisting(p)
    \/ CreateScaleSet(p)
    \/ ConnectToOrka(p)
    \/ OpenSession(p)
    \/ SessionConflict(p)
    \/ TryAgain(p)
    \/ InitialMessage(p)

StartFailure(p) == SessionFails(p) \/ StartPanics(p)

CloseStep(p) == MainCloses(p) \/ HandlerCloses(p) \/ CloseReturns(p)

MainEnd(p) == MainReturns(p) \/ MainExits(p)

HandlerStep(p) ==
    \/ HandlerWakes(p)
    \/ HandlerProceeds(p)
    \/ HandlerDeletes(p)
    \/ HandlerDeleteFails(p)
    \/ HandlerExits(p)

Next ==
    \/ SessionExpires
    \/ \E p \in Process :
          \/ Start(p)
          \/ StartStep(p)
          \/ StartFailure(p)
          \/ Signal(p)
          \/ RunReturns(p)
          \/ CloseStep(p)
          \/ MainEnd(p)
          \/ HandlerStep(p)
          \/ NilSessionPanics(p)
          \/ Kill(p)

Spec == Init /\ [][Next]_vars

\* Each goroutine goes on: its calls return, and main leaves the message loop
\* once ctx is done.
MainProgress(p) ==
    \/ StartStep(p)
    \/ StartFailure(p)
    \/ canceled[p] /\ RunReturns(p)
    \/ MainCloses(p)
    \/ once[p] = "main" /\ CloseReturns(p)
    \/ MainEnd(p)

HandlerProgress(p) ==
    \/ HandlerStep(p)
    \/ HandlerCloses(p)
    \/ once[p] = "handler" /\ CloseReturns(p)

Fairness ==
    \A p \in Process : WF_vars(MainProgress(p)) /\ WF_vars(HandlerProgress(p))

FairSpec == Spec /\ Fairness

-----------------------------------------------------------------------------
(* What must hold.                                                         *)

\* A run that ends and deletes its scale set never takes the session of another
\* run away, also when that one has replaced the scale set in the meantime;
\* only a run that reuses what it finds may have moved in.
ExitSparesOtherSessions ==
    [][\A p \in Process :
          handler[p] = "deleting" /\ handler'[p] = "exiting" /\ scaleSet' # scaleSet
              => \/ session \in {p, NoProcess}
                 \/ ~manages[session]]_vars

\* A run that ends in an orderly way leaves no session behind that the next one
\* would run into, whichever of the two goroutines gets to closeOnce first and
\* whichever ends the process, unless GitHub did not confirm the deletion.
ExitedRunLeavesNoSession ==
    \A p \in Process :
        stage[p] = "exited" => session # p \/ once[p] = "failed"

\* A start comes to its end, however its calls fail and whoever interferes.
StartEnds ==
    \A p \in Process : stage[p] \in Starting ~> stage[p] \notin Starting

\* A signal ends the process, at whatever point of its life it comes.
SignalEndsProcess ==
    \A p \in Process : canceled[p] ~> stage[p] \in Ended

-----------------------------------------------------------------------------
(* The inductive invariant behind ExitSparesOtherSessions and              *)
(* ExitedRunLeavesNoSession.                                               *)

\* The run has settled for its scale set.
HasScaleSet(p) ==
    \/ session = p
    \/ stage[p] \in {"connecting", "openingSession", "sleeping", "takingOver",
                     "reopening", "sleepingAgain", "initialMessage"} \union Serving

IdsWereGiven ==
    /\ scaleSet <= lastId
    /\ \A p \in Process :
          /\ scaleSetId[p] <= lastId
          /\ HasScaleSet(p) => scaleSetId[p] # NoScaleSet

\* A session is held on the scale set its owner works with.
SessionIsOnOwnScaleSet ==
    session # NoProcess =>
        /\ scaleSet = scaleSetId[session]
        /\ stage[session] \notin {"off", "lookingUp", "deleting", "creating",
                                  "connecting", "recreating"}

\* A run that manages its scale set has created it, so no two of them share one.
ManagedScaleSetHasOneRun ==
    \A p, q \in Process :
        manages[p] /\ manages[q] /\ HasScaleSet(p) /\ HasScaleSet(q)
          /\ scaleSetId[p] = scaleSetId[q] => p = q

\* Both goroutines are behind closeOnce before they end the process, and the
\* session that was closed is not opened again.
CloseComesFirst ==
    \A p \in Process :
        /\ stage[p] \in {"off"} \union Starting =>
              once[p] = "free" /\ handler[p] = "waiting"
        /\ stage[p] \in {"stopped", "exited"} \/ handler[p] \in {"deleting", "exiting"}
              => once[p] \in {"closed", "failed"}
        /\ once[p] = "closed" => session # p
        /\ handler[p] = "deleting" => manages[p]

\* A start whose retries are used up has ended.
RetriesAreLeft ==
    \A p \in Process : stage[p] \in {"off"} \union Starting
                          => retryCount[p] < SessionCreationMaxRetryCount

LifecycleInv ==
    /\ TypeOK
    /\ RetriesAreLeft
    /\ IdsWereGiven
    /\ SessionIsOnOwnScaleSet
    /\ ManagedScaleSetHasOneRun
    /\ CloseComesFirst

-----------------------------------------------------------------------------
(* What the runs promise each other about the session.                     *)

\* A run has closed once Close came back, whichever goroutine called it.
RunPhase(p) ==
    CASE stage[p] = "off" -> "off"
      [] stage[p] \in Starting -> "starting"
      [] stage[p] \in Serving /\ once[p] \in {"free", "main", "handler"} -> "serving"
      [] stage[p] \in Serving /\ once[p] \in {"closed", "failed"} -> "closed"
      [] stage[p] = "exited" -> "exited"
      [] OTHER -> "broken"

Lease == INSTANCE SessionLease
    WITH holder <- session, phase <- [p \in Process |-> RunPhase(p)]

\* Whatever becomes of scale sets, retries, the two goroutines at the end of a
\* run and the crashes in between, the session is handed on as the lease says.
ImplementsSessionLease == Lease!Spec

-----------------------------------------------------------------------------
(* Runs that follow one another.                                           *)

AtMostOneLive ==
    \A p, q \in Process :
        stage[p] \in Starting \union Serving /\ stage[q] \in Starting \union Serving
            => p = q

\* Every call succeeds but for the conflict of two sessions and what fails
\* because its context is done: runs end by signals and crashes, and by what
\* main makes of a conflict.
CallsSucceed ==
    \A p \in Process :
        /\ StartFailure(p) => SessionConflict(p) \/ canceled[p]
        /\ ~HandlerDeleteFails(p)
        /\ once'[p] # "failed"
        /\ RunReturns(p) => canceled[p]

-----------------------------------------------------------------------------
(* What the documentation says and the code does not do.                   *)

\* README, MANAGE_RUNNER_SCALE_SETS: "When set to true, deletes any existing
\* runner scale set with the same name on startup and deletes the scale set on
\* exit."
ScaleSetIsDeletedOnExit ==
    \A p \in Process :
        stage[p] = "exited" /\ manages[p] => scaleSet # scaleSetId[p]

\* examples/.env: "When false, reuses an existing scale set if found [...] This
\* allows for the runner to pick up where it left off if the previous runner
\* was terminated abnormally."
ExistingScaleSetIsReused ==
    [][(\A p \in Process : ~manages[p]) /\ scaleSet # NoScaleSet
          => scaleSet' = scaleSet]_vars

=============================================================================
