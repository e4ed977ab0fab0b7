----------------------- MODULE RunnerMessageProcessor -----------------------
(***************************************************************************)
(* pkg/github/runners/message-processor.go, composed with the provisioner, *)
(* the VM tracker and the two services: the goroutine of main that takes   *)
(* one message at a time from the queue, one goroutine per assigned job,   *)
(* one cleanup goroutine per canceled runner context, the goroutine of the *)
(* tracker, and the end of the process.                                    *)
(***************************************************************************)
EXTENDS RunnerProvisioner, VMTracker

VARIABLES
    process,                \* the life of the process
    loop,                   \* where ProcessMessages is
    batch,                  \* the rest of the message that is being handled
    required,               \* requiredRunners less provisionedRunners
    availableJobs,          \* the jobs of the message that can be acquired
    goroutine,              \* the program counter of the goroutine of each job
    runnerContext,          \* the context of each runner and its AfterFunc
    runnerContextCancels,   \* the runners with a stored cancel function
    upstreamCanceledJobs    \* the jobs reported as canceled

processorVars == <<process, loop, batch, required, availableJobs, goroutine,
                   runnerContext, runnerContextCancels, upstreamCanceledJobs>>

vars == <<servicesVars, provisionerVars, trackerVars, processorVars>>

Goroutine == {"none", "retrying", "provisioning", "backingOff", "storing",
              "tracking", "connecting", "executing", "canceling", "removing",
              "done"}

\* "canceled": cancel was called, the AfterFunc runs or has yet to run;
\* "closed": the AfterFunc has returned.
RunnerContext == {"none", "live", "canceled", "closed"}

ProcessorTypeOK ==
    /\ process \in {"running", "terminating", "exited"}
    /\ loop \in {"receiving", "handling", "deleting"}
    /\ batch \in Seq(Event)
    /\ required \in Int
    /\ availableJobs \in SUBSET Job
    /\ goroutine \in [Job -> Goroutine]
    /\ runnerContext \in [VM -> RunnerContext]
    /\ runnerContextCancels \in SUBSET VM
    /\ upstreamCanceledJobs \in SUBSET Job

TypeOK == ServicesTypeOK /\ ProvisionerTypeOK /\ TrackerTypeOK /\ ProcessorTypeOK

Init ==
    /\ ServicesInit /\ ProvisionerInit /\ TrackerInit
    /\ process = "running"
    /\ loop = "receiving"
    /\ batch = <<>>
    /\ required = 0
    /\ availableJobs = {}
    /\ goroutine = [j \in Job |-> "none"]
    /\ runnerContext = [v \in VM |-> "none"]
    /\ runnerContextCancels = {}
    /\ upstreamCanceledJobs = {}

\* The context of main and, with it, the ones of the runners.
ContextDone == process # "running"

RunnerContextDone(v) ==
    runnerContext[v] \in {"canceled", "closed"} \/ ContextDone

goto(j, label) == goroutine' = [goroutine EXCEPT ![j] = label]

-----------------------------------------------------------------------------
(* The message loop.                                                       *)

\* The statistics GitHub puts on a message when it creates it.
TotalAssignedJobs ==
    Cardinality({j \in Job : jobState[j] \in {"assigned", "running"}})

TotalRegisteredRunners == Cardinality({v \in VM : IsRegistered(v)})

\* Mutation: lastMessageId is not advanced and the message comes again.
ReceiveMessageAgain ==
    /\ loop = "receiving" /\ process = "running"
    /\ \E n \in 1 .. Len(events) : batch' = SubSeq(events, 1, n)
    /\ required' = TotalAssignedJobs - TotalRegisteredRunners
    /\ loop' = "handling"
    /\ UNCHANGED <<servicesVars, provisionerVars, trackerVars, process,
                   availableJobs, goroutine, runnerContext,
                   runnerContextCancels, upstreamCanceledJobs>>

\* GitHub makes a message of the first n events; the loop takes it.
ReceiveMessage ==
    /\ loop = "receiving" /\ process = "running"
    /\ \E n \in 1 .. Len(events) :
          /\ batch' = SubSeq(events, 1, n)
          /\ events' = SubSeq(events, n + 1, Len(events))
    /\ required' = TotalAssignedJobs - TotalRegisteredRunners
    /\ loop' = "handling"
    /\ UNCHANGED <<orkaVMs, registration, jobState, runsOn, provisionerVars,
                   trackerVars, process, availableJobs, goroutine,
                   runnerContext, runnerContextCancels, upstreamCanceledJobs>>

Handles(type) ==
    /\ loop = "handling" /\ batch # <<>>
    /\ Head(batch).type = type
    /\ batch' = Tail(batch)
    /\ UNCHANGED <<servicesVars, provisionerVars, process, loop>>

HandleJobAvailable ==
    /\ Handles("JobAvailable")
    /\ availableJobs' = availableJobs \union {Head(batch).job}
    /\ UNCHANGED <<trackerVars, required, goroutine, runnerContext,
                   runnerContextCancels, upstreamCanceledJobs>>

\* A goroutine for the job, unless the message asks for no more runners.
HandleJobAssigned ==
    /\ Handles("JobAssigned")
    /\ IF required > 0
       THEN /\ required' = required - 1
            /\ goto(Head(batch).job, "retrying")
       ELSE UNCHANGED <<required, goroutine>>
    /\ UNCHANGED <<trackerVars, availableJobs, runnerContext,
                   runnerContextCancels, upstreamCanceledJobs>>

\* cancelRunnerContext(v): nothing happens when no cancel function is stored,
\* and little when the context of main was done before.
CancelRunnerContext(v) ==
    IF v \in runnerContextCancels
    THEN /\ runnerContext' = [runnerContext EXCEPT ![v] =
                                 IF @ = "live" THEN "canceled" ELSE @]
         /\ runnerContextCancels' = runnerContextCancels \ {v}
    ELSE UNCHANGED <<runnerContext, runnerContextCancels>>

HandleJobCompleted ==
    /\ Handles("JobCompleted")
    /\ CancelRunnerContext(Head(batch).runner)
    /\ upstreamCanceledJobs' =
          IF Head(batch).result = "canceled"
          THEN upstreamCanceledJobs \union {Head(batch).job}
          ELSE upstreamCanceledJobs
    /\ UNCHANGED <<trackerVars, required, availableJobs, goroutine>>

\* The end of processRunnerMessage: no call is made for an empty list.
AcquireAvailableJobs ==
    /\ loop = "handling" /\ batch = <<>>
    /\ process = "running" \/ availableJobs = {}
    /\ AcquireJobs(availableJobs)
    /\ availableJobs' = {} /\ required' = 0
    /\ loop' = "deleting"
    /\ UNCHANGED <<orkaVMs, registration, runsOn, events, provisionerVars,
                   trackerVars, process, batch, goroutine, runnerContext,
                   runnerContextCancels, upstreamCanceledJobs>>

DeleteMessage ==
    /\ loop = "deleting" /\ process = "running"
    /\ loop' = "receiving"
    /\ UNCHANGED <<servicesVars, provisionerVars, trackerVars, process, batch,
                   required, availableJobs, goroutine, runnerContext,
                   runnerContextCancels, upstreamCanceledJobs>>

\* The loop returns, after a termination signal or because AcquireJobs or
\* DeleteMessage failed, and main returns with it.
ProcessExits ==
    /\ \/ process = "terminating"
       \/ process = "running" /\ loop = "handling" /\ batch = <<>> /\ availableJobs # {}
       \/ process = "running" /\ loop = "deleting"
    /\ process' = "exited"
    /\ UNCHANGED <<servicesVars, provisionerVars, trackerVars, loop, batch,
                   required, availableJobs, goroutine, runnerContext,
                   runnerContextCancels, upstreamCanceledJobs>>

TerminationSignal ==
    /\ process = "running"
    /\ process' = "terminating"
    /\ UNCHANGED <<servicesVars, provisionerVars, trackerVars, loop, batch,
                   required, availableJobs, goroutine, runnerContext,
                   runnerContextCancels, upstreamCanceledJobs>>

-----------------------------------------------------------------------------
(* The goroutine of a job.                                                 *)

messageVars == <<process, loop, batch, required, availableJobs>>

\* Mutation: the retry loop does not ask isUpstreamCanceled.
StartAttemptAnyway(j) ==
    /\ goroutine[j] = "retrying"
    /\ ProvisionRunner(j)
    /\ goto(j, "provisioning")
    /\ UNCHANGED <<servicesVars, vmOf, cleanup, trackerVars, messageVars,
                   runnerContext, runnerContextCancels, upstreamCanceledJobs>>

\* provisionRunnerWithRetry: the head of the loop.
StartAttempt(j) ==
    /\ goroutine[j] = "retrying"
    /\ j \notin upstreamCanceledJobs
    /\ ProvisionRunner(j)
    /\ goto(j, "provisioning")
    /\ UNCHANGED <<servicesVars, vmOf, cleanup, trackerVars, messageVars,
                   runnerContext, runnerContextCancels, upstreamCanceledJobs>>

GiveUpCanceledJob(j) ==
    /\ goroutine[j] = "retrying"
    /\ j \in upstreamCanceledJobs
    /\ goto(j, "removing")
    /\ UNCHANGED <<servicesVars, provisionerVars, trackerVars, messageVars,
                   runnerContext, runnerContextCancels, upstreamCanceledJobs>>

\* Mutation: a job canceled during the attempt makes the goroutine return, and
\* the VM it just got is dropped.
CanceledAttemptIsDropped(j) ==
    /\ goroutine[j] = "provisioning"
    /\ provisioning[j] \in {"succeeded", "failed"}
    /\ goto(j, IF ContextDone \/ j \in upstreamCanceledJobs THEN "removing"
               ELSE IF provisioning[j] = "succeeded" THEN "storing"
               ELSE "backingOff")
    /\ UNCHANGED <<servicesVars, provisionerVars, trackerVars, messageVars,
                   runnerContext, runnerContextCancels, upstreamCanceledJobs>>

\* ProvisionRunner has returned.  With the context done the result is dropped,
\* the VM of a successful attempt included.
AttemptReturns(j) ==
    /\ goroutine[j] = "provisioning"
    /\ provisioning[j] \in {"succeeded", "failed"}
    /\ goto(j, IF ContextDone THEN "removing"
               ELSE IF provisioning[j] = "succeeded" THEN "storing"
               ELSE "backingOff")
    /\ UNCHANGED <<servicesVars, provisionerVars, trackerVars, messageVars,
                   runnerContext, runnerContextCancels, upstreamCanceledJobs>>

\* The select on ctx.Done and the 15 seconds takes either branch when both
\* are ready.
BackOffEnds(j) ==
    /\ goroutine[j] = "backingOff"
    /\ goto(j, "retrying") \/ (ContextDone /\ goto(j, "removing"))
    /\ UNCHANGED <<servicesVars, provisionerVars, trackerVars, messageVars,
                   runnerContext, runnerContextCancels, upstreamCanceledJobs>>

\* context.WithCancel, storeRunnerContextCancel and context.AfterFunc.
StoreRunnerContextCancel(j) ==
    /\ goroutine[j] = "storing"
    /\ runnerContext' = [runnerContext EXCEPT ![vmOf[j]] = "live"]
    /\ runnerContextCancels' = runnerContextCancels \union {vmOf[j]}
    /\ goto(j, "tracking")
    /\ UNCHANGED <<servicesVars, provisionerVars, trackerVars, messageVars,
                   upstreamCanceledJobs>>

TrackRunner(j) ==
    /\ goroutine[j] = "tracking"
    /\ Track(vmOf[j])
    /\ goto(j, "connecting")
    /\ UNCHANGED <<servicesVars, provisionerVars, toCheck, checked, verdict,
                   messageVars, runnerContext, runnerContextCancels,
                   upstreamCanceledJobs>>

\* ExecuteCommands: the SSH session is up and the commands are sent; run.sh
\* comes online if its registration is still there.
CommandsSent(j) ==
    /\ goroutine[j] = "connecting"
    /\ orkaVMs[vmOf[j]] = "up"
    /\ registration' = [registration EXCEPT ![vmOf[j]] =
                           IF @ = "registered" THEN "online" ELSE @]
    /\ goto(j, "executing")
    /\ UNCHANGED <<orkaVMs, jobState, runsOn, events, provisionerVars,
                   trackerVars, messageVars, runnerContext,
                   runnerContextCancels, upstreamCanceledJobs>>

\* executeJobCommands ends with context.Canceled.
ExecutionCanceled(j) ==
    /\ goroutine[j] \in {"connecting", "executing"}
    /\ RunnerContextDone(vmOf[j])
    /\ goto(j, "canceling")
    /\ UNCHANGED <<servicesVars, provisionerVars, trackerVars, messageVars,
                   runnerContext, runnerContextCancels, upstreamCanceledJobs>>

\* The commands end, with exit code zero or an ssh.ExitError.
CommandsExit(j) ==
    /\ goroutine[j] = "executing"
    /\ ~RunnerContextDone(vmOf[j])
    /\ goto(j, "canceling")
    /\ UNCHANGED <<servicesVars, provisionerVars, trackerVars, messageVars,
                   runnerContext, runnerContextCancels, upstreamCanceledJobs>>

\* Mutation: a connection that fails counts as a cancelation of the job.
ConnectionFailsMarks(j) ==
    /\ goroutine[j] \in {"connecting", "executing"}
    /\ ~RunnerContextDone(vmOf[j])
    /\ goto(j, "removing")
    /\ upstreamCanceledJobs' = upstreamCanceledJobs \union {j}
    /\ UNCHANGED <<servicesVars, provisionerVars, trackerVars, messageVars,
                   runnerContext, runnerContextCancels>>

\* isNetworkingFailure: no connection within the attempts, or a dropped one.
\* The context stays live and the VM is left to the JobCompleted webhook.
ConnectionFails(j) ==
    /\ goroutine[j] \in {"connecting", "executing"}
    /\ ~RunnerContextDone(vmOf[j])
    /\ goto(j, "removing")
    /\ UNCHANGED <<servicesVars, provisionerVars, trackerVars, messageVars,
                   runnerContext, runnerContextCancels, upstreamCanceledJobs>>

CancelOwnContext(j) ==
    /\ goroutine[j] = "canceling"
    /\ CancelRunnerContext(vmOf[j])
    /\ goto(j, "removing")
    /\ UNCHANGED <<servicesVars, provisionerVars, trackerVars, messageVars,
                   upstreamCanceledJobs>>

RemoveUpstreamCanceledJob(j) ==
    /\ goroutine[j] = "removing"
    /\ upstreamCanceledJobs' = upstreamCanceledJobs \ {j}
    /\ goto(j, "done")
    /\ UNCHANGED <<servicesVars, provisionerVars, trackerVars, messageVars,
                   runnerContext, runnerContextCancels>>

-----------------------------------------------------------------------------
(* The AfterFunc of a runner context.                                      *)

AfterFuncStarts(v) ==
    /\ runnerContext[v] \in {"live", "canceled"}
    /\ RunnerContextDone(v)
    /\ cleanup[v] = "none"
    /\ CleanupResources(v)
    /\ UNCHANGED <<servicesVars, provisioning, vmOf, trackerVars, processorVars>>

\* CleanupResources has returned, whether or not the VM is gone.
AfterFuncUntracks(v) ==
    /\ runnerContext[v] \in {"live", "canceled"}
    /\ cleanup[v] = "returned"
    /\ Untrack(v)
    /\ runnerContext' = [runnerContext EXCEPT ![v] = "closed"]
    /\ UNCHANGED <<servicesVars, provisionerVars, toCheck, checked, verdict,
                   messageVars, goroutine, runnerContextCancels,
                   upstreamCanceledJobs>>

-----------------------------------------------------------------------------

LoopStep ==
    \/ ReceiveMessage
    \/ HandleJobAvailable
    \/ HandleJobAssigned
    \/ HandleJobCompleted
    \/ AcquireAvailableJobs
    \/ DeleteMessage

GoroutineStep(j) ==
    \/ StartAttempt(j)
    \/ GiveUpCanceledJob(j)
    \/ AttemptReturns(j)
    \/ BackOffEnds(j)
    \/ StoreRunnerContextCancel(j)
    \/ TrackRunner(j)
    \/ CommandsSent(j)
    \/ ExecutionCanceled(j)
    \/ CommandsExit(j)
    \/ ConnectionFails(j)
    \/ CancelOwnContext(j)
    \/ RemoveUpstreamCanceledJob(j)
    \/ ProvisioningStep(j) /\ UNCHANGED <<trackerVars, processorVars>>

AfterFuncStep(v) ==
    \/ AfterFuncStarts(v)
    \/ AfterFuncUntracks(v)
    \/ CleanupStep(v) /\ UNCHANGED <<trackerVars, processorVars>>

\* The goroutines run until the process exits.
ProcessNext ==
    /\ process # "exited"
    /\ \/ LoopStep
       \/ \E j \in Job : GoroutineStep(j)
       \/ \E v \in VM : AfterFuncStep(v)
       \/ TrackerStep /\ UNCHANGED <<provisionerVars, processorVars>>
       \/ ProcessExits
       \/ TerminationSignal

Next ==
    \/ ProcessNext
    \/ ServicesNext /\ UNCHANGED <<provisionerVars, trackerVars, processorVars>>

Spec == Init /\ [][Next]_vars

-----------------------------------------------------------------------------
(* Fairness.                                                               *)

\* Calls return, backoffs and select statements end.  Whether a call succeeds
\* is left open, and so is whether the commands on a registered runner end.
GoroutineProgress(j) ==
    \/ StartAttempt(j)
    \/ GiveUpCanceledJob(j)
    \/ AttemptReturns(j)
    \/ BackOffEnds(j)
    \/ StoreRunnerContextCancel(j)
    \/ TrackRunner(j)
    \/ CommandsSent(j)
    \/ goroutine[j] = "connecting" /\ ConnectionFails(j)
    \/ ExecutionCanceled(j)
    \/ goroutine[j] = "executing" /\ registration[vmOf[j]] = "gone" /\ CommandsExit(j)
    \/ CancelOwnContext(j)
    \/ RemoveUpstreamCanceledJob(j)
    \/ ProvisioningStep(j) /\ UNCHANGED <<trackerVars, processorVars>>

\* GitHub gives a job to a runner that waits for one, ends every job, and drops
\* the registration of a runner whose job is over or that never came up.
ServicesProgress ==
    LET Alone(A) == A /\ UNCHANGED <<provisionerVars, trackerVars, processorVars>>
    IN  /\ \A j \in Job : /\ WF_vars(Alone(\E v \in VM : JobStarted(j, v)))
                          /\ WF_vars(Alone(JobFinished(j, "succeeded")))
        /\ \A v \in VM : WF_vars(Alone(registration[v] # "online" /\ RunnerLeaves(v)))

\* GetRunner and the deletion of an orphan, tried at every tick, do not fail
\* for ever.
TrackerProgress ==
    LET Live(A) == process # "exited" /\ A /\ UNCHANGED <<provisionerVars, processorVars>>
    IN  /\ WF_vars(Live(TrackerStep))
        /\ \A v \in VM : SF_vars(Live(LookUpRunner(v)))
        /\ SF_vars(Live(DeleteOrphan))

\* All that moves beside the message loop.
ProgressBesideLoop ==
    /\ \A j \in Job : WF_vars(process # "exited" /\ GoroutineProgress(j))
    /\ \A v \in VM : WF_vars(process # "exited" /\ AfterFuncStep(v))
    /\ TrackerProgress
    /\ ServicesProgress

Fairness == WF_vars(process # "exited" /\ LoopStep) /\ ProgressBesideLoop

FairSpec == Spec /\ Fairness

-----------------------------------------------------------------------------
(* What must hold.                                                         *)

\* A job never loses its VM under it: while GitHub has a job running, the VM of
\* its runner is up, although the cleanup of that VM and the tracker may be at
\* work on it (cleanupResources, cleanupOrphanedVM).
RunningJobKeepsItsVM ==
    \A j \in Job : jobState[j] = "running" =>
        orkaVMs[runsOn[j]] = "up" /\ registration[runsOn[j]] = "busy"

\* A VM is deleted only when GitHub has no registration for it, so that it
\* cannot be given a job between the decision and the deletion: the lookup of
\* the cleanup, of the force deletion and of the tracker may be long past.
VMDeletedOnlyWithoutRunner ==
    [][\A v \in VM :
          orkaVMs[v] = "up" /\ orkaVMs'[v] = "deleted" => ~IsRegistered(v)]_vars

\* The goroutine of a job is the one that holds the VM: it has yet to hand it
\* to a runner context.
HeldByGoroutine(v) ==
    \E j \in Job :
        /\ vmOf[j] = v
        /\ goroutine[j] \in {"provisioning", "storing"}
        /\ provisioning[j] \in {"deployed", "cleaning", "succeeded"}

\* A cleanup that left the VM behind.
CleanupGaveUp(v) == cleanup[v] = "returned" /\ orkaVMs[v] = "up"

\* Somebody has the VM in hand or has given it up.
AccountedFor(v) ==
    \/ HeldByGoroutine(v)
    \/ runnerContext[v] = "live" /\ v \in runnerContextCancels
    \/ runnerContext[v] = "canceled"
    \/ CleanupGaveUp(v)

\* No VM is lost from sight: while the process runs, every VM whose name it
\* learned is in the hands of its goroutine, or has a runner context that can
\* still be canceled or is being cleaned up, unless a cleanup has given it up.
UpVMIsAccountedFor ==
    process = "running" =>
        \A v \in VM : orkaVMs[v] = "up" => AccountedFor(v)

\* A retry starts only after the VM of the failed attempt has been dealt with:
\* however often deployments and registrations fail, the VMs that are neither
\* deleted nor given up are no more than the goroutines started.
AttemptsDoNotPileUp ==
    Cardinality({v \in VM : orkaVMs[v] = "up" /\ cleanup[v] # "returned"})
        <= Cardinality({j \in Job : goroutine[j] # "none"})

\* The retry loop gives up no job that still needs a runner: an entry of
\* upstreamCanceledJobs, which stays when no goroutine of the job runs or its
\* goroutine is over, and comes again with a message that is handled twice, is
\* one of a job that GitHub has ended (processRunnerMessage, isUpstreamCanceled).
CanceledJobsAreOver ==
    \A j \in upstreamCanceledJobs : jobState[j] = "completed"

\* The pair of a VM and its runner behaves as EphemeralRunner says.
Ephemeral == INSTANCE EphemeralRunner WITH
    vm <- [v \in VM |-> IF orkaVMs[v] = "unnamed" THEN "absent" ELSE orkaVMs[v]],
    runner <- [v \in VM |->
        CASE registration[v] \in {"registered", "online"} -> "idle"
          [] registration[v] = "ending" -> "used"
          [] OTHER -> registration[v]]

ImplementsEphemeralRunner == Ephemeral!Spec

\* A canceled job does not keep the retry loop of its goroutine going, even when
\* every attempt to provision fails.
CanceledJobStopsProvisioning ==
    \A j \in Job :
        (j \in upstreamCanceledJobs
            /\ goroutine[j] \in {"retrying", "provisioning", "backingOff"})
        ~> (goroutine[j] \notin {"retrying", "provisioning", "backingOff"}
            \/ process = "exited")

\* Once the context of a runner is canceled its cleanup ends, also when the
\* runner is still executing a job and its deletion is refused again and again.
CanceledRunnerIsCleanedUp ==
    \A v \in VM : runnerContext[v] = "canceled"
                    ~> (runnerContext[v] = "closed" \/ process = "exited")

\* The tracker forgets a VM that is gone, whatever the order in which Track,
\* Untrack and its own check of an older snapshot touched the map.
TrackerForgetsDeletedVM ==
    \A v \in VM : (orkaVMs[v] = "deleted" /\ IsTracked(v))
                    ~> (~IsTracked(v) \/ process = "exited")

-----------------------------------------------------------------------------
(* What the documentation says and the code does not do.                   *)

\* examples/.env: "VMs are deleted if they do not have a corresponding GitHub
\* runner for 2 consecutive checks."
OrphanedVMIsDeleted ==
    \A v \in VM : (orkaVMs[v] = "up" /\ registration[v] = "gone")
                    ~> (orkaVMs[v] = "deleted" \/ process # "running")

\* README: "Ephemeral runners are spun up on demand": an assigned job gets a
\* goroutine that provisions for it, unless it starts or ends without.
AssignedJobGetsRunner ==
    \A j \in Job : jobState[j] = "assigned"
                    ~> (jobState[j] # "assigned" \/ goroutine[j] # "none"
                        \/ process # "running")

=============================================================================
