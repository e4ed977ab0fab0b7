--------------------------- MODULE ProcessorRestart ---------------------------
(***************************************************************************)
(* The message processor over several runs of the program.  A run keeps    *)
(* nothing on disk: the next one finds the services as they are, knows no  *)
(* VM and no goroutine of the runs before it, starts with an initial       *)
(* message that lists the acquirable jobs (getInitialMessage), and then    *)
(* gets the message again that was handled but not deleted.                *)
(***************************************************************************)
EXTENDS RunnerInvariant

CONSTANT MaxRestarts

ASSUME MaxRestartsAssumption == MaxRestarts \in Nat

VARIABLES
    restarts,       \* the runs that came after the first one
    message,        \* the message handed out by GitHub and not deleted yet
    initialMessage, \* the message in hand is the initial one
    leftBehind      \* the VMs that were up when an earlier run ended

runVars == <<restarts, message, initialMessage, leftBehind>>
restartVars == <<vars, runVars>>

NoMessage == [batch |-> <<>>, required |-> 0]

RestartTypeOK ==
    /\ restarts \in 0 .. MaxRestarts
    /\ message \in [batch : Seq(Event), required : Int]
    /\ initialMessage \in BOOLEAN
    /\ leftBehind \in SUBSET VM

\* The first run finds no job; its initial message carries statistics only.
RestartInit ==
    /\ Init
    /\ restarts = 0
    /\ message = NoMessage
    /\ initialMessage = FALSE
    /\ leftBehind = {}

-----------------------------------------------------------------------------
(* The loop, with the message it has in hand.                              *)

ReceiveNewMessage ==
    /\ message = NoMessage
    /\ ReceiveMessage
    /\ message' = [batch |-> batch', required |-> required']
    /\ UNCHANGED <<restarts, initialMessage, leftBehind>>

\* The run has no lastMessageId yet: the queue starts with the message the
\* run before it did not delete, with the statistics it had then.
ReceiveMessageOfEarlierRun ==
    /\ loop = "receiving" /\ process = "running"
    /\ message # NoMessage
    /\ batch' = message.batch
    /\ required' = message.required
    /\ loop' = "handling"
    /\ UNCHANGED <<servicesVars, provisionerVars, trackerVars, process,
                   availableJobs, goroutine, runnerContext,
                   runnerContextCancels, upstreamCanceledJobs, runVars>>

\* The initial message is dropped; any other one is deleted at GitHub.
FinishMessage ==
    /\ DeleteMessage
    /\ initialMessage' = FALSE
    /\ message' = IF initialMessage THEN message ELSE NoMessage
    /\ UNCHANGED <<restarts, leftBehind>>

\* Mutation: an error of AcquireJobs is logged, and the message is deleted.
AcquireErrorIsLogged ==
    \/ process = "terminating" /\ ProcessExits /\ UNCHANGED runVars
    \/ /\ process = "running" /\ loop = "handling" /\ batch = <<>>
       /\ loop' = "deleting" /\ availableJobs' = {}
       /\ UNCHANGED <<servicesVars, provisionerVars, trackerVars, process, batch,
                      required, goroutine, runnerContext, runnerContextCancels,
                      upstreamCanceledJobs, runVars>>

\* A run ends with its message in hand.  A deletion that failed may have taken
\* effect; none is tried for the initial message.
RunEnds ==
    /\ ProcessExits
    /\ \/ /\ loop = "deleting" /\ initialMessage => process = "terminating"
          /\ UNCHANGED message
       \/ /\ loop = "deleting" /\ ~initialMessage
          /\ message' = NoMessage
    /\ UNCHANGED <<restarts, initialMessage, leftBehind>>

-----------------------------------------------------------------------------

\* The acquirable jobs, in an order of GitHub's choice.
AcquirableJobs == {Available(j) : j \in {k \in Job : jobState[k] = "available"}}

\* Mutation: the tracker of the new run starts with every VM that is up.
TrackerFindsVMs ==
    /\ trackedVMs' = [v \in VM |-> IF orkaVMs[v] = "up" THEN 0 ELSE Untracked]
    /\ toCheck' = {} /\ checked' = NoVM /\ verdict' = "none"

NewTracker ==
    /\ trackedVMs' = [v \in VM |-> Untracked]
    /\ toCheck' = {} /\ checked' = NoVM /\ verdict' = "none"

\* No call of the provisioner is under way.
NewProvisioner ==
    /\ provisioning' = [j \in Job |-> "none"]
    /\ vmOf' = [j \in Job |-> NoVM]
    /\ cleanup' = [v \in VM |-> "none"]

\* No goroutine runs, and the initial message is about to be handled.
NewProcessor ==
    /\ process' = "running" /\ loop' = "handling"
    /\ batch' \in {s \in [1 .. Cardinality(AcquirableJobs) -> AcquirableJobs] :
                      \A e \in AcquirableJobs : \E i \in DOMAIN s : s[i] = e}
    /\ required' = TotalAssignedJobs - TotalRegisteredRunners
    /\ availableJobs' = {}
    /\ goroutine' = [j \in Job |-> "none"]
    /\ runnerContext' = [v \in VM |-> "none"]
    /\ runnerContextCancels' = {}
    /\ upstreamCanceledJobs' = {}

\* A start that finds a session still open, or that manages the scale set, deletes
\* the scale set, and the messages go with it; so does the end of a run that
\* manages it.  Any other start finds them as they were.
ScaleSetStays == UNCHANGED <<events, message>>

ScaleSetIsReplaced == events' = <<>> /\ message' = NoMessage

\* main starts again: nothing but the services is as it was.
Restart ==
    /\ process = "exited" /\ restarts < MaxRestarts
    /\ restarts' = restarts + 1
    /\ leftBehind' = {v \in VM : orkaVMs[v] = "up"}
    /\ initialMessage' = TRUE
    /\ NewTracker /\ NewProvisioner /\ NewProcessor
    /\ ScaleSetStays \/ ScaleSetIsReplaced
    /\ UNCHANGED <<orkaVMs, registration, jobState, runsOn>>

\* Steps that do not touch the message in hand.
OtherStep ==
    \/ /\ process # "exited"
       /\ \/ HandleJobAvailable
          \/ HandleJobAssigned
          \/ HandleJobCompleted
          \/ AcquireAvailableJobs
          \/ \E j \in Job : GoroutineStep(j)
          \/ \E v \in VM : AfterFuncStep(v)
          \/ TrackerStep /\ UNCHANGED <<provisionerVars, processorVars>>
          \/ TerminationSignal
    \/ ServicesNext /\ UNCHANGED <<provisionerVars, trackerVars, processorVars>>

RestartNext ==
    \/ ReceiveNewMessage
    \/ ReceiveMessageOfEarlierRun
    \/ FinishMessage
    \/ RunEnds
    \/ Restart
    \/ OtherStep /\ UNCHANGED runVars

RestartSpec == RestartInit /\ [][RestartNext]_restartVars

-----------------------------------------------------------------------------
(* Fairness: the one of the processor, and a program that is started again *)
(* when it has ended.                                                      *)

RestartLoopStep ==
    \/ ReceiveNewMessage
    \/ ReceiveMessageOfEarlierRun
    \/ FinishMessage
    \/ UNCHANGED runVars /\ \/ HandleJobAvailable
                            \/ HandleJobAssigned
                            \/ HandleJobCompleted
                            \/ AcquireAvailableJobs

FairRestartSpec ==
    /\ RestartSpec
    /\ WF_restartVars(process # "exited" /\ RestartLoopStep)
    /\ WF_restartVars(process = "terminating" /\ RunEnds)
    /\ WF_restartVars(Restart)
    /\ ProgressBesideLoop

-----------------------------------------------------------------------------
(* What must hold.                                                         *)

\* While a run lasts, every VM that is up is accounted for or was left behind
\* by an earlier run, although the run got messages that run had handled
\* (getInitialMessage, ProcessMessages).
OwnVMIsAccountedFor ==
    process = "running" =>
        \A v \in VM \ leftBehind : orkaVMs[v] = "up" => AccountedFor(v)

\* In every run the VMs that it deployed and that are neither deleted nor given
\* up are no more than the goroutines it started: the failed attempts of a retry
\* loop do not add up, nor do the assignments of a message that a run handles
\* again (provisionRunnerWithRetry, the deferred cleanup of ProvisionRunner).
OwnAttemptsDoNotPileUp ==
    Cardinality({v \in VM \ leftBehind : orkaVMs[v] = "up" /\ cleanup[v] # "returned"})
        <= Cardinality({j \in Job : goroutine[j] # "none"})

\* A run never deletes a VM that an earlier run left behind, which may be
\* executing a job: neither the JobCompleted messages that name it nor the
\* tracker make the new run take it for its own.
EarlierVMsAreSpared ==
    [][\A v \in leftBehind : orkaVMs'[v] = orkaVMs[v]]_restartVars

\* A job that is available is acquired in the end, also when a run fails to
\* acquire it or ends in between: the message stays, and the initial message of
\* the next run lists the job once more.
AvailableJobIsAcquired ==
    \A j \in Job : jobState[j] = "available"
                    ~> \/ jobState[j] # "available"
                       \/ process = "exited" /\ restarts = MaxRestarts

\* A VM whose runner has left is deleted in the end, by the cleanup of its
\* context or by the tracker, unless a cleanup gives it up or the run that
\* deployed it ends.
OrphanedVMIsReclaimed ==
    \A v \in VM : (orkaVMs[v] = "up" /\ registration[v] = "gone" /\ v \notin leftBehind)
                    ~> (orkaVMs[v] = "deleted" \/ CleanupGaveUp(v)
                        \/ process # "running")

=============================================================================
