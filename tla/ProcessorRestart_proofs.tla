----------------------- MODULE ProcessorRestart_proofs -----------------------
(***************************************************************************)
(* What holds of the message processor over any number of runs.  A step    *)
(* within a run is a step of RunnerMessageProcessor, so the lemmas about   *)
(* those steps are used again; what is new are the restart and the message *)
(* that a run gets from the one before it.                                 *)
(***************************************************************************)
EXTENDS ProcessorRestart, RunnerRefinement_proofs, RunnerAttempts_proofs

\* A restart and the message of an earlier run are the only steps that no
\* single run takes.
LEMMA RunStep ==
    ASSUME [RestartNext]_restartVars
    PROVE  Restart \/ ReceiveMessageOfEarlierRun \/ [Next]_vars
BY DEF RestartNext, ReceiveNewMessage, FinishMessage, RunEnds, OtherStep,
       ReceiveMessage, DeleteMessage, ProcessExits, Next, ProcessNext, LoopStep,
       restartVars

\* A step other than a restart leaves the VMs of earlier runs as they are.
LEMMA LeftBehindIsKept ==
    ASSUME [RestartNext]_restartVars, ~Restart
    PROVE  leftBehind' = leftBehind
BY DEF RestartNext, ReceiveNewMessage, ReceiveMessageOfEarlierRun, FinishMessage,
       RunEnds, runVars, restartVars

\* The initial message is a sequence of available jobs, none of them an assignment.
LEMMA InitialBatch ==
    ASSUME NewProcessor
    PROVE  /\ batch' \in Seq(Event)
           /\ \A k \in 1 .. Len(batch') : batch'[k] \in AcquirableJobs
           /\ \A k \in 1 .. Len(batch'), j \in Job : batch'[k] # Assigned(j)
<1>1. PICK n \in Nat : batch' \in [1 .. n -> AcquirableJobs]
  <2> DEFINE S == {j \in Job : jobState[j] = "available"}
             f == [j \in S |-> Available(j)]
  <2>1. IsFiniteSet(S)
    BY FiniteAssumption, FS_Subset
  <2>2. IsFiniteSet(AcquirableJobs)
    <3>1. f \in Surjection(S, AcquirableJobs)
      BY DEF Surjection, AcquirableJobs
    <3>2. QED
      BY <2>1, <3>1, FS_Surjection
  <2>3. Cardinality(AcquirableJobs) \in Nat
    BY <2>2, FS_CardinalityType
  <2>4. QED
    BY <2>3 DEF NewProcessor
<1>2. AcquirableJobs \subseteq Event
  BY DEF AcquirableJobs, Available, Event
<1>3. batch' \in Seq(Event) /\ Len(batch') = n
  BY <1>1, <1>2, SeqDef, LenProperties
<1>4. \A e \in AcquirableJobs, j \in Job : e # Assigned(j)
  BY DEF AcquirableJobs, Available, Assigned
<1>5. QED
  BY <1>1, <1>3, <1>4

-----------------------------------------------------------------------------
(* The inductive invariant of one run, over all runs.                      *)

\* A restart leaves the services as they are, or GitHub without a message.
LEMMA ServicesAtRestart ==
    ASSUME Restart
    PROVE  /\ UNCHANGED <<orkaVMs, registration, jobState, runsOn>>
           /\ \/ UNCHANGED <<events, message>>
              \/ events' = <<>> /\ message' = NoMessage
           /\ <<>> \in Seq(Event)
<1>1. <<>> \in Seq(Event)
  BY EmptySeq
<1>2. QED
  BY <1>1 DEF Restart, ScaleSetStays, ScaleSetIsReplaced

\* A new run starts with nothing in hand, so whatever the services are up to
\* it owes nothing to any VM.
LEMMA RestartKeepsInvariant ==
    ASSUME IInv, Restart
    PROVE  IInv'
<1>1. batch' \in Seq(Event) /\ required' \in Int
  <2>1. NewProcessor
    BY DEF Restart
  <2>2. QED
    BY <2>1, InitialBatch, StatisticsAreNumbers DEF NewProcessor
<1>2. TypeOK'
  BY <1>1, NoVMAssumption, ServicesAtRestart
  DEF Restart, NewTracker, NewProvisioner, NewProcessor, IInv, TypeOK,
      ServicesTypeOK, ProvisionerTypeOK, TrackerTypeOK, ProcessorTypeOK,
      servicesVars, Provisioning, Cleanup, Verdict, Goroutine, RunnerContext
<1>3. QED
  BY <1>2, NoVMAssumption, ServicesAtRestart
  DEF Restart, NewTracker, NewProvisioner, NewProcessor, IInv, servicesVars,
      UnknownVMIsUntouched, VMHasOneOwner, DeployedVMIsFresh,
      ProvisionedVMHadRunner, TrackedVMHadRunner, DeletingVMHasNoRunner,
      DeletedVMHasNoRunner, RunningJobHasRunner, StoredCancelHasContext,
      IsTracked, IsRegistered

LEMMA OldMessageKeepsInvariant ==
    ASSUME IInv, message.batch \in Seq(Event), message.required \in Int,
           ReceiveMessageOfEarlierRun
    PROVE  IInv'
BY DEF ReceiveMessageOfEarlierRun, IInv, TypeOK, ServicesTypeOK,
       ProvisionerTypeOK, TrackerTypeOK, ProcessorTypeOK, UnknownVMIsUntouched,
       VMHasOneOwner, DeployedVMIsFresh, ProvisionedVMHadRunner,
       TrackedVMHadRunner, DeletingVMHasNoRunner, DeletedVMHasNoRunner,
       RunningJobHasRunner, StoredCancelHasContext, IsTracked, IsRegistered,
       servicesVars, provisionerVars, trackerVars

LEMMA NoMessageIsMessage == NoMessage \in [batch : Seq(Event), required : Int]
<1>1. <<>> \in Seq(Event)
  BY EmptySeq
<1>2. QED
  BY <1>1 DEF NoMessage

LEMMA TypesOverRuns ==
    ASSUME IInv, IInv', RestartTypeOK, [RestartNext]_restartVars
    PROVE  RestartTypeOK'
<1> USE DEF RestartTypeOK, runVars
<1>1. CASE ReceiveNewMessage
  <2>1. batch' \in Seq(Event) /\ required' \in Int
    BY DEF IInv, TypeOK, ProcessorTypeOK
  <2>2. QED
    BY <1>1, <2>1 DEF ReceiveNewMessage
<1>2. CASE FinishMessage
  BY <1>2, NoMessageIsMessage DEF FinishMessage
<1>3. CASE RunEnds
  BY <1>3, NoMessageIsMessage DEF RunEnds
<1>4. CASE Restart
  BY <1>4, MaxRestartsAssumption, ServicesAtRestart, NoMessageIsMessage DEF Restart
<1>5. CASE UNCHANGED runVars
  BY <1>5
<1>6. QED
  BY <1>1, <1>2, <1>3, <1>4, <1>5
  DEF RestartNext, ReceiveMessageOfEarlierRun, restartVars

\* The inductive invariant of one run holds in every run, whatever the runs
\* before it left at GitHub and on the cluster.
THEOREM InvariantOverRuns == RestartSpec => [](IInv /\ RestartTypeOK)
<1>1. RestartInit => IInv /\ RestartTypeOK
  <2> SUFFICES ASSUME RestartInit PROVE IInv /\ RestartTypeOK
    OBVIOUS
  <2>1. IInv
    BY InitInvariant DEF RestartInit
  <2>2. restarts \in 0 .. MaxRestarts
    BY MaxRestartsAssumption DEF RestartInit
  <2>3. RestartTypeOK
    BY <2>2, NoMessageIsMessage DEF RestartInit, RestartTypeOK
  <2>4. QED
    BY <2>1, <2>3
<1>2. IInv /\ RestartTypeOK /\ [RestartNext]_restartVars => IInv' /\ RestartTypeOK'
  <2> SUFFICES ASSUME IInv, RestartTypeOK, [RestartNext]_restartVars
               PROVE  IInv' /\ RestartTypeOK'
    OBVIOUS
  <2>1. CASE Restart
    BY <2>1, RestartKeepsInvariant, TypesOverRuns
  <2>2. CASE ReceiveMessageOfEarlierRun
    BY <2>2, OldMessageKeepsInvariant, TypesOverRuns DEF RestartTypeOK
  <2>3. CASE [Next]_vars
    BY <2>3, NextKeepsInvariant, TypesOverRuns
  <2>4. QED
    BY <2>1, <2>2, <2>3, RunStep
<1>3. QED
  BY <1>1, <1>2, PTL DEF RestartSpec

-----------------------------------------------------------------------------
(* What follows within a run follows over all runs.                        *)

\* No run deletes the VM of a running job, whichever run deployed it.
THEOREM RunningJobsKeepTheirVMsOverRuns == RestartSpec => []RunningJobKeepsItsVM
<1>1. IInv => RunningJobKeepsItsVM
  BY RunningJobIsKept
<1>2. QED
  BY <1>1, InvariantOverRuns, PTL

LEMMA RestartStepRefines ==
    ASSUME IInv, [RestartNext]_restartVars
    PROVE  [Ephemeral!Next]_(Ephemeral!vars)
<1>1. CASE Restart \/ ReceiveMessageOfEarlierRun
  BY <1>1, StutteringStep DEF Restart, ReceiveMessageOfEarlierRun, servicesVars
<1>2. CASE [Next]_vars
  BY <1>2, StepRefines
<1>3. QED
  BY <1>1, <1>2, RunStep

\* Over all runs, each VM and its runner behave as EphemeralRunner says: also a
\* run that is started again registers no second runner for a VM.
THEOREM RefinementOverRuns == RestartSpec => ImplementsEphemeralRunner
<1>1. RestartInit => Ephemeral!Init
  BY DEF RestartInit, Init, ServicesInit, Ephemeral!Init
<1>2. IInv /\ [RestartNext]_restartVars => [Ephemeral!Next]_(Ephemeral!vars)
  BY RestartStepRefines
<1>3. QED
  BY <1>1, <1>2, InvariantOverRuns, PTL
  DEF RestartSpec, ImplementsEphemeralRunner, Ephemeral!Spec

\* No run deletes a VM that GitHub has a registration for, whichever run
\* registered it.
THEOREM NoDeletionUnderRegistrationOverRuns ==
    RestartSpec => VMDeletedOnlyWithoutRunner
<1>1. IInv /\ [RestartNext]_restartVars =>
        [\A v \in VM : orkaVMs[v] = "up" /\ orkaVMs'[v] = "deleted"
                          => ~IsRegistered(v)]_vars
  BY RestartStepRefines, DeletionStep
<1>2. QED
  BY <1>1, InvariantOverRuns, PTL DEF RestartSpec, VMDeletedOnlyWithoutRunner

-----------------------------------------------------------------------------
(* The VMs of earlier runs.                                                *)

\* Nothing in the memory of the run refers to the VM.
Unknown(v) ==
    /\ orkaVMs[v] = "up"
    /\ cleanup[v] = "none"
    /\ runnerContext[v] = "none" /\ v \notin runnerContextCancels
    /\ ~IsTracked(v) /\ v \notin toCheck /\ checked # v
    /\ \A j \in Job : vmOf[j] # v

\* No step of a run makes it known: the names of new VMs are new, and all other
\* steps are about a VM the run knows.
LEMMA UnknownVMStaysUnknown ==
    ASSUME IInv, NEW v \in VM, Unknown(v), [Next]_vars
    PROVE  Unknown(v)'
<1> USE DEF Unknown, IsTracked, IInv, TypeOK, ServicesTypeOK, ProvisionerTypeOK,
        TrackerTypeOK, ProcessorTypeOK, servicesVars, provisionerVars, trackerVars,
        processorVars
<1>1. CASE ServicesNext /\ UNCHANGED <<provisionerVars, trackerVars, processorVars>>
  BY <1>1 DEF ServicesNext, JobQueued, JobAssigned, JobStarted, JobFinished,
              JobCanceledEarly, RunnerLost, RunnerLeaves
<1>2. CASE LoopStep
  BY <1>2 DEF LoopStep, ReceiveMessage, HandleJobAvailable, HandleJobAssigned,
              HandleJobCompleted, Handles, CancelRunnerContext,
              AcquireAvailableJobs, DeleteMessage
<1>3. ASSUME NEW j \in Job, ProvisioningStep(j), UNCHANGED <<trackerVars, processorVars>>
      PROVE  Unknown(v)'
  BY <1>3, NoVMAssumption
  DEF ProvisioningStep, DeploySucceeds, DeployVM, DeployFails, DeployVMFails,
      CreateRunnerSucceeds, ProvisioningFails, ProvisioningCleanedUp
<1>4. ASSUME NEW j \in Job, GoroutineStep(j) PROVE Unknown(v)'
  <2>1. vmOf[j] # v
    OBVIOUS
  <2>2. CASE StoreRunnerContextCancel(j)
    BY <2>1, <2>2 DEF StoreRunnerContextCancel, messageVars
  <2>3. CASE TrackRunner(j)
    BY <2>1, <2>3 DEF TrackRunner, Track, messageVars
  <2>4. CASE CancelOwnContext(j)
    BY <2>1, <2>4 DEF CancelOwnContext, CancelRunnerContext, messageVars
  <2>5. CASE StartAttempt(j) \/ CommandsSent(j)
    BY <2>5 DEF StartAttempt, ProvisionRunner, CommandsSent, messageVars
  <2>6. CASE \/ GiveUpCanceledJob(j) \/ AttemptReturns(j) \/ BackOffEnds(j)
             \/ ExecutionCanceled(j) \/ CommandsExit(j) \/ ConnectionFails(j)
             \/ RemoveUpstreamCanceledJob(j)
    BY <2>6 DEF GiveUpCanceledJob, AttemptReturns, BackOffEnds, ExecutionCanceled,
                CommandsExit, ConnectionFails, RemoveUpstreamCanceledJob, messageVars
  <2>7. QED
    BY <1>3, <1>4, <2>2, <2>3, <2>4, <2>5, <2>6 DEF GoroutineStep
<1>5. ASSUME NEW w \in VM, AfterFuncStep(w) PROVE Unknown(v)'
  BY <1>5
  DEF AfterFuncStep, AfterFuncStarts, CleanupResources, AfterFuncUntracks, Untrack,
      CleanupStep, RunnerDeregistered, DeregistrationTimesOut, ForceDeleteLooksUp,
      ForceDeleteSucceeds, ForceDeleteRefused, ForceDeleteFails, DeleteVMReturns,
      DeleteVM, messageVars
<1>6. CASE TrackerStep /\ UNCHANGED <<provisionerVars, processorVars>>
  BY <1>6, NoVMAssumption
  DEF TrackerStep, Tick, LookUpRunner, LookUpFails, Strike, ResetStrikes,
      DeleteOrphan, DeleteOrphanFails, DeleteVM, UntrackOrphan, Untrack
<1>7. CASE ProcessExits \/ TerminationSignal \/ UNCHANGED vars
  BY <1>7 DEF ProcessExits, TerminationSignal, vars
<1>8. QED
  BY <1>1, <1>2, <1>4, <1>5, <1>6, <1>7 DEF Next, ProcessNext

LeftBehindIsUnknown == \A v \in leftBehind : Unknown(v)

LEMMA LeftBehindStaysUnknown ==
    ASSUME IInv, RestartTypeOK, LeftBehindIsUnknown, [RestartNext]_restartVars
    PROVE  LeftBehindIsUnknown'
<1>1. CASE Restart
  BY <1>1, NoVMAssumption
  DEF Restart, NewTracker, NewProvisioner, NewProcessor, LeftBehindIsUnknown,
      Unknown, IsTracked, Untracked, servicesVars
<1>2. CASE ReceiveMessageOfEarlierRun
  BY <1>2 DEF ReceiveMessageOfEarlierRun, LeftBehindIsUnknown, Unknown, IsTracked,
              servicesVars, provisionerVars, trackerVars, runVars
<1>3. CASE [Next]_vars /\ ~Restart
  <2>1. UNCHANGED leftBehind
    BY <1>3, LeftBehindIsKept
  <2>2. QED
    BY <1>3, <2>1, UnknownVMStaysUnknown DEF LeftBehindIsUnknown, RestartTypeOK
<1>4. QED
  BY <1>1, <1>2, <1>3, RunStep

\* No run touches a VM that a run before it left behind: neither a message that
\* names it nor the tracker brings the program to delete it.
THEOREM EarlierVMsAreLeftAlone == RestartSpec => EarlierVMsAreSpared
<1>1. RestartInit => LeftBehindIsUnknown
  BY DEF RestartInit, LeftBehindIsUnknown
<1>2. IInv /\ RestartTypeOK /\ LeftBehindIsUnknown /\ [RestartNext]_restartVars
         => LeftBehindIsUnknown'
  BY LeftBehindStaysUnknown
<1>3. IInv /\ RestartTypeOK /\ LeftBehindIsUnknown /\ [RestartNext]_restartVars
         => [\A v \in leftBehind : orkaVMs'[v] = orkaVMs[v]]_restartVars
  <2> SUFFICES ASSUME IInv, RestartTypeOK, LeftBehindIsUnknown,
                      [RestartNext]_restartVars, NEW v \in leftBehind
               PROVE  orkaVMs'[v] = orkaVMs[v]
    OBVIOUS
  <2>1. CASE Restart \/ ReceiveMessageOfEarlierRun
    BY <2>1 DEF Restart, ReceiveMessageOfEarlierRun, servicesVars
  <2>2. CASE [Next]_vars
    BY <2>2, UnknownVMStaysUnknown DEF LeftBehindIsUnknown, Unknown, RestartTypeOK
  <2>3. QED
    BY <2>1, <2>2, RunStep
<1>4. QED
  BY <1>1, <1>2, <1>3, InvariantOverRuns, PTL DEF RestartSpec, EarlierVMsAreSpared

-----------------------------------------------------------------------------
(* The account of the VMs, over messages that are handled twice.  A run    *)
(* that gets the message of an earlier run has started no goroutine yet,   *)
(* so that the assignments in it start the only ones of their jobs.        *)

AllIdle == \A j \in Job : goroutine[j] = "none"

NoAssignment == \A j \in Job, k \in 1 .. Len(batch) : batch[k] # Assigned(j)

OldMessageComesFirst ==
    /\ initialMessage => loop # "receiving" /\ NoAssignment /\ AllIdle
    /\ loop = "receiving" /\ message # NoMessage => AllIdle

MessageAssignsOnce ==
    \A j \in Job :
        /\ \A k, l \in 1 .. Len(message.batch) :
              message.batch[k] = Assigned(j) /\ message.batch[l] = Assigned(j) => k = l
        /\ \A k \in 1 .. Len(events), l \in 1 .. Len(message.batch) :
              ~(events[k] = Assigned(j) /\ message.batch[l] = Assigned(j))
        /\ \A k \in 1 .. Len(message.batch) : message.batch[k] = Assigned(j) =>
              jobState[j] \in {"assigned", "running", "completed"}

\* Only the handling of an assignment starts a goroutine.
LEMMA IdleGoroutinesStayIdle ==
    ASSUME IInv, AllIdle, [Next]_vars, HandleJobAssigned => NoAssignment
    PROVE  AllIdle'
<1>1. CASE HandleJobAssigned
  <2>1. batch \in Seq(Event) /\ batch # <<>> /\ Head(batch).type = "JobAssigned"
    BY <1>1 DEF HandleJobAssigned, Handles, IInv, TypeOK, ProcessorTypeOK
  <2>2. Head(batch) = batch[1] /\ Head(batch) \in Event /\ Len(batch) \in Nat \ {0}
    BY <2>1, HeadTailProperties, EmptySeq, LenProperties
  <2>3. PICK i \in Job : batch[1] = Assigned(i)
    BY <2>1, <2>2 DEF Event, Assigned
  <2>4. QED
    BY <1>1, <2>2, <2>3 DEF NoAssignment
<1>2. ASSUME NEW j \in Job, GoroutineStep(j) PROVE AllIdle'
  BY <1>2
  DEF AllIdle, GoroutineStep, StartAttempt, GiveUpCanceledJob, AttemptReturns,
      BackOffEnds, StoreRunnerContextCancel, TrackRunner, CommandsSent,
      ExecutionCanceled, CommandsExit, ConnectionFails, CancelOwnContext,
      RemoveUpstreamCanceledJob, processorVars
<1>3. ASSUME NEW v \in VM, AfterFuncStep(v) PROVE AllIdle'
  BY <1>3 DEF AllIdle, AfterFuncStep, AfterFuncStarts, AfterFuncUntracks, processorVars
<1>4. CASE \/ ReceiveMessage \/ HandleJobAvailable \/ HandleJobCompleted
           \/ AcquireAvailableJobs \/ DeleteMessage \/ ProcessExits
           \/ TerminationSignal \/ UNCHANGED processorVars \/ UNCHANGED vars
  BY <1>4
  DEF AllIdle, ReceiveMessage, HandleJobAvailable, HandleJobCompleted,
      AcquireAvailableJobs, DeleteMessage, ProcessExits, TerminationSignal,
      processorVars, vars
<1>5. QED
  BY <1>1, <1>2, <1>3, <1>4 DEF Next, ProcessNext, LoopStep

\* A batch only gets shorter while a message is handled.
LEMMA NoAssignmentStays ==
    ASSUME IInv, NoAssignment, OtherStep
    PROVE  NoAssignment'
<1>1. CASE HandleJobAvailable \/ HandleJobAssigned \/ HandleJobCompleted
  <2>1. batch \in Seq(Event) /\ batch # <<>> /\ batch' = Tail(batch)
    BY <1>1 DEF HandleJobAvailable, HandleJobAssigned, HandleJobCompleted, Handles,
                IInv, TypeOK, ProcessorTypeOK
  <2>2. /\ Len(batch') = Len(batch) - 1 /\ Len(batch) \in Nat
        /\ \A k \in 1 .. Len(batch') : batch'[k] = batch[k + 1]
    BY <2>1, HeadTailProperties, EmptySeq, LenProperties
  <2>3. ASSUME NEW j \in Job, NEW k \in 1 .. Len(batch') PROVE batch'[k] # Assigned(j)
    <3>1. k + 1 \in 1 .. Len(batch) /\ batch'[k] = batch[k + 1]
      BY <2>2
    <3>2. QED
      BY <3>1 DEF NoAssignment
  <2>4. QED
    BY <2>3 DEF NoAssignment, Assigned
<1>2. CASE ~(HandleJobAvailable \/ HandleJobAssigned \/ HandleJobCompleted)
  <2>1. UNCHANGED batch
    BY <1>2 DEF OtherStep, AcquireAvailableJobs, GoroutineStep, StartAttempt,
      GiveUpCanceledJob, AttemptReturns, BackOffEnds, StoreRunnerContextCancel,
      TrackRunner, CommandsSent, ExecutionCanceled, CommandsExit, ConnectionFails,
      CancelOwnContext, RemoveUpstreamCanceledJob, AfterFuncStep, AfterFuncStarts,
      AfterFuncUntracks, TerminationSignal, processorVars, messageVars
  <2>2. QED
    BY <2>1 DEF NoAssignment, Assigned
<1>3. QED
  BY <1>1, <1>2

LEMMA OtherStepIsNext ==
    ASSUME OtherStep
    PROVE  /\ Next
           /\ loop' = loop \/ loop' = "deleting"
           /\ HandleJobAssigned => loop = "handling"
BY DEF OtherStep, Next, ProcessNext, LoopStep, HandleJobAvailable,
      HandleJobAssigned, HandleJobCompleted, Handles, AcquireAvailableJobs,
      GoroutineStep, StartAttempt, GiveUpCanceledJob, AttemptReturns, BackOffEnds,
      StoreRunnerContextCancel, TrackRunner, CommandsSent, ExecutionCanceled,
      CommandsExit, ConnectionFails, CancelOwnContext, RemoveUpstreamCanceledJob,
      AfterFuncStep, AfterFuncStarts, AfterFuncUntracks, TerminationSignal,
      processorVars, messageVars

LEMMA OtherStepIsRunStep ==
    ASSUME OtherStep
    PROVE  ServicesNext \/ (ProcessNext /\ ~ReceiveMessage)
<1>1. ~ReceiveMessage
  BY OtherStepIsNext DEF ReceiveMessage
<1>2. QED
  BY <1>1 DEF OtherStep, ProcessNext, LoopStep

LEMMA OldMessageStaysFirst ==
    ASSUME IInv, OldMessageComesFirst, [RestartNext]_restartVars
    PROVE  OldMessageComesFirst'
<1>1. CASE ReceiveNewMessage \/ ReceiveMessageOfEarlierRun
  BY <1>1 DEF ReceiveNewMessage, ReceiveMessage, ReceiveMessageOfEarlierRun, runVars,
              OldMessageComesFirst
<1>2. CASE FinishMessage
  BY <1>2 DEF FinishMessage, DeleteMessage, OldMessageComesFirst, AllIdle, NoMessage
<1>3. CASE RunEnds
  BY <1>3 DEF RunEnds, ProcessExits, OldMessageComesFirst, AllIdle, NoAssignment,
              Assigned
<1>4. CASE Restart
  BY <1>4, InitialBatch DEF Restart, NewProcessor, OldMessageComesFirst, AllIdle,
                            NoAssignment, Assigned
<1>5. CASE OtherStep /\ UNCHANGED runVars
  <2>1. initialMessage => NoAssignment'
    BY <1>5, NoAssignmentStays DEF OldMessageComesFirst
  <2>2. initialMessage => AllIdle'
    BY <1>5, OtherStepIsNext, IdleGoroutinesStayIdle DEF OldMessageComesFirst
  <2>3. loop = "receiving" /\ message # NoMessage => AllIdle'
    BY <1>5, OtherStepIsNext, IdleGoroutinesStayIdle DEF OldMessageComesFirst
  <2>4. QED
    BY <1>5, <2>1, <2>2, <2>3, OtherStepIsNext
    DEF OldMessageComesFirst, runVars, NoMessage
<1>6. CASE UNCHANGED restartVars
  BY <1>6 DEF restartVars, vars, processorVars, runVars, OldMessageComesFirst,
              AllIdle, NoAssignment, Assigned, NoMessage
<1>7. QED
  BY <1>1, <1>2, <1>3, <1>4, <1>5, <1>6 DEF RestartNext

\* The services move a job on and never assign it twice.
LEMMA ServicesMoveJobsOn ==
    ASSUME IInv, ServicesNext
    PROVE  /\ \A j \in Job : jobState[j] \in {"assigned", "running", "completed"} =>
                 jobState'[j] \in {"assigned", "running", "completed"}
           /\ \/ UNCHANGED events
              \/ \E e \in Event :
                    /\ events' = Append(events, e)
                    /\ \A j \in Job : e = Assigned(j) => jobState[j] = "acquired"
<1> USE DEF IInv, TypeOK, ServicesTypeOK
<1>1. ASSUME NEW j \in Job, JobQueued(j) PROVE Available(j) \in Event
  BY DEF Available, Event
<1>2. ASSUME NEW j \in Job, JobAssigned(j) PROVE Assigned(j) \in Event
  BY DEF Assigned, Event
<1>3. ASSUME NEW i \in Job, NEW r \in VM \union {NoVM}, NEW c \in Result,
             events' = Append(events, Completed(i, r, c)),
             jobState' = [jobState EXCEPT ![i] = "completed"]
      PROVE  /\ \A j \in Job : jobState[j] \in {"assigned", "running", "completed"} =>
                   jobState'[j] \in {"assigned", "running", "completed"}
             /\ \E e \in Event :
                    /\ events' = Append(events, e)
                    /\ \A j \in Job : e = Assigned(j) => jobState[j] = "acquired"
  <2>1. Completed(i, r, c) \in Event /\ \A j \in Job : Completed(i, r, c) # Assigned(j)
    BY DEF Completed, Assigned, Event
  <2>2. QED
    BY <1>3, <2>1
<1>4. CASE \E j \in Job : JobQueued(j)
  BY <1>1, <1>4 DEF JobQueued, Available, Assigned
<1>5. CASE \E j \in Job : JobAssigned(j)
  BY <1>2, <1>5 DEF JobAssigned, Assigned
<1>6. ASSUME NEW j \in Job, NEW c \in Result, JobFinished(j, c)
      PROVE  /\ runsOn[j] \in VM \union {NoVM}
             /\ events' = Append(events, Completed(j, runsOn[j], c))
             /\ jobState' = [jobState EXCEPT ![j] = "completed"]
  BY <1>6 DEF JobFinished
<1>7. ASSUME NEW j \in Job, JobCanceledEarly(j) \/ RunnerLost(j)
      PROVE  \E r \in VM \union {NoVM}, c \in Result :
                /\ events' = Append(events, Completed(j, r, c))
                /\ jobState' = [jobState EXCEPT ![j] = "completed"]
  BY <1>7 DEF JobCanceledEarly, RunnerLost, Result
<1>8. CASE (\E j \in Job, v \in VM : JobStarted(j, v)) \/ (\E v \in VM : RunnerLeaves(v))
  BY <1>8 DEF JobStarted, RunnerLeaves
<1>9. QED
  BY <1>3, <1>4, <1>5, <1>6, <1>7, <1>8 DEF ServicesNext

LEMMA MessageKeptByServices ==
    ASSUME IInv, MessageAssignsOnce, ServicesNext, UNCHANGED message
    PROVE  MessageAssignsOnce'
<1>1. CASE UNCHANGED events
  BY <1>1, ServicesMoveJobsOn DEF MessageAssignsOnce, Assigned
<1>2. ASSUME NEW e \in Event, events' = Append(events, e),
             \A j \in Job : e = Assigned(j) => jobState[j] = "acquired"
      PROVE  MessageAssignsOnce'
  <2>1. /\ Len(events) \in Nat /\ Len(events') = Len(events) + 1
        /\ \A k \in 1 .. Len(events') :
              events'[k] = IF k <= Len(events) THEN events[k] ELSE e
    BY <1>2 DEF IInv, TypeOK, ServicesTypeOK
  <2>2. ASSUME NEW j \in Job, NEW k \in 1 .. Len(events'),
               NEW l \in 1 .. Len(message.batch),
               events'[k] = Assigned(j), message.batch[l] = Assigned(j)
        PROVE  FALSE
    <3>1. jobState[j] # "acquired"
      BY <2>2 DEF MessageAssignsOnce
    <3>2. k \in 1 .. Len(events) /\ events[k] = Assigned(j)
      BY <1>2, <2>1, <2>2, <3>1
    <3>3. QED
      BY <2>2, <3>2 DEF MessageAssignsOnce
  <2>3. QED
    BY <2>2, ServicesMoveJobsOn DEF MessageAssignsOnce, Assigned
<1>3. QED
  BY <1>1, <1>2, ServicesMoveJobsOn

\* Within a run, the services apart, only AcquireJobs touches a job.
LEMMA RunKeepsAssignedJobs ==
    ASSUME IInv, ProcessNext, ~ReceiveMessage
    PROVE  /\ UNCHANGED events
           /\ \A j \in Job : jobState[j] \in {"assigned", "running", "completed"} =>
                 jobState'[j] = jobState[j]
<1> USE DEF servicesVars
<1>1. CASE LoopStep
  BY <1>1 DEF LoopStep, HandleJobAvailable, HandleJobAssigned, HandleJobCompleted,
              Handles, AcquireAvailableJobs, AcquireJobs, DeleteMessage
<1>2. ASSUME NEW j \in Job, GoroutineStep(j) PROVE UNCHANGED <<events, jobState>>
  BY <1>2
  DEF GoroutineStep, StartAttempt, GiveUpCanceledJob, AttemptReturns, BackOffEnds,
      StoreRunnerContextCancel, TrackRunner, CommandsSent, ExecutionCanceled,
      CommandsExit, ConnectionFails, CancelOwnContext, RemoveUpstreamCanceledJob,
      ProvisioningStep, DeploySucceeds, DeployFails, CreateRunnerSucceeds,
      ProvisioningFails, ProvisioningCleanedUp
<1>3. ASSUME NEW v \in VM, AfterFuncStep(v) PROVE UNCHANGED <<events, jobState>>
  BY <1>3
  DEF AfterFuncStep, AfterFuncStarts, AfterFuncUntracks, CleanupStep,
      RunnerDeregistered, DeregistrationTimesOut, ForceDeleteLooksUp,
      ForceDeleteSucceeds, ForceDeleteRefused, ForceDeleteFails, DeleteVMReturns
<1>4. CASE TrackerStep \/ ProcessExits \/ TerminationSignal
  BY <1>4
  DEF TrackerStep, Tick, LookUpRunner, LookUpFails, Strike, ResetStrikes,
      DeleteOrphan, DeleteOrphanFails, UntrackOrphan, ProcessExits, TerminationSignal
<1>5. QED
  BY <1>1, <1>2, <1>3, <1>4 DEF ProcessNext

LEMMA MessageStaysAssignedOnce ==
    ASSUME IInv, MessageAssignsOnce, QueueInv', [RestartNext]_restartVars
    PROVE  MessageAssignsOnce'
<1>1. CASE ReceiveNewMessage
  <2>1. message'.batch = batch'
    BY <1>1 DEF ReceiveNewMessage
  <2>2. QED
    BY <2>1 DEF QueueInv, JobAssignedOnce, GoroutineStartsOnce, MessageAssignsOnce,
                Assigned
<1>2. CASE message' = NoMessage
  BY <1>2 DEF NoMessage, MessageAssignsOnce
<1>3. CASE UNCHANGED <<message, events, jobState>>
  BY <1>3 DEF MessageAssignsOnce, Assigned
<1>4. CASE ServicesNext /\ UNCHANGED message
  BY <1>4, MessageKeptByServices
<1>5. CASE ProcessNext /\ ~ReceiveMessage /\ UNCHANGED message
  BY <1>5, RunKeepsAssignedJobs DEF MessageAssignsOnce, Assigned
<1>6. CASE FinishMessage \/ RunEnds \/ Restart \/ ReceiveMessageOfEarlierRun
  <2>1. \/ message' = NoMessage
        \/ UNCHANGED <<events, jobState, message>>
    BY <1>6, ServicesAtRestart
    DEF FinishMessage, DeleteMessage, RunEnds, ProcessExits,
        ReceiveMessageOfEarlierRun, servicesVars, runVars
  <2>2. QED
    BY <1>2, <1>3, <2>1
<1>7. CASE OtherStep /\ UNCHANGED runVars
  <2>1. ServicesNext \/ (ProcessNext /\ ~ReceiveMessage)
    BY <1>7, OtherStepIsRunStep
  <2>2. QED
    BY <1>4, <1>5, <1>7, <2>1 DEF runVars
<1>8. CASE UNCHANGED restartVars
  BY <1>3, <1>8 DEF restartVars, runVars, vars, servicesVars
<1>9. QED
  BY <1>1, <1>6, <1>7, <1>8 DEF RestartNext

\* One goroutine per job and run.
LEMMA QueueOverRuns ==
    ASSUME IInv, QueueInv, OldMessageComesFirst, MessageAssignsOnce,
           [RestartNext]_restartVars
    PROVE  QueueInv'
<1>1. CASE Restart
  <2>1. /\ UNCHANGED <<events, jobState>> \/ events' = <<>>
        /\ UNCHANGED jobState /\ loop' = "handling"
        /\ \A j \in Job : goroutine'[j] = "none"
        /\ \A k \in 1 .. Len(batch'), j \in Job : batch'[k] # Assigned(j)
    BY <1>1, InitialBatch, ServicesAtRestart DEF Restart, NewProcessor
  <2>2. QED
    BY <2>1 DEF QueueInv, MessageIsHandledWhole, JobAssignedOnce,
                GoroutineStartsOnce, Assigned
<1>2. CASE ReceiveMessageOfEarlierRun
  <2>1. /\ UNCHANGED <<events, jobState, goroutine>> /\ loop' = "handling"
        /\ batch' = message.batch /\ AllIdle
    BY <1>2 DEF ReceiveMessageOfEarlierRun, OldMessageComesFirst, servicesVars
  <2>2. QED
    BY <2>1 DEF QueueInv, MessageIsHandledWhole, JobAssignedOnce,
                GoroutineStartsOnce, Assigned, AllIdle, MessageAssignsOnce
<1>3. CASE [Next]_vars
  BY <1>3, StepKeepsQueue
<1>4. QED
  BY <1>1, <1>2, <1>3, RunStep

LEMMA HandOverOverRuns ==
    ASSUME IInv, QueueInv, RestartTypeOK, HandOver(VM \ leftBehind),
           [RestartNext]_restartVars
    PROVE  HandOver(VM \ leftBehind)'
<1>1. CASE Restart
  BY <1>1 DEF Restart, NewProvisioner, NewProcessor, HandOver, ProvisioningIsAwaited,
              servicesVars
<1>2. CASE ReceiveMessageOfEarlierRun
  BY <1>2 DEF ReceiveMessageOfEarlierRun, HandOver, ProvisioningIsAwaited,
     AccountedFor, HeldByGoroutine, CleanupGaveUp, servicesVars, provisionerVars, runVars
<1>3. CASE [Next]_vars /\ ~Restart
  <2>1. leftBehind' = leftBehind
    BY <1>3, LeftBehindIsKept
  <2>2. PICK T \in SUBSET VM : T = VM \ leftBehind
    OBVIOUS
  <2>3. HandOver(T)
    BY <2>2 DEF HandOver
  <2>4. HandOver(T)'
    BY <1>3, <2>3, StepHandsOver
  <2>5. QED
    BY <2>1, <2>2, <2>4 DEF HandOver
<1>4. QED
  BY <1>1, <1>2, <1>3, RunStep

LEMMA AttemptsOverRuns ==
    ASSUME IInv, QueueInv, RestartTypeOK, HandOver(VM \ leftBehind),
           AttemptInv(VM \ leftBehind), [RestartNext]_restartVars
    PROVE  AttemptInv(VM \ leftBehind)'
<1>1. CASE Restart
  BY <1>1, NoVMAssumption
  DEF Restart, NewProvisioner, NewProcessor, AttemptInv, Counts, servicesVars
<1>2. CASE ReceiveMessageOfEarlierRun
  BY <1>2 DEF ReceiveMessageOfEarlierRun, AttemptInv, Counts, servicesVars,
              provisionerVars, runVars
<1>3. CASE [Next]_vars /\ ~Restart
  <2>1. PICK T \in SUBSET VM : T = VM \ leftBehind
    OBVIOUS
  <2>2. HandOver(T) /\ AttemptInv(T)
    BY <2>1 DEF HandOver, AttemptInv
  <2>3. AttemptInv(T)'
    BY <1>3, <2>2, StepKeepsAttempts
  <2>4. QED
    BY <1>3, <2>1, <2>3, LeftBehindIsKept DEF AttemptInv
<1>4. QED
  BY <1>1, <1>2, <1>3, RunStep

\* The account of one run, over all runs.
Account ==
    /\ QueueInv /\ OldMessageComesFirst /\ MessageAssignsOnce
    /\ HandOver(VM \ leftBehind)
    /\ AttemptInv(VM \ leftBehind)

THEOREM AccountOverRuns == RestartSpec => []Account
<1>1. RestartInit => Account
  <2>1. RestartInit => AttemptInv(VM \ leftBehind)
    BY DEF RestartInit, Init, ServicesInit, ProvisionerInit, AttemptInv, Counts
  <2>2. QED
    BY <2>1, InitialAccount
    DEF RestartInit, Account, OldMessageComesFirst, MessageAssignsOnce, NoMessage,
        HandOver, Init
<1>2. IInv /\ RestartTypeOK /\ Account /\ [RestartNext]_restartVars => Account'
  BY QueueOverRuns, OldMessageStaysFirst, MessageStaysAssignedOnce, HandOverOverRuns,
     AttemptsOverRuns DEF Account
<1>3. QED
  BY <1>1, <1>2, InvariantOverRuns, PTL DEF RestartSpec

\* In every run, each VM that is up is in somebody's hands, was given up by a
\* cleanup, or was left behind by an earlier run.
THEOREM OwnVMsAreAccountedFor == RestartSpec => []OwnVMIsAccountedFor
<1>1. Account => OwnVMIsAccountedFor
  BY DEF Account, HandOver, OwnVMIsAccountedFor
<1>2. QED
  BY <1>1, AccountOverRuns, PTL

\* However often attempts fail and however often a message is handled, a run
\* has no more VMs to look after than it started goroutines.
THEOREM OwnAttemptsAreBounded == RestartSpec => []OwnAttemptsDoNotPileUp
<1>1. Account => OwnAttemptsDoNotPileUp
  <2> SUFFICES ASSUME Account PROVE OwnAttemptsDoNotPileUp
    OBVIOUS
  <2>1. PICK T \in SUBSET VM : T = VM \ leftBehind
    OBVIOUS
  <2>2. AttemptInv(T)
    BY <2>1 DEF Account, AttemptInv
  <2>3. QED
    BY <2>1, <2>2, AttemptsAreCounted DEF OwnAttemptsDoNotPileUp, Counts
<1>2. QED
  BY <1>1, AccountOverRuns, PTL

-----------------------------------------------------------------------------
(* The jobs that are given up.                                             *)

\* What the messages say, the one included that a run may get once more.
EndedOverRuns == EndedInv /\ EndedIn(message.batch)

LEMMA EndedStaysOverRuns ==
    ASSUME IInv, RestartTypeOK, EndedOverRuns, [RestartNext]_restartVars
    PROVE  EndedOverRuns'
<1> USE DEF EndedOverRuns
<1>1. CASE Restart
  <2>1. \A k \in 1 .. Len(batch') : batch'[k].type # "JobCompleted"
    <3>1. \A k \in 1 .. Len(batch') : batch'[k] \in AcquirableJobs
      BY <1>1, InitialBatch DEF Restart
    <3>2. QED
      BY <3>1 DEF AcquirableJobs, Available
  <2>2. UNCHANGED jobState /\ upstreamCanceledJobs' = {}
    BY <1>1 DEF Restart, NewProcessor
  <2>3. CASE UNCHANGED <<events, message>>
    BY <2>1, <2>2, <2>3 DEF EndedInv, EndedIn, CanceledJobsAreOver
  <2>4. CASE events' = <<>> /\ message' = NoMessage
    BY <2>1, <2>2, <2>4 DEF EndedInv, EndedIn, CanceledJobsAreOver, NoMessage
  <2>5. QED
    BY <1>1, <2>3, <2>4, ServicesAtRestart
<1>2. CASE ReceiveMessageOfEarlierRun
  BY <1>2 DEF ReceiveMessageOfEarlierRun, EndedInv, EndedIn, CanceledJobsAreOver,
              servicesVars, runVars
<1>3. CASE [Next]_vars /\ ~Restart
  <2>1. EndedInv' /\ JobsThatAreOverStay
    BY <1>3, StepKeepsEnded
  <2>2. message' \in {message, NoMessage} \/ message'.batch = batch'
    BY <1>3 DEF RestartNext, ReceiveNewMessage, ReceiveMessageOfEarlierRun,
                FinishMessage, RunEnds, runVars, restartVars
  <2>3. CASE message' = message
    BY <2>1, <2>3, EndedStays DEF EndedIn, RestartTypeOK
  <2>4. CASE message' = NoMessage
    BY <2>1, <2>4 DEF EndedIn, NoMessage
  <2>5. CASE message'.batch = batch'
    BY <2>1, <2>5 DEF EndedInv, EndedIn
  <2>6. QED
    BY <2>2, <2>3, <2>4, <2>5
<1>4. QED
  BY <1>1, <1>2, <1>3, RunStep

\* In every run, the jobs that are given up are over at GitHub, also when the
\* message that says so is handled by two runs.
THEOREM GivenUpJobsAreOverInAllRuns == RestartSpec => []CanceledJobsAreOver
<1>1. RestartInit => EndedOverRuns
  BY DEF RestartInit, Init, ServicesInit, NoMessage, EndedOverRuns, EndedInv,
         CanceledJobsAreOver, EndedIn
<1>2. IInv /\ RestartTypeOK /\ EndedOverRuns /\ [RestartNext]_restartVars
         => EndedOverRuns'
  BY EndedStaysOverRuns
<1>3. EndedOverRuns => CanceledJobsAreOver
  BY DEF EndedOverRuns, EndedInv
<1>4. QED
  BY <1>1, <1>2, <1>3, InvariantOverRuns, PTL DEF RestartSpec

=============================================================================
