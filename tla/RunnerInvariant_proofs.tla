------------------------ MODULE RunnerInvariant_proofs ------------------------
(***************************************************************************)
(* The invariant of RunnerInvariant is inductive, and what follows from it *)
(* for every number of jobs and VMs.  One lemma per component; in each one *)
(* step per action.                                                        *)
(***************************************************************************)
EXTENDS RunnerInvariant, FiniteSetTheorems, SequenceTheorems, TLAPS

\* The messages of GitHub are well formed.
LEMMA EventsAreEvents ==
    ASSUME NEW j \in Job, NEW r \in VM \union {NoVM}, NEW c \in Result,
           events \in Seq(Event)
    PROVE  /\ Append(events, Available(j)) \in Seq(Event)
           /\ Append(events, Assigned(j)) \in Seq(Event)
           /\ Append(events, Completed(j, r, c)) \in Seq(Event)
<1>1. Available(j) \in Event /\ Assigned(j) \in Event /\ Completed(j, r, c) \in Event
  BY DEF Event, Available, Assigned, Completed
<1>2. QED
  BY <1>1

LEMMA InitInvariant == Init => IInv
BY NoVMAssumption, EmptySeq, FS_EmptySet
DEF Init, ServicesInit, ProvisionerInit, TrackerInit, IInv, TypeOK,
    ServicesTypeOK, ProvisionerTypeOK, TrackerTypeOK, ProcessorTypeOK,
    VMState, Registration, JobState, Provisioning, Cleanup, Verdict,
    Goroutine, RunnerContext, Untracked, MaxStrikes, IsTracked, IsRegistered,
    UnknownVMIsUntouched, VMHasOneOwner, DeployedVMIsFresh,
    ProvisionedVMHadRunner, TrackedVMHadRunner, DeletingVMHasNoRunner,
    DeletedVMHasNoRunner, RunningJobHasRunner, StoredCancelHasContext

-----------------------------------------------------------------------------
(* The services.                                                           *)

\* What GitHub and Orka do by themselves keeps the invariant.
LEMMA ServicesKeepInvariant ==
    ASSUME IInv, ServicesNext,
           UNCHANGED <<provisionerVars, trackerVars, processorVars>>
    PROVE  IInv'
<1> USE NoVMAssumption
    DEF IInv, TypeOK, ServicesTypeOK, ProvisionerTypeOK, TrackerTypeOK,
        ProcessorTypeOK, provisionerVars, trackerVars, processorVars,
        UnknownVMIsUntouched, VMHasOneOwner, DeployedVMIsFresh,
        ProvisionedVMHadRunner, TrackedVMHadRunner, DeletingVMHasNoRunner,
        DeletedVMHasNoRunner, RunningJobHasRunner, StoredCancelHasContext,
        IsTracked, IsRegistered, Registration, JobState
<1>1. ASSUME NEW j \in Job, JobQueued(j) PROVE IInv'
  <2>1. events' \in Seq(Event)
    BY <1>1, EventsAreEvents DEF JobQueued, Result
  <2>2. QED
    BY <1>1, <2>1 DEF JobQueued
<1>2. ASSUME NEW j \in Job, JobAssigned(j) PROVE IInv'
  <2>1. events' \in Seq(Event)
    BY <1>2, EventsAreEvents DEF JobAssigned, Result
  <2>2. QED
    BY <1>2, <2>1 DEF JobAssigned
<1>3. ASSUME NEW j \in Job, NEW v \in VM, JobStarted(j, v) PROVE IInv'
  BY <1>3 DEF JobStarted
<1>4. ASSUME NEW j \in Job, NEW c \in Result, JobFinished(j, c) PROVE IInv'
  <2>1. events' \in Seq(Event)
    BY <1>4, EventsAreEvents DEF JobFinished, Result
  <2>2. QED
    BY <1>4, <2>1 DEF JobFinished
<1>5. ASSUME NEW j \in Job, JobCanceledEarly(j) PROVE IInv'
  <2>1. events' \in Seq(Event)
    BY <1>5, EventsAreEvents DEF JobCanceledEarly, Result
  <2>2. QED
    BY <1>5, <2>1 DEF JobCanceledEarly
<1>6. ASSUME NEW j \in Job, RunnerLost(j) PROVE IInv'
  <2>1. events' \in Seq(Event)
    BY <1>6, EventsAreEvents DEF RunnerLost, Result
  <2>2. QED
    BY <1>6, <2>1 DEF RunnerLost
<1>7. ASSUME NEW v \in VM, RunnerLeaves(v) PROVE IInv'
  BY <1>7 DEF RunnerLeaves, IsDeletable
<1>8. QED
  BY <1>1, <1>2, <1>3, <1>4, <1>5, <1>6, <1>7 DEF ServicesNext

-----------------------------------------------------------------------------
(* The provisioner.                                                        *)

\* Every step of ProvisionRunner keeps the invariant.
LEMMA ProvisioningKeepsInvariant ==
    ASSUME IInv, NEW j \in Job, ProvisioningStep(j),
           UNCHANGED <<trackerVars, processorVars>>
    PROVE  IInv'
<1> USE NoVMAssumption
    DEF IInv, TypeOK, ServicesTypeOK, ProvisionerTypeOK, TrackerTypeOK,
        ProcessorTypeOK, UnknownVMIsUntouched, VMHasOneOwner,
        DeployedVMIsFresh, ProvisionedVMHadRunner, TrackedVMHadRunner,
        DeletingVMHasNoRunner, DeletedVMHasNoRunner, RunningJobHasRunner,
        StoredCancelHasContext, IsTracked, IsRegistered, trackerVars, processorVars,
        servicesVars, Provisioning, Cleanup, VMState, Registration
<1>1. ASSUME NEW v \in VM, DeploySucceeds(j, v) PROVE IInv'
  BY <1>1 DEF DeploySucceeds, DeployVM
<1>2. ASSUME DeployFails(j) PROVE IInv'
  BY <1>2 DEF DeployFails, DeployVMFails
<1>3. ASSUME CreateRunnerSucceeds(j) PROVE IInv'
  BY <1>3 DEF CreateRunnerSucceeds, CreateRunner
<1>4. ASSUME ProvisioningFails(j) PROVE IInv'
  <2>1. CASE UNCHANGED registration
    BY <1>4, <2>1 DEF ProvisioningFails
  <2>2. CASE CreateRunner(vmOf[j])
    BY <1>4, <2>2 DEF ProvisioningFails, CreateRunner
  <2>3. QED
    BY <1>4, <2>1, <2>2 DEF ProvisioningFails
<1>5. ASSUME ProvisioningCleanedUp(j) PROVE IInv'
  BY <1>5 DEF ProvisioningCleanedUp
<1>6. QED
  BY <1>1, <1>2, <1>3, <1>4, <1>5 DEF ProvisioningStep

\* Every step of cleanupResources keeps the invariant.
LEMMA CleanupKeepsInvariant ==
    ASSUME IInv, NEW v \in VM, CleanupStep(v),
           UNCHANGED <<trackerVars, processorVars>>
    PROVE  IInv'
<1> USE NoVMAssumption
    DEF IInv, TypeOK, ServicesTypeOK, ProvisionerTypeOK, TrackerTypeOK,
        ProcessorTypeOK, UnknownVMIsUntouched, VMHasOneOwner,
        DeployedVMIsFresh, ProvisionedVMHadRunner, TrackedVMHadRunner,
        DeletingVMHasNoRunner, DeletedVMHasNoRunner, RunningJobHasRunner,
        StoredCancelHasContext, IsTracked, IsRegistered, trackerVars, processorVars,
        servicesVars, Cleanup, VMState, Registration
<1>1. ASSUME RunnerDeregistered(v) PROVE IInv'
  BY <1>1 DEF RunnerDeregistered
<1>2. ASSUME DeregistrationTimesOut(v) PROVE IInv'
  BY <1>2 DEF DeregistrationTimesOut
<1>3. ASSUME ForceDeleteLooksUp(v) PROVE IInv'
  BY <1>3 DEF ForceDeleteLooksUp
<1>4. ASSUME ForceDeleteSucceeds(v) PROVE IInv'
  BY <1>4 DEF ForceDeleteSucceeds, IsDeletable, DeleteRunner
<1>5. ASSUME ForceDeleteRefused(v) PROVE IInv'
  BY <1>5 DEF ForceDeleteRefused
<1>6. ASSUME ForceDeleteFails(v) PROVE IInv'
  <2>1. CASE UNCHANGED registration
    BY <1>6, <2>1 DEF ForceDeleteFails
  <2>2. CASE IsDeletable(v) /\ DeleteRunner(v)
    BY <1>6, <2>2 DEF ForceDeleteFails, IsDeletable, DeleteRunner
  <2>3. QED
    BY <1>6, <2>1, <2>2 DEF ForceDeleteFails
<1>7. ASSUME DeleteVMReturns(v) PROVE IInv'
  BY <1>7 DEF DeleteVMReturns, DeleteVM
<1>8. QED
  BY <1>1, <1>2, <1>3, <1>4, <1>5, <1>6, <1>7 DEF CleanupStep

-----------------------------------------------------------------------------
(* The tracker.                                                            *)

\* Every step of the tracker keeps the invariant.
LEMMA TrackerKeepsInvariant ==
    ASSUME IInv, TrackerStep,
           UNCHANGED <<provisionerVars, processorVars>>
    PROVE  IInv'
<1> USE NoVMAssumption
    DEF IInv, TypeOK, ServicesTypeOK, ProvisionerTypeOK, TrackerTypeOK,
        ProcessorTypeOK, UnknownVMIsUntouched, VMHasOneOwner,
        DeployedVMIsFresh, ProvisionedVMHadRunner, TrackedVMHadRunner,
        DeletingVMHasNoRunner, DeletedVMHasNoRunner, RunningJobHasRunner,
        StoredCancelHasContext, IsTracked, IsRegistered, provisionerVars, processorVars,
        servicesVars, Verdict, VMState, Untracked, MaxStrikes
<1>1. ASSUME Tick PROVE IInv'
  BY <1>1 DEF Tick
<1>2. ASSUME NEW v \in VM, LookUpRunner(v) PROVE IInv'
  BY <1>2 DEF LookUpRunner, Registration
<1>3. ASSUME NEW v \in VM, LookUpFails(v) PROVE IInv'
  BY <1>3 DEF LookUpFails
<1>4. ASSUME Strike PROVE IInv'
  BY <1>4 DEF Strike
<1>5. ASSUME ResetStrikes PROVE IInv'
  BY <1>5 DEF ResetStrikes
<1>6. ASSUME DeleteOrphan PROVE IInv'
  BY <1>6 DEF DeleteOrphan, DeleteVM
<1>7. ASSUME DeleteOrphanFails PROVE IInv'
  BY <1>7 DEF DeleteOrphanFails, DeleteVM
<1>8. ASSUME UntrackOrphan PROVE IInv'
  BY <1>8 DEF UntrackOrphan, Untrack
<1>9. QED
  BY <1>1, <1>2, <1>3, <1>4, <1>5, <1>6, <1>7, <1>8 DEF TrackerStep

-----------------------------------------------------------------------------
(* The goroutines of the jobs and of the runner contexts.                  *)

\* Every step of the goroutine of a job keeps the invariant.
LEMMA GoroutineKeepsInvariant ==
    ASSUME IInv, NEW j \in Job, GoroutineStep(j)
    PROVE  IInv'
<1> USE NoVMAssumption
    DEF IInv, TypeOK, ServicesTypeOK, ProvisionerTypeOK, TrackerTypeOK,
        ProcessorTypeOK, UnknownVMIsUntouched, VMHasOneOwner,
        DeployedVMIsFresh, ProvisionedVMHadRunner, TrackedVMHadRunner,
        DeletingVMHasNoRunner, DeletedVMHasNoRunner, RunningJobHasRunner,
        StoredCancelHasContext, IsTracked, IsRegistered, servicesVars,
        provisionerVars, trackerVars, messageVars, Goroutine, goto
<1>1. ASSUME StartAttempt(j) PROVE IInv'
  BY <1>1 DEF StartAttempt, ProvisionRunner, Provisioning
<1>2. ASSUME GiveUpCanceledJob(j) PROVE IInv'
  BY <1>2 DEF GiveUpCanceledJob
<1>3. ASSUME AttemptReturns(j) PROVE IInv'
  BY <1>3 DEF AttemptReturns
<1>4. ASSUME BackOffEnds(j) PROVE IInv'
  <2>1. CASE goto(j, "retrying")
    BY <1>4, <2>1 DEF BackOffEnds
  <2>2. CASE goto(j, "removing")
    BY <1>4, <2>2 DEF BackOffEnds
  <2>3. QED
    BY <1>4, <2>1, <2>2 DEF BackOffEnds
<1>5. ASSUME StoreRunnerContextCancel(j) PROVE IInv'
  BY <1>5 DEF StoreRunnerContextCancel, RunnerContext
<1>6. ASSUME TrackRunner(j) PROVE IInv'
  BY <1>6 DEF TrackRunner, Track, Untracked, MaxStrikes
<1>7. ASSUME CommandsSent(j) PROVE IInv'
  BY <1>7 DEF CommandsSent, Registration
<1>8. ASSUME ExecutionCanceled(j) PROVE IInv'
  BY <1>8 DEF ExecutionCanceled
<1>9. ASSUME CommandsExit(j) PROVE IInv'
  BY <1>9 DEF CommandsExit
<1>10. ASSUME ConnectionFails(j) PROVE IInv'
  BY <1>10 DEF ConnectionFails
<1>11. ASSUME CancelOwnContext(j) PROVE IInv'
  BY <1>11 DEF CancelOwnContext, CancelRunnerContext, RunnerContext
<1>12. ASSUME RemoveUpstreamCanceledJob(j) PROVE IInv'
  BY <1>12 DEF RemoveUpstreamCanceledJob
<1>13. ASSUME ProvisioningStep(j), UNCHANGED <<trackerVars, processorVars>> PROVE IInv'
  BY <1>13, ProvisioningKeepsInvariant
<1>14. QED
  BY <1>1, <1>2, <1>3, <1>4, <1>5, <1>6, <1>7, <1>8, <1>9, <1>10, <1>11, <1>12, <1>13 DEF GoroutineStep

\* Every step of the AfterFunc of a runner context keeps the invariant.
LEMMA AfterFuncKeepsInvariant ==
    ASSUME IInv, NEW v \in VM, AfterFuncStep(v)
    PROVE  IInv'
<1> USE NoVMAssumption
    DEF IInv, TypeOK, ServicesTypeOK, ProvisionerTypeOK, TrackerTypeOK,
        ProcessorTypeOK, UnknownVMIsUntouched, VMHasOneOwner,
        DeployedVMIsFresh, ProvisionedVMHadRunner, TrackedVMHadRunner,
        DeletingVMHasNoRunner, DeletedVMHasNoRunner, RunningJobHasRunner,
        StoredCancelHasContext, IsTracked, IsRegistered, servicesVars,
        provisionerVars, trackerVars, processorVars, messageVars
<1>1. ASSUME AfterFuncStarts(v) PROVE IInv'
  BY <1>1 DEF AfterFuncStarts, CleanupResources, Cleanup
<1>2. ASSUME AfterFuncUntracks(v) PROVE IInv'
  BY <1>2 DEF AfterFuncUntracks, Untrack, Untracked, RunnerContext
<1>3. ASSUME CleanupStep(v), UNCHANGED <<trackerVars, processorVars>> PROVE IInv'
  BY <1>3, CleanupKeepsInvariant
<1>4. QED
  BY <1>1, <1>2, <1>3 DEF AfterFuncStep

-----------------------------------------------------------------------------
(* The message loop and the end of the process.                            *)

\* Taking the first message off a sequence leaves a sequence.
LEMMA BatchShrinks ==
    ASSUME batch \in Seq(Event), batch # <<>>
    PROVE  Head(batch) \in Event /\ Tail(batch) \in Seq(Event)
BY HeadTailProperties

\* A message takes the first events and leaves the rest.
LEMMA EventsSplit ==
    ASSUME events \in Seq(Event), NEW n \in 1 .. Len(events)
    PROVE  /\ SubSeq(events, 1, n) \in Seq(Event)
           /\ SubSeq(events, n + 1, Len(events)) \in Seq(Event)
<1>1. /\ Len(events) \in Nat
      /\ \A i \in 1 .. Len(events) : events[i] \in Event
  BY LenProperties, ElementOfSeq
<1>2. SubSeq(events, 1, n) \in Seq(Event)
  BY <1>1, SubSeqProperties
<1>3. SubSeq(events, n + 1, Len(events)) \in Seq(Event)
  BY <1>1, SubSeqProperties
<1>4. QED
  BY <1>2, <1>3

\* The statistics of a message are numbers.
LEMMA StatisticsAreNumbers ==
    TotalAssignedJobs \in Nat /\ TotalRegisteredRunners \in Nat
<1>1. IsFiniteSet({j \in Job : jobState[j] \in {"assigned", "running"}})
  BY FiniteAssumption, FS_Subset
<1>2. IsFiniteSet({v \in VM : IsRegistered(v)})
  BY FiniteAssumption, FS_Subset
<1>3. QED
  BY <1>1, <1>2, FS_CardinalityType DEF TotalAssignedJobs, TotalRegisteredRunners

\* Every step of the message loop keeps the invariant.
LEMMA LoopKeepsInvariant ==
    ASSUME IInv, LoopStep
    PROVE  IInv'
<1> USE NoVMAssumption
    DEF IInv, TypeOK, ServicesTypeOK, ProvisionerTypeOK, TrackerTypeOK,
        ProcessorTypeOK, UnknownVMIsUntouched, VMHasOneOwner,
        DeployedVMIsFresh, ProvisionedVMHadRunner, TrackedVMHadRunner,
        DeletingVMHasNoRunner, DeletedVMHasNoRunner, RunningJobHasRunner,
        StoredCancelHasContext, IsTracked, IsRegistered, servicesVars,
        provisionerVars, trackerVars, processorVars, Handles, Goroutine, goto
<1>1. ASSUME ReceiveMessage PROVE IInv'
  <2>1. batch' \in Seq(Event) /\ events' \in Seq(Event) /\ required' \in Int
    BY <1>1, EventsSplit, StatisticsAreNumbers DEF ReceiveMessage
  <2>2. QED
    BY <1>1, <2>1 DEF ReceiveMessage
<1>2. ASSUME HandleJobAvailable PROVE IInv'
  <2>1. batch # <<>> /\ Head(batch) \in Event /\ batch' \in Seq(Event)
    BY <1>2, BatchShrinks DEF HandleJobAvailable
  <2>2. QED
    BY <1>2, <2>1 DEF HandleJobAvailable, Event
<1>3. ASSUME HandleJobAssigned PROVE IInv'
  <2>1. batch # <<>> /\ Head(batch) \in Event /\ batch' \in Seq(Event)
    BY <1>3, BatchShrinks DEF HandleJobAssigned
  <2>2. QED
    BY <1>3, <2>1 DEF HandleJobAssigned, Event
<1>4. ASSUME HandleJobCompleted PROVE IInv'
  <2>1. batch # <<>> /\ Head(batch) \in Event /\ batch' \in Seq(Event)
    BY <1>4, BatchShrinks DEF HandleJobCompleted
  <2>2. Head(batch).job \in Job
    BY <2>1 DEF Event
  <2>3. upstreamCanceledJobs' \in SUBSET Job
    BY <1>4, <2>2 DEF HandleJobCompleted
  <2>4. CASE Head(batch).runner \in runnerContextCancels
    BY <1>4, <2>1, <2>3, <2>4
    DEF HandleJobCompleted, CancelRunnerContext, RunnerContext
  <2>5. CASE Head(batch).runner \notin runnerContextCancels
    BY <1>4, <2>1, <2>3, <2>5 DEF HandleJobCompleted, CancelRunnerContext
  <2>6. QED
    BY <2>4, <2>5
<1>5. ASSUME AcquireAvailableJobs PROVE IInv'
  BY <1>5 DEF AcquireAvailableJobs, AcquireJobs, JobState
<1>6. ASSUME DeleteMessage PROVE IInv'
  BY <1>6 DEF DeleteMessage
<1>7. QED
  BY <1>1, <1>2, <1>3, <1>4, <1>5, <1>6 DEF LoopStep

\* The end of the process touches nothing the invariant speaks of.
LEMMA ExitKeepsInvariant ==
    ASSUME IInv, ProcessExits \/ TerminationSignal
    PROVE  IInv'
BY DEF IInv, TypeOK, ServicesTypeOK, ProvisionerTypeOK, TrackerTypeOK,
       ProcessorTypeOK, UnknownVMIsUntouched, VMHasOneOwner,
       DeployedVMIsFresh, ProvisionedVMHadRunner, TrackedVMHadRunner,
       DeletingVMHasNoRunner, DeletedVMHasNoRunner, RunningJobHasRunner,
       StoredCancelHasContext, IsTracked, IsRegistered, servicesVars,
       provisionerVars, trackerVars, ProcessExits, TerminationSignal

LEMMA StutteringKeepsInvariant ==
    ASSUME IInv, UNCHANGED vars
    PROVE  IInv'
BY DEF IInv, TypeOK, ServicesTypeOK, ProvisionerTypeOK, TrackerTypeOK,
       ProcessorTypeOK, UnknownVMIsUntouched, VMHasOneOwner,
       DeployedVMIsFresh, ProvisionedVMHadRunner, TrackedVMHadRunner,
       DeletingVMHasNoRunner, DeletedVMHasNoRunner, RunningJobHasRunner,
       StoredCancelHasContext, IsTracked, IsRegistered, servicesVars,
       provisionerVars, trackerVars, processorVars, vars

-----------------------------------------------------------------------------

LEMMA NextKeepsInvariant ==
    ASSUME IInv, [Next]_vars
    PROVE  IInv'
<1>1. CASE ServicesNext /\ UNCHANGED <<provisionerVars, trackerVars, processorVars>>
  BY <1>1, ServicesKeepInvariant
<1>2. CASE LoopStep
  BY <1>2, LoopKeepsInvariant
<1>3. CASE \E j \in Job : GoroutineStep(j)
  BY <1>3, GoroutineKeepsInvariant
<1>4. CASE \E v \in VM : AfterFuncStep(v)
  BY <1>4, AfterFuncKeepsInvariant
<1>5. CASE TrackerStep /\ UNCHANGED <<provisionerVars, processorVars>>
  BY <1>5, TrackerKeepsInvariant
<1>6. CASE ProcessExits \/ TerminationSignal
  BY <1>6, ExitKeepsInvariant
<1>7. CASE UNCHANGED vars
  BY <1>7, StutteringKeepsInvariant
<1>8. QED
  BY <1>1, <1>2, <1>3, <1>4, <1>5, <1>6, <1>7 DEF Next, ProcessNext

\* The invariant holds in every reachable state: whatever the goroutines, the
\* tracker and the services do in whatever order, each may rely on it.
THEOREM InvariantHolds == Spec => []IInv
<1>1. Init => IInv
  BY InitInvariant
<1>2. IInv /\ [Next]_vars => IInv'
  BY NextKeepsInvariant
<1>3. QED
  BY <1>1, <1>2, PTL DEF Spec

=============================================================================
