----------------------- MODULE RunnerRefinement_proofs -----------------------
(***************************************************************************)
(* What the invariant is for: no running job loses its VM, no VM is        *)
(* deleted under a registration, and the composition implements            *)
(* EphemeralRunner, for every number of jobs and VMs.                      *)
(***************************************************************************)
EXTENDS RunnerInvariant_proofs

\* Every variable of every goroutine stays within its type.
THEOREM TypeCorrect == Spec => []TypeOK
<1>1. IInv => TypeOK
  BY DEF IInv
<1>2. QED
  BY <1>1, InvariantHolds, PTL

LEMMA RunningJobIsKept ==
    ASSUME IInv
    PROVE  RunningJobKeepsItsVM
<1> SUFFICES ASSUME NEW j \in Job, jobState[j] = "running"
             PROVE  orkaVMs[runsOn[j]] = "up" /\ registration[runsOn[j]] = "busy"
  BY DEF RunningJobKeepsItsVM
<1>1. runsOn[j] \in VM /\ registration[runsOn[j]] = "busy"
  BY DEF IInv, RunningJobHasRunner
<1>2. orkaVMs[runsOn[j]] \notin {"absent", "unnamed"}
  BY <1>1 DEF IInv, UnknownVMIsUntouched
<1>3. orkaVMs[runsOn[j]] # "deleted"
  BY <1>1 DEF IInv, DeletedVMHasNoRunner, IsRegistered
<1>4. QED
  BY <1>1, <1>2, <1>3 DEF IInv, TypeOK, ServicesTypeOK, VMState

\* No cleanup and no tracker deletes the VM of a running job.
THEOREM RunningJobsKeepTheirVMs == Spec => []RunningJobKeepsItsVM
<1>1. IInv => RunningJobKeepsItsVM
  BY RunningJobIsKept
<1>2. QED
  BY <1>1, InvariantHolds, PTL

-----------------------------------------------------------------------------
(* The steps that change a VM or a registration, as steps of               *)
(* EphemeralRunner.                                                        *)


\* A step that leaves the services alone is a stuttering step.
LEMMA StutteringStep ==
    ASSUME UNCHANGED <<orkaVMs, registration>>
    PROVE  UNCHANGED Ephemeral!vars
BY DEF Ephemeral!vars

\* A new VM is deployed for one goroutine.
LEMMA DeployStep ==
    ASSUME IInv, NEW v \in VM, DeployVM(v), UNCHANGED registration
    PROVE  Ephemeral!Next
<1>1. Ephemeral!Deploy(v)
  BY DEF Ephemeral!Deploy, DeployVM, IInv, TypeOK, ServicesTypeOK, VMState
<1>2. QED
  BY <1>1 DEF Ephemeral!Next

\* A deployment that fails leaves nothing behind that has a name.
LEMMA FailedDeployStep ==
    ASSUME IInv, DeployVMFails, UNCHANGED registration
    PROVE  UNCHANGED Ephemeral!vars
BY DEF Ephemeral!vars, DeployVMFails, IInv, TypeOK, ServicesTypeOK, VMState

\* A runner is registered for a VM that is up and never had one.
LEMMA RegisterStep ==
    ASSUME IInv, NEW j \in Job, provisioning[j] = "deployed",
           CreateRunner(vmOf[j]), UNCHANGED orkaVMs
    PROVE  Ephemeral!Next
<1>1. PICK v \in VM : v = vmOf[j]
  BY DEF IInv, DeployedVMIsFresh
<1>2. orkaVMs[v] = "up" /\ registration[v] = "none"
  BY <1>1 DEF IInv, DeployedVMIsFresh
<1>3. registration' = [registration EXCEPT ![v] = "registered"]
  BY <1>1 DEF CreateRunner
<1>4. Ephemeral!Register(v)
  BY <1>2, <1>3 DEF Ephemeral!Register, IInv, TypeOK, ServicesTypeOK,
                    Registration
<1>5. QED
  BY <1>4 DEF Ephemeral!Next

\* A registration comes to its end.
LEMMA DeregisterStep ==
    ASSUME IInv, NEW v \in VM, IsRegistered(v), UNCHANGED orkaVMs,
           registration' = [registration EXCEPT ![v] = "gone"]
    PROVE  Ephemeral!Next
<1>1. Ephemeral!Deregister(v)
  BY DEF Ephemeral!Deregister, IsRegistered, IInv, TypeOK, ServicesTypeOK,
         Registration
<1>2. QED
  BY <1>1 DEF Ephemeral!Next

\* A VM without a registration is deleted, or was already.
LEMMA DeleteStep ==
    ASSUME IInv, NEW v \in VM, ~IsRegistered(v), DeleteVM(v),
           orkaVMs[v] \notin {"absent", "unnamed"}, UNCHANGED registration
    PROVE  [Ephemeral!Next]_(Ephemeral!vars)
<1>1. CASE orkaVMs[v] = "deleted"
  <2>1. UNCHANGED orkaVMs
    BY <1>1 DEF DeleteVM, IInv, TypeOK, ServicesTypeOK
  <2>2. QED
    BY <2>1, StutteringStep
<1>2. CASE orkaVMs[v] = "up"
  <2>1. Ephemeral!Delete(v)
    BY <1>2 DEF Ephemeral!Delete, DeleteVM, IsRegistered, IInv, TypeOK,
                ServicesTypeOK, Registration, VMState
  <2>2. QED
    BY <2>1 DEF Ephemeral!Next
<1>3. QED
  BY <1>1, <1>2 DEF IInv, TypeOK, ServicesTypeOK, VMState

-----------------------------------------------------------------------------
(* Every step of the composition is a step of EphemeralRunner or stutters. *)

LEMMA ServicesStepRefines ==
    ASSUME IInv, ServicesNext
    PROVE  [Ephemeral!Next]_(Ephemeral!vars)
<1>1. ASSUME NEW j \in Job, JobQueued(j) \/ JobAssigned(j) \/ JobCanceledEarly(j)
      PROVE  UNCHANGED <<orkaVMs, registration>>
  BY <1>1 DEF JobQueued, JobAssigned, JobCanceledEarly
<1>2. ASSUME NEW j \in Job, NEW v \in VM, JobStarted(j, v)
      PROVE  Ephemeral!Next
  <2>1. Ephemeral!StartJob(v)
    BY <1>2 DEF JobStarted, Ephemeral!StartJob, IInv, TypeOK, ServicesTypeOK,
                Registration
  <2>2. QED
    BY <2>1 DEF Ephemeral!Next
<1>3. ASSUME NEW j \in Job, NEW c \in Result, JobFinished(j, c)
      PROVE  Ephemeral!Next
  <2>1. PICK v \in VM : v = runsOn[j]
    BY <1>3 DEF JobFinished, IInv, RunningJobHasRunner
  <2>2. registration[v] = "busy"
    BY <1>3, <2>1 DEF JobFinished, IInv, RunningJobHasRunner
  <2>3. registration' = [registration EXCEPT ![v] = "ending"] /\ UNCHANGED orkaVMs
    BY <1>3, <2>1 DEF JobFinished
  <2>4. Ephemeral!EndJob(v)
    BY <2>2, <2>3 DEF Ephemeral!EndJob, IInv, TypeOK, ServicesTypeOK, Registration
  <2>5. QED
    BY <2>4 DEF Ephemeral!Next
<1>4. ASSUME NEW j \in Job, RunnerLost(j)
      PROVE  Ephemeral!Next
  <2>1. PICK v \in VM : v = runsOn[j]
    BY <1>4 DEF RunnerLost, IInv, RunningJobHasRunner
  <2>2. registration[v] = "busy"
    BY <1>4, <2>1 DEF RunnerLost, IInv, RunningJobHasRunner
  <2>3. registration' = [registration EXCEPT ![v] = "gone"] /\ UNCHANGED orkaVMs
    BY <1>4, <2>1 DEF RunnerLost
  <2>4. QED
    BY <2>2, <2>3, DeregisterStep DEF IsRegistered
<1>5. ASSUME NEW v \in VM, RunnerLeaves(v)
      PROVE  Ephemeral!Next
  BY <1>5, DeregisterStep DEF RunnerLeaves, IsDeletable, IsRegistered
<1>6. QED
  BY <1>1, <1>2, <1>3, <1>4, <1>5, StutteringStep DEF ServicesNext

LEMMA ProvisioningStepRefines ==
    ASSUME IInv, NEW j \in Job, ProvisioningStep(j)
    PROVE  [Ephemeral!Next]_(Ephemeral!vars)
<1>1. ASSUME NEW v \in VM, DeploySucceeds(j, v) PROVE Ephemeral!Next
  BY <1>1, DeployStep DEF DeploySucceeds
<1>2. ASSUME DeployFails(j) PROVE UNCHANGED Ephemeral!vars
  BY <1>2, FailedDeployStep DEF DeployFails
<1>3. ASSUME CreateRunnerSucceeds(j) PROVE Ephemeral!Next
  BY <1>3, RegisterStep DEF CreateRunnerSucceeds
<1>4. ASSUME ProvisioningFails(j) PROVE [Ephemeral!Next]_(Ephemeral!vars)
  <2>1. CASE UNCHANGED registration
    BY <1>4, <2>1, StutteringStep DEF ProvisioningFails
  <2>2. CASE CreateRunner(vmOf[j])
    BY <1>4, <2>2, RegisterStep DEF ProvisioningFails
  <2>3. QED
    BY <1>4, <2>1, <2>2 DEF ProvisioningFails
<1>5. ASSUME ProvisioningCleanedUp(j) PROVE UNCHANGED Ephemeral!vars
  BY <1>5, StutteringStep DEF ProvisioningCleanedUp, servicesVars
<1>6. QED
  BY <1>1, <1>2, <1>3, <1>4, <1>5 DEF ProvisioningStep

LEMMA CleanupStepRefines ==
    ASSUME IInv, NEW v \in VM, CleanupStep(v)
    PROVE  [Ephemeral!Next]_(Ephemeral!vars)
<1>1. ASSUME \/ RunnerDeregistered(v)
             \/ DeregistrationTimesOut(v)
             \/ ForceDeleteLooksUp(v)
             \/ ForceDeleteRefused(v)
      PROVE  UNCHANGED <<orkaVMs, registration>>
  BY <1>1 DEF RunnerDeregistered, DeregistrationTimesOut, ForceDeleteLooksUp,
              ForceDeleteRefused, servicesVars
<1>2. ASSUME ForceDeleteSucceeds(v) PROVE Ephemeral!Next
  BY <1>2, DeregisterStep
  DEF ForceDeleteSucceeds, IsDeletable, IsRegistered, DeleteRunner
<1>3. ASSUME ForceDeleteFails(v) PROVE [Ephemeral!Next]_(Ephemeral!vars)
  <2>1. CASE UNCHANGED registration
    BY <1>3, <2>1, StutteringStep DEF ForceDeleteFails
  <2>2. CASE IsDeletable(v) /\ DeleteRunner(v)
    BY <1>3, <2>2, DeregisterStep
    DEF ForceDeleteFails, IsDeletable, IsRegistered, DeleteRunner
  <2>3. QED
    BY <1>3, <2>1, <2>2 DEF ForceDeleteFails
<1>4. ASSUME DeleteVMReturns(v) PROVE [Ephemeral!Next]_(Ephemeral!vars)
  <2>1. ~IsRegistered(v)
    BY <1>4 DEF DeleteVMReturns, IInv, DeletingVMHasNoRunner
  <2>2. orkaVMs[v] \notin {"absent", "unnamed"}
    BY <1>4 DEF DeleteVMReturns, IInv, UnknownVMIsUntouched
  <2>3. CASE DeleteVM(v)
    BY <1>4, <2>1, <2>2, <2>3, DeleteStep DEF DeleteVMReturns
  <2>4. CASE UNCHANGED orkaVMs
    BY <1>4, <2>4, StutteringStep DEF DeleteVMReturns
  <2>5. QED
    BY <1>4, <2>3, <2>4 DEF DeleteVMReturns
<1>5. QED
  BY <1>1, <1>2, <1>3, <1>4, StutteringStep DEF CleanupStep

LEMMA TrackerStepRefines ==
    ASSUME IInv, TrackerStep
    PROVE  [Ephemeral!Next]_(Ephemeral!vars)
<1>1. ASSUME \/ Tick
             \/ \E v \in VM : LookUpRunner(v) \/ LookUpFails(v)
             \/ Strike
             \/ ResetStrikes
             \/ UntrackOrphan
      PROVE  UNCHANGED <<orkaVMs, registration>>
  BY <1>1 DEF Tick, LookUpRunner, LookUpFails, Strike, ResetStrikes,
              UntrackOrphan, servicesVars
<1>2. ASSUME verdict = "orphaned", DeleteVM(checked), UNCHANGED registration
      PROVE  [Ephemeral!Next]_(Ephemeral!vars)
  <2>1. checked \in VM /\ registration[checked] = "gone"
    BY <1>2 DEF IInv, TypeOK, TrackerTypeOK, TrackedVMHadRunner
  <2>2. ~IsRegistered(checked) /\ orkaVMs[checked] \notin {"absent", "unnamed"}
    BY <2>1 DEF IsRegistered, IInv, UnknownVMIsUntouched
  <2>3. QED
    BY <1>2, <2>1, <2>2, DeleteStep
<1>3. ASSUME DeleteOrphan PROVE [Ephemeral!Next]_(Ephemeral!vars)
  BY <1>2, <1>3 DEF DeleteOrphan
<1>4. ASSUME DeleteOrphanFails PROVE [Ephemeral!Next]_(Ephemeral!vars)
  BY <1>2, <1>4, StutteringStep DEF DeleteOrphanFails
<1>5. QED
  BY <1>1, <1>3, <1>4, StutteringStep DEF TrackerStep

LEMMA ProcessorStepRefines ==
    ASSUME IInv,
           \/ LoopStep
           \/ \E j \in Job : GoroutineStep(j)
           \/ \E v \in VM : AfterFuncStep(v)
           \/ ProcessExits
           \/ TerminationSignal
    PROVE  [Ephemeral!Next]_(Ephemeral!vars)
<1>1. ASSUME LoopStep \/ ProcessExits \/ TerminationSignal
      PROVE  UNCHANGED <<orkaVMs, registration>>
  BY <1>1 DEF LoopStep, ReceiveMessage, HandleJobAvailable, HandleJobAssigned,
              HandleJobCompleted, Handles, AcquireAvailableJobs, DeleteMessage,
              ProcessExits, TerminationSignal, servicesVars
<1>2. ASSUME NEW j \in Job, GoroutineStep(j)
      PROVE  [Ephemeral!Next]_(Ephemeral!vars)
  <2>1. CASE CommandsSent(j)
    <3>1. UNCHANGED Ephemeral!vars
      BY <2>1 DEF CommandsSent, Ephemeral!vars, IInv, TypeOK, ServicesTypeOK,
                  Registration
    <3>2. QED
      BY <3>1
  <2>2. CASE ProvisioningStep(j)
    BY <2>2, ProvisioningStepRefines
  <2>3. CASE \/ StartAttempt(j) \/ GiveUpCanceledJob(j) \/ AttemptReturns(j)
             \/ BackOffEnds(j) \/ StoreRunnerContextCancel(j) \/ TrackRunner(j)
             \/ ExecutionCanceled(j) \/ CommandsExit(j) \/ ConnectionFails(j)
             \/ CancelOwnContext(j) \/ RemoveUpstreamCanceledJob(j)
    <3>1. UNCHANGED <<orkaVMs, registration>>
      BY <2>3 DEF StartAttempt, GiveUpCanceledJob, AttemptReturns, BackOffEnds,
                  StoreRunnerContextCancel, TrackRunner, ExecutionCanceled,
                  CommandsExit, ConnectionFails, CancelOwnContext,
                  RemoveUpstreamCanceledJob, servicesVars
    <3>2. QED
      BY <3>1, StutteringStep
  <2>4. QED
    BY <1>2, <2>1, <2>2, <2>3 DEF GoroutineStep
<1>3. ASSUME NEW v \in VM, AfterFuncStep(v)
      PROVE  [Ephemeral!Next]_(Ephemeral!vars)
  <2>1. CASE CleanupStep(v)
    BY <2>1, CleanupStepRefines
  <2>2. CASE AfterFuncStarts(v) \/ AfterFuncUntracks(v)
    BY <2>2, StutteringStep DEF AfterFuncStarts, AfterFuncUntracks, servicesVars
  <2>3. QED
    BY <1>3, <2>1, <2>2 DEF AfterFuncStep
<1>4. QED
  BY <1>1, <1>2, <1>3, StutteringStep

LEMMA StepRefines ==
    ASSUME IInv, [Next]_vars
    PROVE  [Ephemeral!Next]_(Ephemeral!vars)
<1>1. CASE UNCHANGED vars
  BY <1>1, StutteringStep DEF vars, servicesVars
<1>2. CASE Next
  BY <1>2, ServicesStepRefines, TrackerStepRefines, ProcessorStepRefines
  DEF Next, ProcessNext
<1>3. QED
  BY <1>1, <1>2

-----------------------------------------------------------------------------

\* Goroutines, tracker and message loop together treat each VM and its runner
\* as EphemeralRunner says.
THEOREM Refinement == Spec => ImplementsEphemeralRunner
<1>1. Init => Ephemeral!Init
  BY DEF Init, ServicesInit, Ephemeral!Init
<1>2. IInv /\ [Next]_vars => [Ephemeral!Next]_(Ephemeral!vars)
  BY StepRefines
<1>3. QED
  BY <1>1, <1>2, InvariantHolds, PTL
  DEF Spec, ImplementsEphemeralRunner, Ephemeral!Spec

\* EphemeralRunner deletes a VM in one way only.
LEMMA DeletionStep ==
    ASSUME [Ephemeral!Next]_(Ephemeral!vars), NEW v \in VM,
           orkaVMs[v] = "up", orkaVMs'[v] = "deleted"
    PROVE  ~IsRegistered(v)
<1>1. Ephemeral!Delete(v)
  BY DEF Ephemeral!Next, Ephemeral!vars, Ephemeral!Deploy, Ephemeral!Register,
         Ephemeral!StartJob, Ephemeral!EndJob, Ephemeral!Deregister,
         Ephemeral!Delete
<1>2. QED
  BY <1>1 DEF Ephemeral!Delete, IsRegistered

\* No step of any goroutine deletes a VM whose runner is still registered.
THEOREM NoDeletionUnderRegistration == Spec => VMDeletedOnlyWithoutRunner
<1>1. IInv /\ [Next]_vars =>
        [\A v \in VM : orkaVMs[v] = "up" /\ orkaVMs'[v] = "deleted"
                          => ~IsRegistered(v)]_vars
  BY StepRefines, DeletionStep
<1>2. QED
  BY <1>1, InvariantHolds, PTL DEF Spec, VMDeletedOnlyWithoutRunner

=============================================================================
