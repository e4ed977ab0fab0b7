------------------------ MODULE RunnerAttempts_proofs ------------------------
(***************************************************************************)
(* The attempts to provision do not pile up, and only a job that is over   *)
(* is given up, for every number of jobs and VMs.  This rests on what a    *)
(* goroutine leaves behind when it goes round its retry loop and on what a *)
(* message says of a job.                                                  *)
(***************************************************************************)
EXTENDS RunnerAccounting_proofs

-----------------------------------------------------------------------------
(* Attempts.                                                               *)

Counts(v) == orkaVMs[v] = "up" /\ cleanup[v] # "returned"

\* A VM of S that counts belongs to a goroutine, and a goroutine that is between
\* two attempts has none.  S are the VMs of the run: all of them in the first one.
AttemptInv(S) ==
    /\ \A v \in S : Counts(v) => \E j \in Job : vmOf[j] = v /\ goroutine[j] # "none"
    /\ \A j \in Job : provisioning[j] \in {"none", "deploying", "failed"} =>
          vmOf[j] = NoVM \/ cleanup[vmOf[j]] = "returned"
    /\ \A j \in Job : goroutine[j] \in {"none", "retrying", "backingOff"} =>
          provisioning[j] \in {"none", "failed"}

LEMMA ProvisioningKeepsAttempts ==
    ASSUME IInv, NEW S \in SUBSET VM, HandOver(S), AttemptInv(S), NEW j \in Job,
           ProvisioningStep(j), UNCHANGED processorVars
    PROVE  AttemptInv(S)'
<1> USE DEF HandOver, AttemptInv, Counts, ProvisioningIsAwaited, processorVars,
        servicesVars, IInv, TypeOK, ServicesTypeOK, ProvisionerTypeOK, ProcessorTypeOK
<1>1. goroutine[j] = "provisioning"
  BY DEF ProvisioningStep, DeploySucceeds, DeployFails, CreateRunnerSucceeds,
         ProvisioningFails, ProvisioningCleanedUp
<1>2. ASSUME NEW v \in VM, DeploySucceeds(j, v) PROVE AttemptInv(S)'
  BY <1>1, <1>2, NoVMAssumption DEF DeploySucceeds, DeployVM
<1>3. ASSUME DeployFails(j) PROVE AttemptInv(S)'
  <2>1. \A v \in VM : orkaVMs'[v] = "up" => orkaVMs[v] = "up"
    BY <1>3 DEF DeployFails, DeployVMFails
  <2>2. QED
    BY <1>1, <1>3, <2>1, NoVMAssumption DEF DeployFails
<1>4. ASSUME CreateRunnerSucceeds(j) PROVE AttemptInv(S)'
  BY <1>1, <1>4 DEF CreateRunnerSucceeds
<1>5. ASSUME ProvisioningFails(j) PROVE AttemptInv(S)'
  BY <1>1, <1>5, NoVMAssumption DEF ProvisioningFails, DeployedVMIsFresh
<1>6. ASSUME ProvisioningCleanedUp(j) PROVE AttemptInv(S)'
  BY <1>1, <1>6 DEF ProvisioningCleanedUp
<1>7. QED
  BY <1>2, <1>3, <1>4, <1>5, <1>6 DEF ProvisioningStep

LEMMA GoroutineKeepsAttempts ==
    ASSUME IInv, NEW S \in SUBSET VM, HandOver(S), AttemptInv(S), NEW j \in Job,
           GoroutineStep(j)
    PROVE  AttemptInv(S)'
<1> USE DEF AttemptInv, Counts, goto, messageVars, servicesVars, provisionerVars,
        IInv, TypeOK, ServicesTypeOK, ProvisionerTypeOK, ProcessorTypeOK
<1>1. CASE ProvisioningStep(j) /\ UNCHANGED <<trackerVars, processorVars>>
  BY <1>1, ProvisioningKeepsAttempts
<1>2. CASE StartAttempt(j)
  BY <1>2 DEF StartAttempt, ProvisionRunner
<1>3. CASE AttemptReturns(j)
  BY <1>3 DEF AttemptReturns
<1>4. CASE BackOffEnds(j)
  BY <1>4 DEF BackOffEnds
<1>5. CASE \/ GiveUpCanceledJob(j) \/ StoreRunnerContextCancel(j) \/ TrackRunner(j)
           \/ CommandsSent(j) \/ ExecutionCanceled(j) \/ CommandsExit(j)
           \/ ConnectionFails(j) \/ CancelOwnContext(j) \/ RemoveUpstreamCanceledJob(j)
  BY <1>5 DEF GiveUpCanceledJob, StoreRunnerContextCancel, TrackRunner, CommandsSent,
              ExecutionCanceled, CommandsExit, ConnectionFails, CancelOwnContext,
              RemoveUpstreamCanceledJob
<1>6. QED
  BY <1>1, <1>2, <1>3, <1>4, <1>5 DEF GoroutineStep

\* A VM counts no more when its cleanup has returned, and a returned cleanup
\* does not start again.
LEMMA CleanupKeepsAttempts ==
    ASSUME IInv, NEW S \in SUBSET VM, AttemptInv(S),
           \/ \E v \in VM : AfterFuncStep(v)
           \/ TrackerStep /\ UNCHANGED <<provisionerVars, processorVars>>
    PROVE  AttemptInv(S)'
<1> DEFINE OnlyLess ==
        /\ UNCHANGED <<vmOf, provisioning, goroutine>>
        /\ \A w \in VM : orkaVMs'[w] = "up" => orkaVMs[w] = "up"
        /\ \A w \in VM : cleanup[w] = "returned" => cleanup'[w] = "returned"
<1>1. OnlyLess
  <2> USE DEF DeleteVM, servicesVars, provisionerVars, processorVars, messageVars,
          IInv, TypeOK, ServicesTypeOK, ProvisionerTypeOK
  <2>1. ASSUME NEW v \in VM, AfterFuncStep(v) PROVE OnlyLess
    BY <2>1 DEF AfterFuncStep, AfterFuncStarts, CleanupResources, AfterFuncUntracks,
       CleanupStep, RunnerDeregistered, DeregistrationTimesOut, ForceDeleteLooksUp,
       ForceDeleteSucceeds, ForceDeleteRefused, ForceDeleteFails, DeleteVMReturns
  <2>2. CASE TrackerStep /\ UNCHANGED <<provisionerVars, processorVars>>
    BY <2>2 DEF TrackerStep, Tick, LookUpRunner, LookUpFails, Strike, ResetStrikes,
                DeleteOrphan, DeleteOrphanFails, UntrackOrphan
  <2>3. QED
    BY <2>1, <2>2
<1>2. QED
  BY <1>1 DEF AttemptInv, Counts, IInv, TypeOK, ProvisionerTypeOK

\* The goroutine that an assignment starts is the first one of its job.
LEMMA LoopKeepsAttempts ==
    ASSUME IInv, QueueInv, NEW S \in SUBSET VM, AttemptInv(S), LoopStep
    PROVE  AttemptInv(S)'
<1> USE DEF AttemptInv, Counts, servicesVars, provisionerVars, IInv, TypeOK,
        ProcessorTypeOK
<1>1. CASE ReceiveMessage \/ HandleJobAvailable \/ HandleJobCompleted
           \/ AcquireAvailableJobs \/ DeleteMessage
  BY <1>1 DEF ReceiveMessage, HandleJobAvailable, HandleJobCompleted, Handles,
              AcquireAvailableJobs, DeleteMessage
<1>2. CASE HandleJobAssigned
  <2>1. /\ batch \in Seq(Event) /\ batch # <<>>
        /\ Head(batch).type = "JobAssigned"
    BY <1>2 DEF HandleJobAssigned, Handles
  <2>2. Head(batch) = batch[1] /\ Head(batch) \in Event /\ Len(batch) \in Nat \ {0}
    BY <2>1, HeadTailProperties, EmptySeq, LenProperties
  <2>3. PICK i \in Job : batch[1] = Assigned(i)
    BY <2>1, <2>2 DEF Event, Assigned
  <2>4. Head(batch).job = i /\ goroutine[i] = "none"
    BY <2>2, <2>3 DEF Assigned, QueueInv, GoroutineStartsOnce
  <2>5. \A j \in Job : \/ goroutine'[j] = goroutine[j]
                       \/ goroutine[j] = "none" /\ goroutine'[j] = "retrying"
    BY <1>2, <2>4 DEF HandleJobAssigned, goto
  <2>6. QED
    BY <1>2, <2>5 DEF HandleJobAssigned, Handles
<1>3. QED
  BY <1>1, <1>2 DEF LoopStep

LEMMA StepKeepsAttempts ==
    ASSUME IInv, QueueInv, NEW S \in SUBSET VM, HandOver(S), AttemptInv(S), [Next]_vars
    PROVE  AttemptInv(S)'
<1>1. CASE ServicesNext /\ UNCHANGED <<provisionerVars, trackerVars, processorVars>>
  <2>1. UNCHANGED orkaVMs
    BY <1>1 DEF ServicesNext, JobQueued, JobAssigned, JobStarted, JobFinished,
                JobCanceledEarly, RunnerLost, RunnerLeaves
  <2>2. QED
    BY <1>1, <2>1 DEF AttemptInv, Counts, provisionerVars, processorVars
<1>2. CASE ProcessExits \/ TerminationSignal \/ UNCHANGED vars
  BY <1>2 DEF ProcessExits, TerminationSignal, AttemptInv, Counts, vars, servicesVars,
              provisionerVars, processorVars
<1>3. QED
  BY <1>1, <1>2, LoopKeepsAttempts, GoroutineKeepsAttempts, CleanupKeepsAttempts
  DEF Next, ProcessNext

\* The VMs of S that count are among the ones the goroutines work on.
LEMMA AttemptsAreCounted ==
    ASSUME NEW S \in SUBSET VM, AttemptInv(S)
    PROVE  Cardinality({v \in S : Counts(v)})
              <= Cardinality({j \in Job : goroutine[j] # "none"})
<1> DEFINE C == {v \in S : Counts(v)}
           T == {j \in Job : goroutine[j] # "none"}
           U == {vmOf[j] : j \in T}
           f == [j \in T |-> vmOf[j]]
<1>1. IsFiniteSet(T)
  BY FiniteAssumption, FS_Subset
<1>2. f \in Surjection(T, U)
  BY DEF Surjection
<1>3. IsFiniteSet(U) /\ Cardinality(U) <= Cardinality(T)
  BY <1>1, <1>2, FS_Surjection
<1>4. C \subseteq U
  BY DEF AttemptInv
<1>5. IsFiniteSet(C) /\ Cardinality(C) <= Cardinality(U)
  BY <1>3, <1>4, FS_Subset
<1>6. Cardinality(C) \in Nat /\ Cardinality(T) \in Nat /\ Cardinality(U) \in Nat
  BY <1>1, <1>3, <1>5, FS_CardinalityType
<1>7. QED
  BY <1>3, <1>5, <1>6

\* However often deployments and registrations fail, the VMs that are neither
\* deleted nor given up are no more than the goroutines that were started.
THEOREM AttemptsAreBounded == Spec => []AttemptsDoNotPileUp
<1>1. Init => QueueInv /\ HandOver(VM) /\ AttemptInv(VM)
  <2>1. Init => AttemptInv(VM)
    BY DEF Init, ServicesInit, ProvisionerInit, AttemptInv, Counts
  <2>2. QED
    BY <2>1, InitialAccount
<1>2. IInv /\ QueueInv /\ HandOver(VM) /\ AttemptInv(VM) /\ [Next]_vars
         => QueueInv' /\ HandOver(VM)' /\ AttemptInv(VM)'
  BY StepKeepsQueue, StepHandsOver, StepKeepsAttempts
<1>3. AttemptInv(VM) => AttemptsDoNotPileUp
  BY AttemptsAreCounted DEF AttemptsDoNotPileUp, Counts
<1>4. QED
  BY <1>1, <1>2, <1>3, InvariantHolds, PTL DEF Spec

-----------------------------------------------------------------------------
(* Canceled jobs.                                                          *)

\* The jobs that s reports as completed are over.
EndedIn(s) ==
    \A k \in 1 .. Len(s) : s[k].type = "JobCompleted" => jobState[s[k].job] = "completed"

\* What upstreamCanceledJobs says was read from a message, and a message is
\* made after the fact.
EndedInv == CanceledJobsAreOver /\ EndedIn(events) /\ EndedIn(batch)

JobsThatAreOverStay ==
    \A j \in Job : jobState[j] = "completed" => jobState'[j] = "completed"

LEMMA EndedStays ==
    ASSUME NEW s \in Seq(Event), EndedIn(s), JobsThatAreOverStay
    PROVE  \A k \in 1 .. Len(s) :
              s[k].type = "JobCompleted" => jobState'[s[k].job] = "completed"
<1>1. \A k \in 1 .. Len(s) : s[k] \in Event
  OBVIOUS
<1>2. \A e \in Event : e.job \in Job
  BY DEF Event
<1>3. QED
  BY <1>1, <1>2 DEF EndedIn, JobsThatAreOverStay

\* A part of a sequence reports no more than the sequence does.
LEMMA EndedInPart ==
    ASSUME NEW s \in Seq(Event), EndedIn(s), NEW m \in 1 .. Len(s) + 1,
           NEW n \in 0 .. Len(s)
    PROVE  EndedIn(SubSeq(s, m, n))
<1>1. \A k \in 1 .. Len(SubSeq(s, m, n)) :
         k + m - 1 \in 1 .. Len(s) /\ SubSeq(s, m, n)[k] = s[k + m - 1]
  BY SubSeqProperties, LenProperties
<1>2. QED
  BY <1>1 DEF EndedIn

\* GitHub ends a job with the step that makes the message.
LEMMA ServicesEndJobs ==
    ASSUME IInv, ServicesNext
    PROVE  /\ JobsThatAreOverStay
           /\ \/ UNCHANGED events
              \/ \E e \in Event :
                    /\ events' = Append(events, e)
                    /\ e.type = "JobCompleted" => jobState'[e.job] = "completed"
<1> USE DEF IInv, TypeOK, ServicesTypeOK, JobsThatAreOverStay
<1>1. CASE \E j \in Job : JobQueued(j)
  BY <1>1 DEF JobQueued, Available, Event
<1>2. CASE \E j \in Job : JobAssigned(j)
  BY <1>2 DEF JobAssigned, Assigned, Event
<1>3. ASSUME NEW j \in Job, NEW r \in VM \union {NoVM}, NEW c \in Result,
             events' = Append(events, Completed(j, r, c)),
             jobState' = [jobState EXCEPT ![j] = "completed"]
      PROVE  /\ JobsThatAreOverStay
             /\ \E e \in Event :
                   /\ events' = Append(events, e)
                   /\ e.type = "JobCompleted" => jobState'[e.job] = "completed"
  <2>1. Completed(j, r, c) \in Event /\ Completed(j, r, c).job = j
    BY DEF Completed, Event
  <2>2. QED
    BY <1>3, <2>1
<1>4. ASSUME NEW j \in Job,
             (\E c \in Result : JobFinished(j, c)) \/ JobCanceledEarly(j) \/ RunnerLost(j)
      PROVE  \E r \in VM \union {NoVM}, c \in Result :
                /\ events' = Append(events, Completed(j, r, c))
                /\ jobState' = [jobState EXCEPT ![j] = "completed"]
  BY <1>4 DEF JobFinished, JobCanceledEarly, RunnerLost, Result
<1>5. CASE (\E j \in Job, v \in VM : JobStarted(j, v)) \/ (\E v \in VM : RunnerLeaves(v))
  BY <1>5 DEF JobStarted, RunnerLeaves
<1>6. QED
  BY <1>1, <1>2, <1>3, <1>4, <1>5 DEF ServicesNext

LEMMA ServicesKeepEnded ==
    ASSUME IInv, EndedInv, ServicesNext, UNCHANGED processorVars
    PROVE  EndedInv'
<1>1. CanceledJobsAreOver' /\ EndedIn(batch)'
  BY ServicesEndJobs, EndedStays
  DEF EndedInv, CanceledJobsAreOver, EndedIn, JobsThatAreOverStay, processorVars,
      IInv, TypeOK, ProcessorTypeOK
<1>2. CASE UNCHANGED events
  BY <1>1, <1>2, ServicesEndJobs, EndedStays
  DEF EndedInv, EndedIn, IInv, TypeOK, ServicesTypeOK
<1>3. ASSUME NEW e \in Event, events' = Append(events, e),
             e.type = "JobCompleted" => jobState'[e.job] = "completed"
      PROVE  EndedInv'
  <2>1. /\ Len(events) \in Nat /\ Len(events') = Len(events) + 1
        /\ \A k \in 1 .. Len(events') :
              events'[k] = IF k <= Len(events) THEN events[k] ELSE e
    BY <1>3 DEF IInv, TypeOK, ServicesTypeOK
  <2>2. \A k \in 1 .. Len(events) :
           events[k].type = "JobCompleted" => jobState'[events[k].job] = "completed"
    BY ServicesEndJobs, EndedStays DEF EndedInv, IInv, TypeOK, ServicesTypeOK
  <2>3. EndedIn(events)'
    BY <1>3, <2>1, <2>2 DEF EndedIn
  <2>4. QED
    BY <1>1, <2>3 DEF EndedInv
<1>4. QED
  BY <1>2, <1>3, ServicesEndJobs

\* The message loop reads the message from its head; AcquireJobs touches only
\* jobs that are available.
LEMMA LoopKeepsEnded ==
    ASSUME IInv, EndedInv, LoopStep
    PROVE  EndedInv' /\ JobsThatAreOverStay
<1> USE DEF IInv, TypeOK, ServicesTypeOK, ProcessorTypeOK, servicesVars
<1>1. CASE ReceiveMessage
  <2>1. PICK n \in 1 .. Len(events) : /\ batch' = SubSeq(events, 1, n)
                                     /\ events' = SubSeq(events, n + 1, Len(events))
    BY <1>1 DEF ReceiveMessage
  <2>2. /\ events \in Seq(Event) /\ EndedIn(events) /\ Len(events) \in Nat
        /\ UNCHANGED <<jobState, upstreamCanceledJobs>>
    BY <1>1 DEF ReceiveMessage, EndedInv
  <2>3. EndedIn(SubSeq(events, 1, n)) /\ EndedIn(SubSeq(events, n + 1, Len(events)))
    <3>1. /\ 1 \in 1 .. Len(events) + 1 /\ n \in 0 .. Len(events)
          /\ n + 1 \in 1 .. Len(events) + 1 /\ Len(events) \in 0 .. Len(events)
      BY <2>2
    <3>2. QED
      BY <2>2, <3>1, EndedInPart DEF EndedIn
  <2>4. QED
    BY <2>1, <2>2, <2>3
    DEF EndedInv, CanceledJobsAreOver, EndedIn, JobsThatAreOverStay
<1>2. CASE HandleJobAvailable \/ HandleJobAssigned \/ HandleJobCompleted
  <2>1. /\ batch \in Seq(Event) /\ batch # <<>> /\ batch' = Tail(batch)
        /\ UNCHANGED <<jobState, events>>
    BY <1>2 DEF HandleJobAvailable, HandleJobAssigned, HandleJobCompleted, Handles
  <2>2. /\ Len(batch') = Len(batch) - 1 /\ Len(batch) \in Nat \ {0}
        /\ Head(batch) = batch[1]
        /\ \A k \in 1 .. Len(batch') : batch'[k] = batch[k + 1]
    BY <2>1, HeadTailProperties, EmptySeq, LenProperties
  <2>3. EndedIn(batch)' /\ EndedIn(events)'
    BY <2>1, <2>2 DEF EndedInv, EndedIn
  <2>4. Head(batch).type = "JobCompleted" => jobState[Head(batch).job] = "completed"
    BY <2>2 DEF EndedInv, EndedIn
  <2>5. CanceledJobsAreOver'
    BY <1>2, <2>1, <2>4
    DEF HandleJobAvailable, HandleJobAssigned, HandleJobCompleted, Handles, EndedInv,
        CanceledJobsAreOver
  <2>6. QED
    BY <2>1, <2>3, <2>5 DEF EndedInv, JobsThatAreOverStay
<1>3. CASE AcquireAvailableJobs \/ DeleteMessage
  <2>1. JobsThatAreOverStay
    BY <1>3 DEF AcquireAvailableJobs, AcquireJobs, DeleteMessage, JobsThatAreOverStay
  <2>2. UNCHANGED <<events, batch, upstreamCanceledJobs>>
    BY <1>3 DEF AcquireAvailableJobs, DeleteMessage
  <2>3. QED
    BY <2>1, <2>2, EndedStays
    DEF EndedInv, CanceledJobsAreOver, EndedIn, JobsThatAreOverStay
<1>4. QED
  BY <1>1, <1>2, <1>3 DEF LoopStep

\* Beside the services and the message loop, nobody adds to the set.
LEMMA OthersKeepEnded ==
    ASSUME IInv, EndedInv, ProcessNext, ~LoopStep
    PROVE  EndedInv' /\ JobsThatAreOverStay
<1> DEFINE OnlyRemoves == /\ UNCHANGED <<jobState, events, batch>>
                          /\ upstreamCanceledJobs' \subseteq upstreamCanceledJobs
<1>1. OnlyRemoves
  <2> USE DEF servicesVars, processorVars, messageVars
  <2>1. ASSUME NEW j \in Job, GoroutineStep(j) PROVE OnlyRemoves
    BY <2>1
    DEF GoroutineStep, StartAttempt, GiveUpCanceledJob, AttemptReturns, BackOffEnds,
        StoreRunnerContextCancel, TrackRunner, CommandsSent, ExecutionCanceled,
        CommandsExit, ConnectionFails, CancelOwnContext, RemoveUpstreamCanceledJob,
        ProvisioningStep, DeploySucceeds, DeployFails, CreateRunnerSucceeds,
        ProvisioningFails, ProvisioningCleanedUp
  <2>2. ASSUME NEW v \in VM, AfterFuncStep(v) PROVE OnlyRemoves
    BY <2>2
    DEF AfterFuncStep, AfterFuncStarts, AfterFuncUntracks, CleanupStep,
        RunnerDeregistered, DeregistrationTimesOut, ForceDeleteLooksUp,
        ForceDeleteSucceeds, ForceDeleteRefused, ForceDeleteFails, DeleteVMReturns
  <2>3. CASE \/ TrackerStep /\ UNCHANGED <<provisionerVars, processorVars>>
             \/ ProcessExits \/ TerminationSignal
    BY <2>3
    DEF TrackerStep, Tick, LookUpRunner, LookUpFails, Strike, ResetStrikes,
        DeleteOrphan, DeleteOrphanFails, UntrackOrphan, ProcessExits, TerminationSignal
  <2>4. QED
    BY <2>1, <2>2, <2>3 DEF ProcessNext
<1>2. QED
  BY <1>1 DEF EndedInv, CanceledJobsAreOver, EndedIn, JobsThatAreOverStay

LEMMA StepKeepsEnded ==
    ASSUME IInv, EndedInv, [Next]_vars
    PROVE  EndedInv' /\ JobsThatAreOverStay
<1>1. CASE UNCHANGED vars
  BY <1>1 DEF vars, servicesVars, processorVars, EndedInv, CanceledJobsAreOver,
              EndedIn, JobsThatAreOverStay
<1>2. QED
  BY <1>1, LoopKeepsEnded, OthersKeepEnded, ServicesKeepEnded, ServicesEndJobs DEF Next

\* A goroutine that finds its job in upstreamCanceledJobs gives up a job that
\* needs no runner any more.
THEOREM GivenUpJobsAreOver == Spec => []CanceledJobsAreOver
<1>1. Init => EndedInv
  BY DEF Init, ServicesInit, EndedInv, CanceledJobsAreOver, EndedIn
<1>2. IInv /\ EndedInv /\ [Next]_vars => EndedInv'
  BY StepKeepsEnded
<1>3. EndedInv => CanceledJobsAreOver
  BY DEF EndedInv
<1>4. QED
  BY <1>1, <1>2, <1>3, InvariantHolds, PTL DEF Spec

=============================================================================
