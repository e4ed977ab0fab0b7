----------------------- MODULE RunnerAccounting_proofs -----------------------
(***************************************************************************)
(* No VM is lost from sight, for every number of jobs and VMs.  The        *)
(* argument has two parts: each job gets at most one goroutine, since      *)
(* GitHub assigns it once and each message is taken from the queue once;   *)
(* and each VM is handed on from its goroutine to its runner context and   *)
(* from there to its cleanup.                                              *)
(***************************************************************************)
EXTENDS RunnerInvariant_proofs

QueueInv == MessageIsHandledWhole /\ JobAssignedOnce /\ GoroutineStartsOnce

\* Only an assignment looks like one.
LEMMA AssignedIsDistinct ==
    ASSUME NEW i \in Job, NEW j \in Job, NEW r \in VM \union {NoVM}, NEW c \in Result
    PROVE  /\ Available(i) # Assigned(j)
           /\ Completed(i, r, c) # Assigned(j)
           /\ Assigned(i) = Assigned(j) => i = j
BY DEF Available, Completed, Assigned

\* An event that is no assignment can be queued at any time.
LEMMA QueueOtherEvent ==
    ASSUME IInv, QueueInv, NEW e \in Event, \A j \in Job : e # Assigned(j),
           events' = Append(events, e), UNCHANGED <<batch, goroutine, loop>>,
           \A j \in Job :
              \/ jobState'[j] = jobState[j]
              \/ jobState[j] = "unknown" /\ jobState'[j] = "available"
              \/ jobState'[j] \in {"running", "completed"}
    PROVE  QueueInv'
<1>1. /\ events \in Seq(Event) /\ Len(events) \in Nat
      /\ Len(events') = Len(events) + 1
      /\ \A k \in 1 .. Len(events') :
            events'[k] = IF k <= Len(events) THEN events[k] ELSE e
  BY DEF IInv, TypeOK, ServicesTypeOK
<1>2. \A j \in Job, k \in 1 .. Len(events') :
         events'[k] = Assigned(j) => k \in 1 .. Len(events) /\ events[k] = Assigned(j)
  BY <1>1
<1>3. JobAssignedOnce'
  BY <1>2 DEF QueueInv, JobAssignedOnce, Assigned
<1>4. GoroutineStartsOnce'
  BY <1>2 DEF QueueInv, GoroutineStartsOnce, Assigned
<1>5. QED
  BY <1>3, <1>4 DEF QueueInv, MessageIsHandledWhole

\* GitHub assigns a job that it has not assigned before.
LEMMA QueueAssignment ==
    ASSUME IInv, QueueInv, NEW i \in Job, JobAssigned(i),
           UNCHANGED <<batch, goroutine, loop>>
    PROVE  QueueInv'
<1>1. /\ events \in Seq(Event) /\ Len(events) \in Nat
      /\ Len(events') = Len(events) + 1
      /\ \A k \in 1 .. Len(events') :
            events'[k] = IF k <= Len(events) THEN events[k] ELSE Assigned(i)
  BY DEF JobAssigned, IInv, TypeOK, ServicesTypeOK
<1>2. /\ jobState[i] = "acquired" /\ jobState'[i] = "assigned"
      /\ \A j \in Job : j # i => jobState'[j] = jobState[j]
  BY DEF JobAssigned, IInv, TypeOK, ServicesTypeOK
<1>3. /\ \A k \in 1 .. Len(events) : events[k] # Assigned(i)
      /\ \A k \in 1 .. Len(batch) : batch[k] # Assigned(i)
      /\ goroutine[i] = "none"
  BY <1>2 DEF QueueInv, GoroutineStartsOnce
<1>4. \A j \in Job, k \in 1 .. Len(events') : events'[k] = Assigned(j) =>
         \/ k \in 1 .. Len(events) /\ events[k] = Assigned(j) /\ j # i
         \/ k = Len(events') /\ j = i
  BY <1>1, <1>3 DEF Assigned
<1>5. JobAssignedOnce'
  BY <1>3, <1>4 DEF QueueInv, JobAssignedOnce, Assigned
<1>6. GoroutineStartsOnce'
  BY <1>2, <1>3, <1>4 DEF QueueInv, GoroutineStartsOnce, Assigned
<1>7. QED
  BY <1>5, <1>6 DEF QueueInv, MessageIsHandledWhole

\* A message moves the first events to the empty batch.
LEMMA ReceiveKeepsQueue ==
    ASSUME IInv, QueueInv, ReceiveMessage
    PROVE  QueueInv'
<1>1. PICK n \in 1 .. Len(events) :
         /\ batch' = SubSeq(events, 1, n)
         /\ events' = SubSeq(events, n + 1, Len(events))
  BY DEF ReceiveMessage
<1>2. /\ batch = <<>> /\ loop' = "handling" /\ UNCHANGED <<jobState, goroutine>>
  BY DEF ReceiveMessage, QueueInv, MessageIsHandledWhole
<1>3. events \in Seq(Event) /\ Len(events) \in Nat
      /\ \A k \in 1 .. Len(events) : events[k] \in Event
  BY LenProperties, ElementOfSeq DEF IInv, TypeOK, ServicesTypeOK
<1>4. Len(batch') = n /\ \A k \in 1 .. n : batch'[k] = events[k]
  BY <1>1, <1>3, SubSeqProperties
<1>5. /\ Len(events') = Len(events) - n
      /\ \A k \in 1 .. Len(events) - n : events'[k] = events[k + n]
  BY <1>1, <1>3, SubSeqProperties
<1>6. JobAssignedOnce'
  <2> SUFFICES ASSUME NEW j \in Job
               PROVE  /\ \A k, l \in 1 .. Len(events') :
                            events'[k] = Assigned(j) /\ events'[l] = Assigned(j) => k = l
                      /\ \A k, l \in 1 .. Len(batch') :
                            batch'[k] = Assigned(j) /\ batch'[l] = Assigned(j) => k = l
                      /\ \A k \in 1 .. Len(events'), l \in 1 .. Len(batch') :
                            ~(events'[k] = Assigned(j) /\ batch'[l] = Assigned(j))
    BY DEF JobAssignedOnce, Assigned
  <2>1. \A k, l \in 1 .. Len(events) :
           events[k] = Assigned(j) /\ events[l] = Assigned(j) => k = l
    BY DEF QueueInv, JobAssignedOnce
  <2>2. /\ \A k \in 1 .. Len(events') :
              k + n \in 1 .. Len(events) /\ events'[k] = events[k + n]
        /\ \A k \in 1 .. Len(batch') :
              k \in 1 .. Len(events) /\ k <= n /\ batch'[k] = events[k]
    BY <1>3, <1>4, <1>5
  <2>3. \A k, l \in 1 .. Len(events') :
           events'[k] = Assigned(j) /\ events'[l] = Assigned(j) => k + n = l + n
    BY <2>1, <2>2
  <2>4. \A k \in 1 .. Len(events'), l \in 1 .. Len(batch') :
           ~(events'[k] = Assigned(j) /\ batch'[l] = Assigned(j))
    <3> SUFFICES ASSUME NEW k \in 1 .. Len(events'), NEW l \in 1 .. Len(batch'),
                        events'[k] = Assigned(j), batch'[l] = Assigned(j)
                 PROVE  FALSE
      OBVIOUS
    <3>1. k + n = l
      BY <2>1, <2>2
    <3>2. QED
      BY <2>2, <3>1
  <2>5. QED
    BY <1>3, <2>1, <2>2, <2>3, <2>4
<1>7. GoroutineStartsOnce'
  BY <1>2, <1>3, <1>4, <1>5 DEF QueueInv, GoroutineStartsOnce, Assigned
<1>8. QED
  BY <1>2, <1>6, <1>7 DEF QueueInv, MessageIsHandledWhole

\* Handling an event removes it from the batch; an assignment starts the
\* goroutine of its job.
LEMMA HandlingKeepsQueue ==
    ASSUME IInv, QueueInv,
           HandleJobAvailable \/ HandleJobAssigned \/ HandleJobCompleted
    PROVE  QueueInv'
<1>1. /\ loop = "handling" /\ batch # <<>> /\ batch' = Tail(batch)
      /\ UNCHANGED <<events, jobState, loop>>
  BY DEF HandleJobAvailable, HandleJobAssigned, HandleJobCompleted, Handles,
         servicesVars
<1>2. batch \in Seq(Event)
  BY DEF IInv, TypeOK, ProcessorTypeOK
<1>3. /\ Head(batch) = batch[1] /\ Head(batch) \in Event /\ Len(batch) \in Nat \ {0}
      /\ Len(batch') = Len(batch) - 1
      /\ \A k \in 1 .. Len(batch') : batch'[k] = batch[k + 1]
  BY <1>1, <1>2, HeadTailProperties, EmptySeq, LenProperties
<1>4. JobAssignedOnce'
  BY <1>1, <1>3 DEF QueueInv, JobAssignedOnce, Assigned
<1>5. CASE UNCHANGED goroutine
  <2>1. GoroutineStartsOnce'
    BY <1>1, <1>3, <1>5 DEF QueueInv, GoroutineStartsOnce, Assigned
  <2>2. QED
    BY <1>1, <1>4, <2>1 DEF QueueInv, MessageIsHandledWhole
<1>6. CASE HandleJobAssigned
  <2>1. Head(batch).type = "JobAssigned"
    BY <1>6 DEF HandleJobAssigned, Handles
  <2>2. PICK i \in Job : batch[1] = Assigned(i)
    BY <1>3, <2>1 DEF Event, Assigned
  <2>3. Head(batch).job = i
    BY <1>3, <2>2 DEF Assigned
  <2>4. \A j \in Job : j # i => goroutine'[j] = goroutine[j]
    BY <1>6, <2>3 DEF HandleJobAssigned, goto, IInv, TypeOK, ProcessorTypeOK
  <2>5. /\ \A k \in 1 .. Len(events) : events[k] # Assigned(i)
        /\ \A k \in 1 .. Len(batch') : batch'[k] # Assigned(i)
    BY <1>3, <2>2 DEF QueueInv, JobAssignedOnce
  <2>6. jobState[i] \notin {"unknown", "available", "acquired"}
    BY <1>3, <2>2 DEF QueueInv, GoroutineStartsOnce
  <2>7. GoroutineStartsOnce'
    BY <1>1, <1>3, <2>4, <2>5, <2>6 DEF QueueInv, GoroutineStartsOnce, Assigned
  <2>8. QED
    BY <1>1, <1>4, <2>7 DEF QueueInv, MessageIsHandledWhole
<1>7. QED
  BY <1>5, <1>6 DEF HandleJobAvailable, HandleJobCompleted

\* The other steps leave the events alone and start no goroutine.
LEMMA QueueUntouched ==
    ASSUME QueueInv, UNCHANGED <<events, batch>>,
           loop' = loop \/ batch = <<>>,
           \A j \in Job : goroutine[j] = "none" => goroutine'[j] = "none",
           \A j \in Job :
              \/ jobState'[j] = jobState[j]
              \/ jobState[j] = "available" /\ jobState'[j] = "acquired"
              \/ jobState[j] = "assigned" /\ jobState'[j] = "running"
    PROVE  QueueInv'
BY DEF QueueInv, MessageIsHandledWhole, JobAssignedOnce, GoroutineStartsOnce, Assigned

LEMMA ServicesKeepQueue ==
    ASSUME IInv, QueueInv, ServicesNext,
           UNCHANGED <<provisionerVars, trackerVars, processorVars>>
    PROVE  QueueInv'
<1> USE DEF IInv, TypeOK, ServicesTypeOK, processorVars
<1>1. ASSUME NEW j \in Job, JobQueued(j) PROVE QueueInv'
  <2>1. Available(j) \in Event /\ \A i \in Job : Available(j) # Assigned(i)
    BY DEF Available, Assigned, Event
  <2>2. QED
    BY <1>1, <2>1, QueueOtherEvent DEF JobQueued
<1>2. ASSUME NEW j \in Job, NEW r \in VM \union {NoVM}, NEW c \in Result,
             events' = Append(events, Completed(j, r, c)),
             jobState' = [jobState EXCEPT ![j] = "completed"]
      PROVE  QueueInv'
  <2>1. Completed(j, r, c) \in Event /\ \A i \in Job : Completed(j, r, c) # Assigned(i)
    BY DEF Completed, Assigned, Event
  <2>2. QED
    BY <1>2, <2>1, QueueOtherEvent
<1>3. ASSUME NEW j \in Job, JobAssigned(j) PROVE QueueInv'
  BY <1>3, QueueAssignment
<1>4. ASSUME NEW j \in Job, NEW v \in VM, JobStarted(j, v) PROVE QueueInv'
  BY <1>4, QueueUntouched DEF JobStarted
<1>5. ASSUME NEW j \in Job, NEW c \in Result, JobFinished(j, c) PROVE QueueInv'
  BY <1>2, <1>5 DEF JobFinished
<1>6. ASSUME NEW j \in Job, JobCanceledEarly(j) PROVE QueueInv'
  BY <1>2, <1>6 DEF JobCanceledEarly, Result
<1>7. ASSUME NEW j \in Job, RunnerLost(j) PROVE QueueInv'
  BY <1>2, <1>7 DEF RunnerLost, Result
<1>8. ASSUME NEW v \in VM, RunnerLeaves(v) PROVE QueueInv'
  BY <1>8, QueueUntouched DEF RunnerLeaves
<1>9. QED
  BY <1>1, <1>3, <1>4, <1>5, <1>6, <1>7, <1>8 DEF ServicesNext

LEMMA GoroutineKeepsQueue ==
    ASSUME IInv, QueueInv, NEW j \in Job, GoroutineStep(j)
    PROVE  QueueInv'
<1>1. CASE ProvisioningStep(j) /\ UNCHANGED <<trackerVars, processorVars>>
  <2>1. UNCHANGED <<events, jobState>>
    BY <1>1 DEF ProvisioningStep, DeploySucceeds, DeployFails,
                CreateRunnerSucceeds, ProvisioningFails, ProvisioningCleanedUp,
                servicesVars
  <2>2. QED
    BY <1>1, <2>1, QueueUntouched DEF processorVars
<1>2. CASE \/ StartAttempt(j) \/ GiveUpCanceledJob(j) \/ AttemptReturns(j)
           \/ BackOffEnds(j) \/ StoreRunnerContextCancel(j) \/ TrackRunner(j)
           \/ CommandsSent(j) \/ ExecutionCanceled(j) \/ CommandsExit(j)
           \/ ConnectionFails(j) \/ CancelOwnContext(j)
           \/ RemoveUpstreamCanceledJob(j)
  <2>1. UNCHANGED <<events, jobState, batch, loop>>
    BY <1>2 DEF StartAttempt, GiveUpCanceledJob, AttemptReturns,
                BackOffEnds, StoreRunnerContextCancel, TrackRunner, CommandsSent,
                ExecutionCanceled, CommandsExit, ConnectionFails,
                CancelOwnContext, RemoveUpstreamCanceledJob, servicesVars,
                messageVars
  <2>2. goroutine[j] # "none"
    BY <1>2 DEF StartAttempt, GiveUpCanceledJob, AttemptReturns,
                BackOffEnds, StoreRunnerContextCancel, TrackRunner, CommandsSent,
                ExecutionCanceled, CommandsExit, ConnectionFails,
                CancelOwnContext, RemoveUpstreamCanceledJob
  <2>3. \E label : goto(j, label)
    BY <1>2 DEF StartAttempt, GiveUpCanceledJob, AttemptReturns,
                BackOffEnds, StoreRunnerContextCancel, TrackRunner, CommandsSent,
                ExecutionCanceled, CommandsExit, ConnectionFails,
                CancelOwnContext, RemoveUpstreamCanceledJob
  <2>4. \A i \in Job : i # j => goroutine'[i] = goroutine[i]
    BY <2>3 DEF goto, IInv, TypeOK, ProcessorTypeOK
  <2>5. QED
    BY <2>1, <2>2, <2>4, QueueUntouched
<1>3. QED
  BY <1>1, <1>2 DEF GoroutineStep

LEMMA StepKeepsQueue ==
    ASSUME IInv, QueueInv, [Next]_vars
    PROVE  QueueInv'
<1>1. CASE ServicesNext /\ UNCHANGED <<provisionerVars, trackerVars, processorVars>>
  BY <1>1, ServicesKeepQueue
<1>2. CASE ReceiveMessage
  BY <1>2, ReceiveKeepsQueue
<1>3. CASE HandleJobAvailable \/ HandleJobAssigned \/ HandleJobCompleted
  BY <1>3, HandlingKeepsQueue
<1>4. CASE AcquireAvailableJobs
  BY <1>4, QueueUntouched DEF AcquireAvailableJobs, AcquireJobs
<1>5. CASE DeleteMessage
  BY <1>5, QueueUntouched DEF DeleteMessage, servicesVars, QueueInv,
     MessageIsHandledWhole
<1>6. CASE \E j \in Job : GoroutineStep(j)
  BY <1>6, GoroutineKeepsQueue
<1>7. CASE \E v \in VM : AfterFuncStep(v)
  <2>1. PICK v \in VM : AfterFuncStep(v)
    BY <1>7
  <2>2. UNCHANGED <<events, jobState, batch, loop, goroutine>>
    BY <2>1 DEF AfterFuncStep, AfterFuncStarts, AfterFuncUntracks, CleanupStep,
                RunnerDeregistered, DeregistrationTimesOut, ForceDeleteLooksUp,
                ForceDeleteSucceeds, ForceDeleteRefused, ForceDeleteFails,
                DeleteVMReturns, servicesVars, processorVars, messageVars
  <2>3. QED
    BY <2>2, QueueUntouched
<1>8. CASE TrackerStep /\ UNCHANGED <<provisionerVars, processorVars>>
  <2>1. UNCHANGED <<events, jobState>>
    BY <1>8 DEF TrackerStep, Tick, LookUpRunner, LookUpFails, Strike,
                ResetStrikes, DeleteOrphan, DeleteOrphanFails, UntrackOrphan,
                servicesVars
  <2>2. QED
    BY <1>8, <2>1, QueueUntouched DEF processorVars
<1>9. CASE ProcessExits \/ TerminationSignal \/ UNCHANGED vars
  BY <1>9, QueueUntouched
  DEF ProcessExits, TerminationSignal, vars, servicesVars, processorVars
<1>10. QED
  BY <1>1, <1>2, <1>3, <1>4, <1>5, <1>6, <1>7, <1>8, <1>9
  DEF Next, ProcessNext, LoopStep

-----------------------------------------------------------------------------
(* A VM is handed on.                                                      *)

\* The VMs of S are accounted for.
HandOver(S) ==
    /\ ProvisioningIsAwaited
    /\ process = "running" =>
          \A v \in S : orkaVMs[v] = "up" => AccountedFor(v)

LEMMA ProvisioningHandsOver ==
    ASSUME IInv, NEW S \in SUBSET VM, HandOver(S), NEW j \in Job, ProvisioningStep(j),
           UNCHANGED processorVars
    PROVE  HandOver(S)'
<1> USE DEF HandOver, ProvisioningIsAwaited, AccountedFor,
        HeldByGoroutine, CleanupGaveUp, processorVars, servicesVars,
        IInv, TypeOK, ServicesTypeOK, ProvisionerTypeOK
<1>1. ASSUME NEW v \in VM, DeploySucceeds(j, v) PROVE HandOver(S)'
  BY <1>1 DEF DeploySucceeds, DeployVM
<1>2. ASSUME DeployFails(j) PROVE HandOver(S)'
  BY <1>2 DEF DeployFails, DeployVMFails
<1>3. ASSUME CreateRunnerSucceeds(j) PROVE HandOver(S)'
  BY <1>3 DEF CreateRunnerSucceeds
<1>4. ASSUME ProvisioningFails(j) PROVE HandOver(S)'
  BY <1>4 DEF ProvisioningFails, DeployedVMIsFresh
<1>5. ASSUME ProvisioningCleanedUp(j) PROVE HandOver(S)'
  BY <1>5 DEF ProvisioningCleanedUp
<1>6. QED
  BY <1>1, <1>2, <1>3, <1>4, <1>5 DEF ProvisioningStep

LEMMA CleanupHandsOver ==
    ASSUME IInv, NEW S \in SUBSET VM, HandOver(S), NEW v \in VM, CleanupStep(v),
           UNCHANGED processorVars
    PROVE  HandOver(S)'
<1>1. /\ UNCHANGED <<provisioning, vmOf>>
      /\ \A w \in VM : orkaVMs'[w] = "up" => orkaVMs[w] = "up"
      /\ \A w \in VM : cleanup[w] = "returned" => cleanup'[w] = "returned"
  BY DEF CleanupStep, RunnerDeregistered, DeregistrationTimesOut,
         ForceDeleteLooksUp, ForceDeleteSucceeds, ForceDeleteRefused,
         ForceDeleteFails, DeleteVMReturns, DeleteVM, servicesVars,
         IInv, TypeOK, ServicesTypeOK, ProvisionerTypeOK
<1>2. QED
  BY <1>1 DEF HandOver, ProvisioningIsAwaited, AccountedFor,
        HeldByGoroutine, CleanupGaveUp, processorVars

LEMMA TrackerHandsOver ==
    ASSUME IInv, NEW S \in SUBSET VM, HandOver(S), TrackerStep,
           UNCHANGED <<provisionerVars, processorVars>>
    PROVE  HandOver(S)'
<1>1. \A w \in VM : orkaVMs'[w] = "up" => orkaVMs[w] = "up"
  BY DEF TrackerStep, Tick, LookUpRunner, LookUpFails, Strike, ResetStrikes,
         DeleteOrphan, DeleteOrphanFails, UntrackOrphan, DeleteVM, servicesVars,
         IInv, TypeOK, ServicesTypeOK
<1>2. QED
  BY <1>1 DEF HandOver, ProvisioningIsAwaited, AccountedFor,
        HeldByGoroutine, CleanupGaveUp, processorVars, provisionerVars

LEMMA GoroutineHandsOver ==
    ASSUME IInv, NEW S \in SUBSET VM, HandOver(S), NEW j \in Job, GoroutineStep(j)
    PROVE  HandOver(S)'
<1> USE DEF HandOver, ProvisioningIsAwaited, AccountedFor,
        HeldByGoroutine, CleanupGaveUp, servicesVars, provisionerVars,
        messageVars, goto, IInv, TypeOK, ServicesTypeOK, ProvisionerTypeOK,
        ProcessorTypeOK
<1>1. ASSUME StartAttempt(j) PROVE HandOver(S)'
  BY <1>1 DEF StartAttempt, ProvisionRunner
<1>2. ASSUME GiveUpCanceledJob(j) PROVE HandOver(S)'
  BY <1>2 DEF GiveUpCanceledJob
<1>3. ASSUME AttemptReturns(j) PROVE HandOver(S)'
  BY <1>3 DEF AttemptReturns, ContextDone
<1>4. ASSUME BackOffEnds(j) PROVE HandOver(S)'
  BY <1>4 DEF BackOffEnds
<1>5. ASSUME StoreRunnerContextCancel(j) PROVE HandOver(S)'
  BY <1>5 DEF StoreRunnerContextCancel, ProvisionedVMHadRunner
<1>6. ASSUME TrackRunner(j) PROVE HandOver(S)'
  BY <1>6 DEF TrackRunner
<1>7. ASSUME CommandsSent(j) PROVE HandOver(S)'
  BY <1>7 DEF CommandsSent
<1>8. ASSUME ExecutionCanceled(j) PROVE HandOver(S)'
  BY <1>8 DEF ExecutionCanceled
<1>9. ASSUME CommandsExit(j) PROVE HandOver(S)'
  BY <1>9 DEF CommandsExit
<1>10. ASSUME ConnectionFails(j) PROVE HandOver(S)'
  BY <1>10 DEF ConnectionFails
<1>11. ASSUME CancelOwnContext(j) PROVE HandOver(S)'
  BY <1>11 DEF CancelOwnContext, CancelRunnerContext
<1>12. ASSUME RemoveUpstreamCanceledJob(j) PROVE HandOver(S)'
  BY <1>12 DEF RemoveUpstreamCanceledJob
<1>13. ASSUME ProvisioningStep(j), UNCHANGED <<trackerVars, processorVars>>
       PROVE  HandOver(S)'
  BY <1>13, ProvisioningHandsOver
<1>14. QED
  BY <1>1, <1>2, <1>3, <1>4, <1>5, <1>6, <1>7, <1>8, <1>9, <1>10, <1>11,
     <1>12, <1>13 DEF GoroutineStep

LEMMA AfterFuncHandsOver ==
    ASSUME IInv, NEW S \in SUBSET VM, HandOver(S), NEW v \in VM, AfterFuncStep(v)
    PROVE  HandOver(S)'
<1> USE DEF HandOver, ProvisioningIsAwaited, AccountedFor,
        HeldByGoroutine, CleanupGaveUp, servicesVars, provisionerVars,
        messageVars, processorVars, IInv, TypeOK, ServicesTypeOK,
        ProvisionerTypeOK, ProcessorTypeOK
<1>1. ASSUME AfterFuncStarts(v) PROVE HandOver(S)'
  BY <1>1 DEF AfterFuncStarts, CleanupResources
<1>2. ASSUME AfterFuncUntracks(v) PROVE HandOver(S)'
  BY <1>2 DEF AfterFuncUntracks
<1>3. ASSUME CleanupStep(v), UNCHANGED processorVars PROVE HandOver(S)'
  BY <1>3, CleanupHandsOver
<1>4. QED
  BY <1>1, <1>2, <1>3 DEF AfterFuncStep

\* The goroutine that an assignment starts is the first one of its job.
LEMMA LoopHandsOver ==
    ASSUME IInv, QueueInv, NEW S \in SUBSET VM, HandOver(S), LoopStep
    PROVE  HandOver(S)'
<1> USE DEF HandOver, ProvisioningIsAwaited, AccountedFor,
        HeldByGoroutine, CleanupGaveUp, servicesVars, provisionerVars,
        IInv, TypeOK, ServicesTypeOK, ProvisionerTypeOK, ProcessorTypeOK
<1>1. ASSUME ReceiveMessage PROVE HandOver(S)'
  BY <1>1 DEF ReceiveMessage
<1>2. ASSUME HandleJobAvailable PROVE HandOver(S)'
  BY <1>2 DEF HandleJobAvailable, Handles
<1>3. ASSUME HandleJobAssigned PROVE HandOver(S)'
  <2>1. /\ batch \in Seq(Event) /\ batch # <<>>
        /\ Head(batch).type = "JobAssigned"
    BY <1>3 DEF HandleJobAssigned, Handles
  <2>2. Head(batch) = batch[1] /\ Head(batch) \in Event /\ Len(batch) \in Nat \ {0}
    BY <2>1, HeadTailProperties, EmptySeq, LenProperties
  <2>3. PICK i \in Job : batch[1] = Assigned(i)
    BY <2>1, <2>2 DEF Event, Assigned
  <2>4. Head(batch).job = i /\ goroutine[i] = "none"
    BY <2>2, <2>3 DEF Assigned, QueueInv, GoroutineStartsOnce
  <2>5. \A j \in Job : goroutine[j] # "none" => goroutine'[j] = goroutine[j]
    BY <1>3, <2>4 DEF HandleJobAssigned, goto
  <2>6. QED
    BY <1>3, <2>5 DEF HandleJobAssigned, Handles
<1>4. ASSUME HandleJobCompleted PROVE HandOver(S)'
  BY <1>4 DEF HandleJobCompleted, Handles, CancelRunnerContext
<1>5. ASSUME AcquireAvailableJobs PROVE HandOver(S)'
  BY <1>5 DEF AcquireAvailableJobs
<1>6. ASSUME DeleteMessage PROVE HandOver(S)'
  BY <1>6 DEF DeleteMessage
<1>7. QED
  BY <1>1, <1>2, <1>3, <1>4, <1>5, <1>6 DEF LoopStep

LEMMA ServicesHandOver ==
    ASSUME IInv, NEW S \in SUBSET VM, HandOver(S), ServicesNext,
           UNCHANGED <<provisionerVars, trackerVars, processorVars>>
    PROVE  HandOver(S)'
<1>1. UNCHANGED orkaVMs
  BY DEF ServicesNext, JobQueued, JobAssigned, JobStarted, JobFinished,
         JobCanceledEarly, RunnerLost, RunnerLeaves
<1>2. QED
  BY <1>1 DEF HandOver, ProvisioningIsAwaited, AccountedFor,
        HeldByGoroutine, CleanupGaveUp, provisionerVars, processorVars

LEMMA StepHandsOver ==
    ASSUME IInv, QueueInv, NEW S \in SUBSET VM, HandOver(S), [Next]_vars
    PROVE  HandOver(S)'
<1>1. CASE UNCHANGED vars \/ ProcessExits \/ TerminationSignal
  BY <1>1 DEF vars, ProcessExits, TerminationSignal, HandOver,
        ProvisioningIsAwaited, AccountedFor, HeldByGoroutine,
        CleanupGaveUp, servicesVars, provisionerVars, processorVars
<1>2. QED
  BY <1>1, LoopHandsOver, GoroutineHandsOver, AfterFuncHandsOver,
     TrackerHandsOver, ServicesHandOver DEF Next, ProcessNext

LEMMA InitialAccount ==
    ASSUME Init
    PROVE  QueueInv /\ HandOver(VM)
BY DEF Init, ServicesInit, ProvisionerInit, TrackerInit, QueueInv, HandOver,
       MessageIsHandledWhole, JobAssignedOnce, GoroutineStartsOnce,
       ProvisioningIsAwaited

\* GitHub assigns a job once, so each job gets one goroutine, and each goroutine
\* waits for the ProvisionRunner call it made: nobody forgets an attempt.
THEOREM AccountIsKept == Spec => []AccountInv
<1>1. Init => QueueInv /\ HandOver(VM)
  BY InitialAccount
<1>2. IInv /\ QueueInv /\ HandOver(VM) /\ [Next]_vars => QueueInv' /\ HandOver(VM)'
  BY StepKeepsQueue, StepHandsOver
<1>3. QueueInv /\ HandOver(VM) => AccountInv
  BY DEF QueueInv, HandOver, AccountInv, UpVMIsAccountedFor
<1>4. QED
  BY <1>1, <1>2, <1>3, InvariantHolds, PTL DEF Spec

\* While the process runs, every VM that is up and whose name it learned is in
\* the hands of its goroutine or of a runner context that is live with its
\* cancel function stored, or is being cleaned up, or was given up by a cleanup.
THEOREM NoVMIsLostFromSight == Spec => []UpVMIsAccountedFor
<1>1. AccountInv => UpVMIsAccountedFor
  BY DEF AccountInv
<1>2. QED
  BY <1>1, AccountIsKept, PTL

=============================================================================
