--------------------------- MODULE RunnerInvariant ---------------------------
(***************************************************************************)
(* The inductive invariant of RunnerMessageProcessor.  The properties that *)
(* matter, that no job loses its VM and that no VM is deleted under a      *)
(* registration, rest on what each goroutine may assume about the VM it    *)
(* works on while others move; the conjuncts below say just that.          *)
(***************************************************************************)
EXTENDS RunnerMessageProcessor

\* Nobody knows a VM that was not deployed or whose name got lost.
UnknownVMIsUntouched ==
    \A v \in VM : orkaVMs[v] \in {"absent", "unnamed"} =>
        /\ registration[v] = "none"
        /\ cleanup[v] = "none"
        /\ runnerContext[v] = "none"
        /\ \A j \in Job : vmOf[j] # v

\* No two goroutines work on the same VM.
VMHasOneOwner ==
    \A j1, j2 \in Job : vmOf[j1] = vmOf[j2] /\ vmOf[j1] # NoVM => j1 = j2

\* Between DeployVM and CreateRunner the VM belongs to its goroutine alone.
DeployedVMIsFresh ==
    \A j \in Job : provisioning[j] = "deployed" =>
        /\ vmOf[j] \in VM
        /\ orkaVMs[vmOf[j]] = "up"
        /\ registration[vmOf[j]] = "none"
        /\ cleanup[vmOf[j]] = "none"
        /\ runnerContext[vmOf[j]] = "none"

\* Past provisioning, a goroutine works on a VM for which a runner was
\* registered.
ProvisionedVMHadRunner ==
    \A j \in Job :
        /\ provisioning[j] = "succeeded" =>
              vmOf[j] \in VM /\ registration[vmOf[j]] # "none"
        /\ provisioning[j] = "cleaning" => vmOf[j] \in VM
        /\ goroutine[j] \in {"storing", "tracking", "connecting", "executing",
                             "canceling"} => provisioning[j] = "succeeded"

\* The tracker only deals with VMs for which a runner was registered, so that
\* a runner it does not find has been there and is gone.
TrackedVMHadRunner ==
    /\ \A v \in VM : IsTracked(v) \/ v \in toCheck => registration[v] # "none"
    /\ verdict = "none" <=> checked = NoVM
    /\ verdict # "none" => registration[checked] # "none"
    /\ verdict \in {"missing", "orphaned", "deleted"} =>
          registration[checked] = "gone"

\* When a cleanup comes to delete the VM its runner is gone for good.
DeletingVMHasNoRunner ==
    \A v \in VM : cleanup[v] = "deletingVM" => ~IsRegistered(v)

DeletedVMHasNoRunner ==
    \A v \in VM : orkaVMs[v] = "deleted" => ~IsRegistered(v)

\* Every running job has a busy runner of its own.
RunningJobHasRunner ==
    /\ \A j \in Job : jobState[j] = "running" =>
          runsOn[j] \in VM /\ registration[runsOn[j]] = "busy"
    /\ \A j1, j2 \in Job :
          jobState[j1] = "running" /\ jobState[j2] = "running"
            /\ runsOn[j1] = runsOn[j2] => j1 = j2

StoredCancelHasContext ==
    \A v \in runnerContextCancels : runnerContext[v] # "none"

IInv ==
    /\ TypeOK
    /\ UnknownVMIsUntouched
    /\ VMHasOneOwner
    /\ DeployedVMIsFresh
    /\ ProvisionedVMHadRunner
    /\ TrackedVMHadRunner
    /\ DeletingVMHasNoRunner
    /\ DeletedVMHasNoRunner
    /\ RunningJobHasRunner
    /\ StoredCancelHasContext

-----------------------------------------------------------------------------
(* What keeps the VMs in sight.  GitHub assigns a job once, so no second   *)
(* goroutine starts for it and the one that runs is not forgotten.         *)

\* A message is handled to its end before the next one is taken.
MessageIsHandledWhole == loop # "handling" => batch = <<>>

JobAssignedOnce ==
    \A j \in Job :
        /\ \A k, l \in 1 .. Len(events) :
              events[k] = Assigned(j) /\ events[l] = Assigned(j) => k = l
        /\ \A k, l \in 1 .. Len(batch) :
              batch[k] = Assigned(j) /\ batch[l] = Assigned(j) => k = l
        /\ \A k \in 1 .. Len(events), l \in 1 .. Len(batch) :
              ~(events[k] = Assigned(j) /\ batch[l] = Assigned(j))

\* The goroutine of a job starts with its message.
GoroutineStartsOnce ==
    \A j \in Job :
        /\ \A k \in 1 .. Len(events) : events[k] = Assigned(j) =>
              goroutine[j] = "none" /\ jobState[j] \in {"assigned", "running", "completed"}
        /\ \A k \in 1 .. Len(batch) : batch[k] = Assigned(j) =>
              goroutine[j] = "none" /\ jobState[j] \in {"assigned", "running", "completed"}
        /\ jobState[j] \in {"unknown", "available", "acquired"} =>
              goroutine[j] = "none"

\* A ProvisionRunner call is made by a goroutine that waits for it.
ProvisioningIsAwaited ==
    \A j \in Job :
        provisioning[j] \in {"deploying", "deployed", "cleaning"}
            => goroutine[j] = "provisioning"

AccountInv ==
    /\ MessageIsHandledWhole
    /\ JobAssignedOnce
    /\ GoroutineStartsOnce
    /\ ProvisioningIsAwaited
    /\ UpVMIsAccountedFor

=============================================================================
