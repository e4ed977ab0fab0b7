-------------------------- MODULE RunnerProvisioner --------------------------
(***************************************************************************)
(* pkg/runner-provisioner: ProvisionRunner deploys a VM and registers a    *)
(* runner for it; CleanupResources waits for the runner to deregister,     *)
(* deletes the registration by force after a timeout, and deletes the VM.  *)
(*                                                                         *)
(* Every call to Orka or GitHub is a step of its own, because the callers  *)
(* run in goroutines of their own and the services move between two calls. *)
(* ProvisionRunner runs in the goroutine of a job, so its progress is kept *)
(* per job; a cleanup is about one VM, so its progress is kept per VM.     *)
(***************************************************************************)
EXTENDS Services

VARIABLES
    provisioning,   \* the progress of the ProvisionRunner call of each job
    vmOf,           \* the VM of the latest ProvisionRunner call of each job
    cleanup         \* the progress of cleanupResources for each VM

provisionerVars == <<provisioning, vmOf, cleanup>>

Provisioning == {"none", "deploying", "deployed", "cleaning",
                 "succeeded", "failed"}

Cleanup == {"none", "waiting", "timedOut", "forceDeleting", "deletingVM",
            "returned"}

ProvisionerTypeOK ==
    /\ provisioning \in [Job -> Provisioning]
    /\ vmOf \in [Job -> VM \union {NoVM}]
    /\ cleanup \in [VM -> Cleanup]

ProvisionerInit ==
    /\ provisioning = [j \in Job |-> "none"]
    /\ vmOf = [j \in Job |-> NoVM]
    /\ cleanup = [v \in VM |-> "none"]

-----------------------------------------------------------------------------
(* ProvisionRunner, called by the goroutine of j.                          *)

ProvisionRunner(j) ==
    provisioning' = [provisioning EXCEPT ![j] = "deploying"]

DeploySucceeds(j, v) ==
    /\ provisioning[j] = "deploying"
    /\ DeployVM(v)
    /\ provisioning' = [provisioning EXCEPT ![j] = "deployed"]
    /\ vmOf' = [vmOf EXCEPT ![j] = v]
    /\ UNCHANGED <<registration, jobState, runsOn, events, cleanup>>

DeployFails(j) ==
    /\ provisioning[j] = "deploying"
    /\ DeployVMFails
    /\ provisioning' = [provisioning EXCEPT ![j] = "failed"]
    /\ vmOf' = [vmOf EXCEPT ![j] = NoVM]
    /\ UNCHANGED <<registration, jobState, runsOn, events, cleanup>>

\* The mutex of createRunner makes the call one step.
CreateRunnerSucceeds(j) ==
    /\ provisioning[j] = "deployed"
    /\ CreateRunner(vmOf[j])
    /\ provisioning' = [provisioning EXCEPT ![j] = "succeeded"]
    /\ UNCHANGED <<orkaVMs, jobState, runsOn, events, vmOf, cleanup>>

\* Mutation: the deferred cleanup runs in a goroutine nobody waits for.
ProvisioningFailsAtOnce(j) ==
    /\ provisioning[j] = "deployed"
    /\ UNCHANGED registration \/ CreateRunner(vmOf[j])
    /\ provisioning' = [provisioning EXCEPT ![j] = "failed"]
    /\ cleanup' = [cleanup EXCEPT ![vmOf[j]] = "waiting"]
    /\ UNCHANGED <<orkaVMs, jobState, runsOn, events, vmOf>>

\* No IP mapping for the node, or CreateRunner returns an error, whether or
\* not GitHub registered the runner: the deferred function cleans up.
ProvisioningFails(j) ==
    /\ provisioning[j] = "deployed"
    /\ UNCHANGED registration \/ CreateRunner(vmOf[j])
    /\ provisioning' = [provisioning EXCEPT ![j] = "cleaning"]
    /\ cleanup' = [cleanup EXCEPT ![vmOf[j]] = "waiting"]
    /\ UNCHANGED <<orkaVMs, jobState, runsOn, events, vmOf>>

\* Mutation: ProvisionRunner returns while the cleanup is under way.
ProvisioningNotAwaited(j) ==
    /\ provisioning[j] = "cleaning"
    /\ provisioning' = [provisioning EXCEPT ![j] = "failed"]
    /\ UNCHANGED <<servicesVars, vmOf, cleanup>>

\* The deferred cleanup has returned, and so does ProvisionRunner.
ProvisioningCleanedUp(j) ==
    /\ provisioning[j] = "cleaning"
    /\ cleanup[vmOf[j]] = "returned"
    /\ provisioning' = [provisioning EXCEPT ![j] = "failed"]
    /\ UNCHANGED <<servicesVars, vmOf, cleanup>>

-----------------------------------------------------------------------------
(* cleanupResources.                                                       *)

CleanupResources(v) ==
    cleanup' = [cleanup EXCEPT ![v] = "waiting"]

\* Mutation: an error of GetRunner is taken for a runner that is gone.
DeregisteredOnError(v) ==
    /\ cleanup[v] = "waiting"
    /\ cleanup' = [cleanup EXCEPT ![v] = "deletingVM"]
    /\ UNCHANGED <<servicesVars, provisioning, vmOf>>

\* ensureRunnerDeregistered, the first GetRunner and the one of each tick: a
\* registered runner and an error leave the loop where it is.
RunnerDeregistered(v) ==
    /\ cleanup[v] = "waiting"
    /\ ~IsRegistered(v)
    /\ cleanup' = [cleanup EXCEPT ![v] = "deletingVM"]
    /\ UNCHANGED <<servicesVars, provisioning, vmOf>>

\* Mutation: after the timeout the VM is deleted whatever its runner does.
TimeoutDeletesVM(v) ==
    /\ cleanup[v] = "waiting"
    /\ cleanup' = [cleanup EXCEPT ![v] = "deletingVM"]
    /\ UNCHANGED <<servicesVars, provisioning, vmOf>>

DeregistrationTimesOut(v) ==
    /\ cleanup[v] = "waiting"
    /\ cleanup' = [cleanup EXCEPT ![v] = "timedOut"]
    /\ UNCHANGED <<servicesVars, provisioning, vmOf>>

\* Mutation: the error of GetRunner does not end cleanupResources.
ForceDeleteIgnoresLookup(v) ==
    /\ cleanup[v] = "timedOut"
    /\ cleanup' = [cleanup EXCEPT ![v] = "deletingVM"]
    /\ UNCHANGED <<servicesVars, provisioning, vmOf>>

\* The GetRunner of forceDeleteRunner; its error ends cleanupResources before
\* deleteVM.
ForceDeleteLooksUp(v) ==
    /\ cleanup[v] = "timedOut"
    /\ \E next \in {IF IsRegistered(v) THEN "forceDeleting" ELSE "deletingVM",
                    "returned"} :
          cleanup' = [cleanup EXCEPT ![v] = next]
    /\ UNCHANGED <<servicesVars, provisioning, vmOf>>

ForceDeleteSucceeds(v) ==
    /\ cleanup[v] = "forceDeleting"
    /\ IsDeletable(v)
    /\ DeleteRunner(v)
    /\ cleanup' = [cleanup EXCEPT ![v] = "deletingVM"]
    /\ UNCHANGED <<orkaVMs, jobState, runsOn, events, provisioning, vmOf>>

\* Mutation: a busy runner does not keep the VM from being deleted.
RefusedDeletesVM(v) ==
    /\ cleanup[v] = "forceDeleting"
    /\ registration[v] = "busy"
    /\ cleanup' = [cleanup EXCEPT ![v] = "deletingVM"]
    /\ UNCHANGED <<servicesVars, provisioning, vmOf>>

\* "is currently running a job and cannot be deleted": once more.
ForceDeleteRefused(v) ==
    /\ cleanup[v] = "forceDeleting"
    /\ registration[v] = "busy"
    /\ cleanup' = [cleanup EXCEPT ![v] = "waiting"]
    /\ UNCHANGED <<servicesVars, provisioning, vmOf>>

\* Mutation: every error of DeleteRunner is treated as the busy runner is.
ForceDeleteTriesAgain(v) ==
    /\ cleanup[v] = "forceDeleting"
    /\ UNCHANGED registration \/ (IsDeletable(v) /\ DeleteRunner(v))
    /\ cleanup' = [cleanup EXCEPT ![v] = "waiting"]
    /\ UNCHANGED <<orkaVMs, jobState, runsOn, events, provisioning, vmOf>>

\* Any other error, as of a runner that has left since the lookup, or one of
\* a deletion that took effect: the VM is not deleted.
ForceDeleteFails(v) ==
    /\ cleanup[v] = "forceDeleting"
    /\ UNCHANGED registration \/ (IsDeletable(v) /\ DeleteRunner(v))
    /\ cleanup' = [cleanup EXCEPT ![v] = "returned"]
    /\ UNCHANGED <<orkaVMs, jobState, runsOn, events, provisioning, vmOf>>

\* deleteVM succeeds within its retries, or gives up and logs.
DeleteVMReturns(v) ==
    /\ cleanup[v] = "deletingVM"
    /\ DeleteVM(v) \/ UNCHANGED orkaVMs
    /\ cleanup' = [cleanup EXCEPT ![v] = "returned"]
    /\ UNCHANGED <<registration, jobState, runsOn, events, provisioning, vmOf>>

-----------------------------------------------------------------------------

ProvisioningStep(j) ==
    \/ \E v \in VM : DeploySucceeds(j, v)
    \/ DeployFails(j)
    \/ CreateRunnerSucceeds(j)
    \/ ProvisioningFails(j)
    \/ ProvisioningCleanedUp(j)

CleanupStep(v) ==
    \/ RunnerDeregistered(v)
    \/ DeregistrationTimesOut(v)
    \/ ForceDeleteLooksUp(v)
    \/ ForceDeleteSucceeds(v)
    \/ ForceDeleteRefused(v)
    \/ ForceDeleteFails(v)
    \/ DeleteVMReturns(v)

=============================================================================
