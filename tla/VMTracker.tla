------------------------------ MODULE VMTracker ------------------------------
(***************************************************************************)
(* pkg/github/runners/vm_tracker.go: the safety net that deletes VMs whose *)
(* runner GitHub no longer knows.  One goroutine checks all tracked VMs at *)
(* every tick; Track and Untrack are called by the goroutines of the jobs. *)
(*                                                                         *)
(* The mutex is held only while the map is read or written, never over a   *)
(* call to GitHub or Orka: the snapshot, the lookup, the strike, the       *)
(* deletion and the Untrack that follows it are separate steps.            *)
(***************************************************************************)
EXTENDS Services

VARIABLES
    trackedVMs,     \* the strikes of each tracked VM, Untracked for the others
    toCheck,        \* the names of the snapshot that are still to be checked
    checked,        \* the VM the tracker is dealing with, or NoVM
    verdict         \* what it does next about that VM

trackerVars == <<trackedVMs, toCheck, checked, verdict>>

\* The value of trackedVMs for a VM that is not in the map.
Untracked == -1

\* The strikes at which a VM counts as orphaned; counting goes no further,
\* since the code asks for strikes >= 2 only.
MaxStrikes == 2

Verdict == {"none", "missing", "healthy", "orphaned", "deleted"}

TrackerTypeOK ==
    /\ trackedVMs \in [VM -> {Untracked} \union 0 .. MaxStrikes]
    /\ toCheck \in SUBSET VM
    /\ checked \in VM \union {NoVM}
    /\ verdict \in Verdict

TrackerInit ==
    /\ trackedVMs = [v \in VM |-> Untracked]
    /\ toCheck = {}
    /\ checked = NoVM
    /\ verdict = "none"

IsTracked(v) == trackedVMs[v] # Untracked

Track(v) == trackedVMs' = [trackedVMs EXCEPT ![v] = 0]

Untrack(v) == trackedVMs' = [trackedVMs EXCEPT ![v] = Untracked]

-----------------------------------------------------------------------------

\* A tick: the snapshot of the names.
Tick ==
    /\ toCheck = {} /\ verdict = "none"
    /\ toCheck' = {v \in VM : IsTracked(v)}
    /\ UNCHANGED <<servicesVars, trackedVMs, checked, verdict>>

\* GetRunner answers for one of them.
LookUpRunner(v) ==
    /\ v \in toCheck /\ verdict = "none"
    /\ toCheck' = toCheck \ {v}
    /\ checked' = v
    /\ verdict' = IF IsRegistered(v) THEN "healthy" ELSE "missing"
    /\ UNCHANGED <<servicesVars, trackedVMs>>

\* Mutation: an error of GetRunner counts as a missing runner.
FailedLookUpStrikes(v) ==
    /\ v \in toCheck /\ verdict = "none"
    /\ toCheck' = toCheck \ {v}
    /\ checked' = v /\ verdict' = "missing"
    /\ UNCHANGED <<servicesVars, trackedVMs>>

\* GetRunner fails: on to the next VM, the strikes stay as they are.
LookUpFails(v) ==
    /\ v \in toCheck /\ verdict = "none"
    /\ toCheck' = toCheck \ {v}
    /\ UNCHANGED <<servicesVars, trackedVMs, checked, verdict>>

\* Mutation: strikes > 2 where the code asks for strikes >= 2.
StrikeOffByOne ==
    /\ verdict = "missing"
    /\ trackedVMs' = [trackedVMs EXCEPT ![checked] =
                         IF @ < MaxStrikes THEN @ + 1 ELSE @]
    /\ checked' = NoVM /\ verdict' = "none"
    /\ UNCHANGED <<servicesVars, toCheck>>

\* The increment of a missing map entry starts from zero and puts it back.
Strike ==
    /\ verdict = "missing"
    /\ LET before == IF IsTracked(checked) THEN trackedVMs[checked] ELSE 0
           after == IF before < MaxStrikes THEN before + 1 ELSE MaxStrikes
       IN  /\ trackedVMs' = [trackedVMs EXCEPT ![checked] = after]
           /\ verdict' = IF after >= MaxStrikes THEN "orphaned" ELSE "none"
    /\ checked' = IF verdict' = "none" THEN NoVM ELSE checked
    /\ UNCHANGED <<servicesVars, toCheck>>

ResetStrikes ==
    /\ verdict = "healthy"
    /\ trackedVMs' = [trackedVMs EXCEPT ![checked] = 0]
    /\ checked' = NoVM /\ verdict' = "none"
    /\ UNCHANGED <<servicesVars, toCheck>>

\* cleanupOrphanedVM: the VM is deleted or was not found.
DeleteOrphan ==
    /\ verdict = "orphaned"
    /\ DeleteVM(checked)
    /\ verdict' = "deleted"
    /\ UNCHANGED <<registration, jobState, runsOn, events,
                   trackedVMs, toCheck, checked>>

\* The deletion comes back as an error, done or not: the VM stays tracked.
DeleteOrphanFails ==
    /\ verdict = "orphaned"
    /\ DeleteVM(checked) \/ UNCHANGED orkaVMs
    /\ checked' = NoVM /\ verdict' = "none"
    /\ UNCHANGED <<registration, jobState, runsOn, events,
                   trackedVMs, toCheck>>

\* Mutation: the deleted VM is not removed from the map.
OrphanStaysTracked ==
    /\ verdict = "deleted"
    /\ checked' = NoVM /\ verdict' = "none"
    /\ UNCHANGED <<servicesVars, trackedVMs, toCheck>>

UntrackOrphan ==
    /\ verdict = "deleted"
    /\ Untrack(checked)
    /\ checked' = NoVM /\ verdict' = "none"
    /\ UNCHANGED <<servicesVars, toCheck>>

TrackerStep ==
    \/ Tick
    \/ \E v \in VM : LookUpRunner(v) \/ LookUpFails(v)
    \/ Strike
    \/ ResetStrikes
    \/ DeleteOrphan
    \/ DeleteOrphanFails
    \/ UntrackOrphan

=============================================================================
