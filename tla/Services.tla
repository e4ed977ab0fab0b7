------------------------------ MODULE Services ------------------------------
(***************************************************************************)
(* The two services the integration drives, as the code in src/ uses them: *)
(*                                                                         *)
(*   - Orka, which deploys and deletes virtual machines;                   *)
(*   - GitHub Actions, which keeps the registrations of the runners and    *)
(*     the jobs, and reports on the jobs through the message queue of the  *)
(*     runner scale set.                                                   *)
(*                                                                         *)
(* Neither is under src/: every action below is an assumption about them.  *)
(* A VM and the runner registered for it share a name, so VM indexes both. *)
(***************************************************************************)
EXTENDS Integers, Sequences, FiniteSets

CONSTANTS
    Job,        \* the jobs of the scale set (JobId and RunnerRequestId)
    VM,         \* the names Orka generates for the VMs
    NoVM        \* the RunnerName of a job that no runner started

ASSUME NoVMAssumption == NoVM \notin VM

ASSUME FiniteAssumption == IsFiniteSet(Job) /\ IsFiniteSet(VM)

VARIABLES
    orkaVMs,        \* what has become of each VM on the Orka cluster
    registration,   \* the registration of each runner at GitHub
    jobState,       \* how far GitHub has come with each job
    runsOn,         \* the runner that is executing a job
    events          \* job messages GitHub has not handed out yet, in order

servicesVars == <<orkaVMs, registration, jobState, runsOn, events>>

(***************************************************************************)
(* "unnamed" is a VM whose deployment came back as an error: it exists,    *)
(* and the program never learns its name.                                  *)
(***************************************************************************)
VMState == {"absent", "up", "unnamed", "deleted"}

(***************************************************************************)
(* "registered": the JIT configuration exists, run.sh has not started;     *)
(* "online": run.sh waits for a job; "ending": the job is over, the        *)
(* ephemeral runner has not deregistered yet.                              *)
(***************************************************************************)
Registration == {"none", "registered", "online", "busy", "ending", "gone"}

JobState ==
    {"unknown", "available", "acquired", "assigned", "running", "completed"}

\* "canceled" stands for canceled, ignored and abandoned.
Result == {"succeeded", "canceled"}

Event ==
    [type : {"JobAvailable", "JobAssigned"}, job : Job]
        \union
    [type : {"JobCompleted"}, job : Job, runner : VM \union {NoVM},
     result : Result]

Available(j) == [type |-> "JobAvailable", job |-> j]
Assigned(j) == [type |-> "JobAssigned", job |-> j]
Completed(j, v, result) ==
    [type |-> "JobCompleted", job |-> j, runner |-> v, result |-> result]

ServicesTypeOK ==
    /\ orkaVMs \in [VM -> VMState]
    /\ registration \in [VM -> Registration]
    /\ jobState \in [Job -> JobState]
    /\ runsOn \in [Job -> VM \union {NoVM}]
    /\ events \in Seq(Event)

ServicesInit ==
    /\ orkaVMs = [v \in VM |-> "absent"]
    /\ registration = [v \in VM |-> "none"]
    /\ jobState = [j \in Job |-> "unknown"]
    /\ runsOn = [j \in Job |-> NoVM]
    /\ events = <<>>

-----------------------------------------------------------------------------
(* Calls of the program.                                                   *)

\* The answer of GetRunner: FALSE stands for the nil runner.
IsRegistered(v) ==
    registration[v] \in {"registered", "online", "busy", "ending"}

\* orka3 vm deploy --generate-name: the name is a new one.
DeployVM(v) ==
    /\ orkaVMs[v] = "absent"
    /\ orkaVMs' = [orkaVMs EXCEPT ![v] = "up"]

\* The deployment fails, before or after the VM came to exist.
DeployVMFails ==
    \/ UNCHANGED orkaVMs
    \/ \E v \in VM :
          /\ orkaVMs[v] = "absent"
          /\ orkaVMs' = [orkaVMs EXCEPT ![v] = "unnamed"]

\* orka3 vm delete succeeds, or answers that the VM is not found.
DeleteVM(v) ==
    orkaVMs' = [orkaVMs EXCEPT ![v] = "deleted"]

\* generatejitconfig registers the runner (at most once under one name).
CreateRunner(v) ==
    registration' = [registration EXCEPT ![v] = "registered"]

\* GitHub refuses to delete a runner that is executing a job.
IsDeletable(v) ==
    registration[v] \in {"registered", "online", "ending"}

DeleteRunner(v) ==
    registration' = [registration EXCEPT ![v] = "gone"]

\* acquirejobs reserves the ones of js that are still available for this scale
\* set; GitHub assigns them later.
AcquireJobs(js) ==
    jobState' = [j \in Job |->
        IF j \in js /\ jobState[j] = "available" THEN "acquired" ELSE jobState[j]]

-----------------------------------------------------------------------------
(* Steps the services take by themselves.                                  *)

JobQueued(j) ==
    /\ jobState[j] = "unknown"
    /\ jobState' = [jobState EXCEPT ![j] = "available"]
    /\ events' = Append(events, Available(j))
    /\ UNCHANGED <<orkaVMs, registration, runsOn>>

\* GitHub assigns an acquired job to the scale set.
JobAssigned(j) ==
    /\ jobState[j] = "acquired"
    /\ jobState' = [jobState EXCEPT ![j] = "assigned"]
    /\ events' = Append(events, Assigned(j))
    /\ UNCHANGED <<orkaVMs, registration, runsOn>>

\* GitHub gives an assigned job to any runner of the scale set that waits for
\* one, whichever job that runner was provisioned for.
JobStarted(j, v) ==
    /\ jobState[j] = "assigned"
    /\ registration[v] = "online"
    /\ orkaVMs[v] = "up"
    /\ jobState' = [jobState EXCEPT ![j] = "running"]
    /\ runsOn' = [runsOn EXCEPT ![j] = v]
    /\ registration' = [registration EXCEPT ![v] = "busy"]
    /\ UNCHANGED <<orkaVMs, events>>

\* The job ends on its runner, by itself or canceled by a user.
JobFinished(j, result) ==
    /\ jobState[j] = "running"
    /\ jobState' = [jobState EXCEPT ![j] = "completed"]
    /\ registration' = [registration EXCEPT ![runsOn[j]] = "ending"]
    /\ events' = Append(events, Completed(j, runsOn[j], result))
    /\ runsOn' = [runsOn EXCEPT ![j] = NoVM]
    /\ UNCHANGED orkaVMs

\* A job is canceled before a runner starts it: its message names no runner.
JobCanceledEarly(j) ==
    /\ jobState[j] \in {"available", "acquired", "assigned"}
    /\ jobState' = [jobState EXCEPT ![j] = "completed"]
    /\ events' = Append(events, Completed(j, NoVM, "canceled"))
    /\ UNCHANGED <<orkaVMs, registration, runsOn>>

\* The runner deregisters after its only job, or GitHub drops the
\* registration of a runner it has not heard from.
RunnerLeaves(v) ==
    /\ IsDeletable(v)
    /\ registration' = [registration EXCEPT ![v] = "gone"]
    /\ UNCHANGED <<orkaVMs, jobState, runsOn, events>>

\* GitHub loses contact with a busy runner: its job is abandoned.
RunnerLost(j) ==
    /\ jobState[j] = "running"
    /\ jobState' = [jobState EXCEPT ![j] = "completed"]
    /\ registration' = [registration EXCEPT ![runsOn[j]] = "gone"]
    /\ events' = Append(events, Completed(j, runsOn[j], "canceled"))
    /\ runsOn' = [runsOn EXCEPT ![j] = NoVM]
    /\ UNCHANGED orkaVMs

ServicesNext ==
    \/ \E j \in Job :
          \/ JobQueued(j)
          \/ JobAssigned(j)
          \/ \E v \in VM : JobStarted(j, v)
          \/ \E result \in Result : JobFinished(j, result)
          \/ JobCanceledEarly(j)
          \/ RunnerLost(j)
    \/ \E v \in VM : RunnerLeaves(v)

=============================================================================
