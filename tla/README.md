# A TLA+ model of the Orka GitHub Actions integration

The program keeps a GitHub runner scale set supplied with ephemeral macOS runners: it takes the
messages of the scale set from a queue, deploys a VM on an Orka cluster for every job it has to
serve, registers a runner for it, starts the runner over SSH, and deletes VM and registration when
the job is over. This directory models that core, checks it with TLC on small instances and proves
its main safety properties with TLAPS.

## 1. The system

| component | state | operations |
|---|---|---|
| `main.go` | the scale set, the session manager, `ctx`, `closeOnce` | find, reuse, delete or create the scale set; take it over after `ErrActiveSession`; close on a signal |
| `runners/manager.go` | `lastMessageId`, `initialMessage` | open a session with retries; one message per `ProcessMessages`: receive, handle, delete |
| `messagequeue/manager.go` | `session` | receive, delete, acquire, each with one refresh of an expired token; `Close` |
| `runners/message-processor.go` | `runnerContextCancels`, `upstreamCanceledJobs`, one goroutine per job | handle a batch of job messages; provision with retries; run the commands; cancel a runner context |
| `runner-provisioner` | none but a mutex | `ProvisionRunner`; `CleanupResources`: wait for deregistration, force it, delete the VM |
| `runners/vm_tracker.go` | `trackedVMs` (strikes) | `Track`, `Untrack`, the periodic check |
| `github/actions` | admin token and its expiry, the transport of the shared HTTP client | the REST calls to GitHub, each after `updateTokenIfNeeded` |
| `orka` | none | `orka3 vm deploy`, `orka3 vm delete`, the SSH session |
| `metrics` | the gauges | poll the scale set, copy its statistics into the gauges |
| `env`, `github/config.go`, `version` | none | read and refuse the configuration |
| `github/app`, `github/auth`, `http`, `api`, `exec`, `logging`, `utils` | none | tokens, transport, commands |

How they interact:

- `main` owns the context; the message loop runs on its goroutine. The loop hands each message to
  `processRunnerMessage`, which starts a goroutine per assigned job and goes on.
- The goroutine of a job calls the provisioner again and again until it has a VM or the job is
  reported as canceled; then it creates a *runner context* whose `AfterFunc` cleans up. Whoever
  cancels that context first, the goroutine when its commands end or the loop when it sees the
  `JobCompleted` message, starts the cleanup in one more goroutine.
- The tracker shares only its map with those goroutines; its calls to GitHub and Orka are made
  outside the mutex.
- GitHub moves by itself all the time: it assigns jobs, gives a job to *any* runner that waits, drops
  registrations, and reports in messages that are older than its state.
- All of them share one actions client. Each request first checks the token under the mutex of the client,
  and is then sent outside the mutex with the transport the client has by then. The metrics poller has
  nothing else in common with the rest.
- A run keeps nothing on disk. The next one finds the scale set, the session, the messages and the VMs of
  the one before it, knows of none of the VMs, and gets the jobs from an initial message and from the
  messages that were not deleted. Where it replaces the scale set, session and messages go with the old one.
- At the end two goroutines race: `main`, which returns when the loop ends, and the one that waits for
  the termination signal.

What is hard: the two calls of a forced deregistration with a runner that moves in between; the
tracker working on old answers; cancellation from two sides; cleanups that fail half way; retries that
could pile up VMs; a message processed but not deleted when a run ends; a session left behind by a
crash; messages that the next run handles again; tokens that expire at any call; a transport that is
replaced while others read it; configuration that is used long after it was accepted; the race at the exit. `PROJECT.json` lists each of these
hazards at its line.

What makes each component correct:

- provisioner, tracker and processor together: no VM is deleted while its runner may execute a job; no
  VM is lost from sight; cleanups and retry loops end.
- manager and queue: messages are processed in order, none is deleted unprocessed, none is taken up twice by
  one run; one that goes unprocessed goes with its scale set, which happens only to a run that manages the
  scale set or follows one that left its session open.
- start and shutdown: an exit leaves nothing behind that stops the next run and takes nothing away
  from another one; start and exit end.
- client and metrics: requests go out with a whole transport and a valid token; a token is replaced once,
  and failed refreshes hold up nobody; the gauges follow GitHub.
- environment: what the README asks for is enough to run, and anything else is refused before the program
  has a token. Neither is true without exceptions; section 3 names them.

## 2. The modules

| module | models |
|---|---|
| `Services` | Orka and GitHub as the code uses them. External: the steps they take alone are assumptions |
| `RunnerProvisioner` | `provisioner.go`, one action per call it makes |
| `VMTracker` | `vm_tracker.go`, one action per critical section or call |
| `RunnerMessageProcessor` | `message-processor.go`, composed with the three above; the properties |
| `EphemeralRunner` | abstract: what is promised about a VM and its runner |
| `RunnerInvariant` | the two inductive invariants of the composition |
| `ProcessorRestart` | the same over several runs: initial message, redelivered message, forgotten VMs |
| `RunnerInvariant_proofs`, `RunnerRefinement_proofs`, `RunnerAccounting_proofs`, `RunnerAttempts_proofs`, `ProcessorRestart_proofs` | proofs about them |
| `ScaleSetLifecycle` | `main.go`, `createSessionWithRetry`, `getInitialMessage`, `Close` |
| `ScaleSetSuccession` | the same for runs that follow one another: what each call of a start finds |
| `SessionLease` | abstract: what the runs promise each other about the session |
| `ScaleSetLifecycle_proofs` | proofs about them |
| `RunnerManager` | `ProcessMessages` and the three queue operations, and what `main.go` does to the queue between two runs |
| `MessageDelivery` | abstract: what is promised about the messages |
| `RunnerManager_proofs` | proofs about it |
| `ActionsClient` | `actions/client.go`, `actions/api.go`: the admin token and the shared transport |
| `Metrics` | `metrics.go`: the poller, on top of the client |
| `Environment` | `env.go`, `config.go` and the checks of `main.go` as operators; no state |
| `Startup` | `main.go` from the environment to the message loop, composed with the three above |
| `Startup_proofs` | proofs about client and start |
| `MCProcessor`, `MCRestart`, `MCLifecycle`, `MCSuccession`, `MCStartup` | specifications, symmetries and environments TLC uses |

**The processor.** A VM and the runner registered for it share a name, so `VM` indexes both.
`goroutine[j]` is the program counter of the goroutine of job j, `provisioning[j]` that of the
`ProvisionRunner` call it is in, `cleanup[v]` that of `cleanupResources` for v. A cleanup is reached
from two places, the deferred function of a failed attempt and the `AfterFunc` of a runner context.
`runnerContext[v]` is `live` until somebody cancels, `canceled` while the `AfterFunc` has not returned.
`required` is `requiredRunners - provisionedRunners`. Every call to Orka or GitHub can fail, before or
after it took effect; `unnamed` is a VM whose deployment took effect and whose name got lost. The
mutex of the provisioner makes no difference to the model: it covers a single call. The statistics of
a message are those of the moment it is taken. A batch is any prefix of the pending events.

**Several runs.** `ProcessorRestart` takes every step of the processor and adds what a run has in hand:
`message` is the message GitHub has handed out and the program has not deleted, with the statistics it had,
`initialMessage` says that the batch came from `getInitialMessage`, `leftBehind` holds the VMs that were up
when an earlier run ended. A run ends at any point (`RunEnds`), with the deletion of its message not tried,
failed, or done without an answer. `Restart` resets tracker, provisioner and processor and starts with the
jobs that can be acquired, in any order. It leaves the VMs, the registrations and the jobs alone. The pending
events and the message in hand stay (`ScaleSetStays`) or are gone with their scale set (`ScaleSetIsReplaced`):
which of the two depends on configuration and sessions, which this module does not have, so it allows both.

**The tracker.** `toCheck` is the rest of the snapshot, `checked` and `verdict` are the locals of the
check. `Untracked` stands for a name that is not in the map, so that `trackedVMs[name]++` on a missing
entry is modelled as Go does it: it puts the entry back. Strikes stop counting at two.

**Start and shutdown.** `Process` is the set of runs under one runner name. They may follow one
another or overlap. `stage[p]` is where `main` is, `handler[p]` where the signal goroutine is, `once[p]`
who is inside `closeOnce` or how `Close` came back. GitHub keeps at most one scale set under the name
and at most one session on it; a second session is a conflict. `ScaleSetSuccession` adds a history variable,
`disturbed`: a call has failed, or two runs have overlapped. While it is false, each call of `main` must find
GitHub in the state it needs (`FindsWhatItNeeds`). `SessionLease` knows no scale sets, retries or goroutines:
a start takes the session or takes it away, an orderly end gives it back and may evict a session that does
not belong to a run that manages its scale set, the session of a run that is over expires.

**The manager.** The three queue operations have one shape and share their actions: a first call, a
refresh if it found the token expired, a second call. A call that comes back as an error may have
deleted the message. A run that stops forgets `lastMessageId`; the next one opens a session of its own.

The queue belongs to the scale set, and `main.go` deletes the scale set in three places: a run that manages it
replaces it at its start (`StartRun`, `DeleteScaleSet`), any run that meets an open session replaces it
(`SessionConflict`), and one that manages it deletes it at its exit (`ExitManaged`). `ScaleSetDeleted` takes
the queue along and remembers in `lost` what no run had processed. `orderly` is a history variable: no run so
far manages the scale set, and none left a session behind. `MessageDelivery`, the abstract specification, has
a step of its own for the loss, in which only messages that were not processed go.

**The client.** A token stands for the time it expires at. `transport` has two words, as an interface of Go
has: the type and the data it points to. `WriteFirstWord` and `WriteSecondWord` are the assignment in
`updateTokenIfNeeded`, in either order, and `Send` reads both. `"retrying"` is the round tripper of
go-retryablehttp that `NewActionsClient` installs, `"plain"` the `ClientTransport` that a refresh puts in its
place. `mu` is the mutex, held from the check to the end of the refresh, over the three calls it makes.
`freshAt[g]` is bookkeeping: when the token that goroutine g relies on was found good.

**The environment.** An environment is a record of the variables that decide anything. A text is a member of
a small set of texts that are treated alike; the host of an URL is cut where the code looks into it, because
`strings.Contains` sees less than the whole host. `EnvData` is what `ParseEnv` returns, `Refused` when it
panics. `Documented` is the README's list of what has to be set, part by part and written down without looking
at `Refused`: a URL of an organization or a repository, or the bare host of an enterprise server (README.md:34),
for which API and token are set too (28-36, 52); metadata of any characters (58); exactly one runner (61).

**Start.** `Startup` follows `main` in stages. Only what the client sees of its requests is kept; what they do
to the scale set and the session is the subject of `ScaleSetLifecycle`, and whether the scale set exists is
all the poller notices of it. A panic ends the process, whoever panics.

## 3. The runs

| run | instance | shows |
|---|---|---|
| `ProcessorSafety` | 1 job, 2 VMs, 2 runs of the program, all steps | the safety properties, the inductive invariant and the refinement of `EphemeralRunner` |
| `ProcessorTwoJobs` | 2 jobs, 2 VMs, between two ticks | the same where jobs share runners, and the account of messages and VMs |
| `ProcessorLiveness` | 1 job, 1 VM, 2 runs of the program, fair | loops and cleanups end, orphans are reclaimed, jobs are acquired |
| `OrphanedVMIsDeleted` | 1 job, 1 VM, fair | **violated**, see below |
| `AssignedJobGetsRunner` | 2 jobs, 1 VM, fair, between two ticks | **violated**, see below |
| `LifecycleSafety` | 2 runs with all steps, 3 runs one by one without failing calls | what an exit leaves and what it spares, that a run starts on whatever is left, the inductive invariant and the refinement of `SessionLease` |
| `LifecycleLiveness` | 2 runs, fair, not killed | start and exit end |
| `ScaleSetIsDeletedOnExit` | 1 run, no failing call | **violated**, see below |
| `ExistingScaleSetIsReused` | 2 runs one by one, no failing call | **violated**, see below |
| `ManagerDelivery` | 3 messages, any number of runs, fair | the inductive invariant, the refinement of `MessageDelivery`, when messages are lost, and that every other one is processed |
| `Startup` | all environments one or two variables away from `examples/.env` or from the README's enterprise server; main and the poller | configuration, token, transport, gauges |
| `EnterpriseIsDetected` | the same | **violated**, see below |

The properties, in words:

- `RunningJobKeepsItsVM`, `VMDeletedOnlyWithoutRunner`: a running job's VM is up, and a VM is deleted only
  when GitHub has no registration for it, however old the answer is that the deleter acted on. They hold
  because a registration, once gone, never comes back under the same name; the model says why each of
  the three deleters may rely on that.
- `OwnVMIsAccountedFor`: while a run lasts, a VM that is up is in the hands of its goroutine, or has a
  runner context that can still be canceled, or is being cleaned up, or a cleanup gave it up, or an earlier
  run left it behind. It is not lost when a message is handled a second time by the next run.
- `EarlierVMsAreSpared`: a run never deletes a VM of an earlier run, which may be executing a job, although
  it gets messages that name it. (It is not reclaimed either: see section 5.)
- `AttemptsDoNotPileUp`, `OwnAttemptsDoNotPileUp`: the VMs not yet dealt with are no more than the goroutines
  started; over restarts, the VMs of this run no more than the goroutines of this run, also when it handles
  a message of the run before it again.
- `CanceledJobsAreOver`: an entry of `upstreamCanceledJobs` ends the retry loop of its job, and some entries
  stay for as long as the program runs. Each is of a job that GitHub has ended, so that no loop gives up a job
  that still needs a runner.
- `CanceledJobStopsProvisioning`, `CanceledRunnerIsCleanedUp`, `TrackerForgetsDeletedVM`,
  `OrphanedVMIsReclaimed`: liveness of the same parts. `AvailableJobIsAcquired`: a job is acquired in the
  end, also when `AcquireJobs` fails or the run ends with the message in hand.
- `ExitedRunLeavesNoSession`, `ExitSparesOtherSessions`, `StartEnds`, `SignalEndsProcess`: start and shutdown.
- `LeftoversDoNotStopTheStart`: whatever state earlier runs ended in, a start whose calls succeed and that no
  other run overlaps finds GitHub in the state each of its calls needs, keeps its session, and panics after a
  signal only.
- `ImplementsSessionLease`: the session is handed on as described above, over all retries and crashes.
- `ImplementsMessageDelivery`: the runs together process the messages in order and delete only what was
  processed; what goes unprocessed goes with its scale set. `MessageOncePerRun`: no run takes a message up
  twice.
- `OrderlyRunsLoseNothing`: while no run manages the scale set and each one has given its session back,
  nothing is lost, failing calls and starts that were cut off included. Either condition is needed: a run that
  is killed is followed by one that throws the queue away, whatever `MANAGE_RUNNER_SCALE_SETS` says
  (`ExistingScaleSetIsReused`), and so is one whose session was opened without an answer.
- `MessageIsProcessed`: every message that is not lost is processed in the end.
- `StartupInv` with `TransportIsWhole`: no request is sent with a transport of which one word is old and the
  other new. The code does not lock its readers out; it holds because a new client has the zero expiry, so
  that every goroutine waits for a complete refresh before its first request, and later refreshes change
  only the data.
- `TokenOutlivesTheCheck`, `FreshTokenIsKept`, `RequestsEnd`: the margin covers the time from the check to the
  request over any refresh in between; a token is replaced once; failed refreshes let the others on.
- `ConfiguredRunPanicsOnCallsOnly`: a documented run does not panic on its configuration, with three
  exceptions the property names. Two are disagreements of README and code: the README configures an enterprise
  server with a bare host (`https://github.enterprise.com`, README.md:34), for which `NewGitHubConfig` finds no
  organization and `main` panics, and asks for metadata that are "key=value comma separated pairs" (58), of
  which `validateMetadata` refuses those with other characters than those of `\w`, such as `team=ci-mac`. The
  third is the release of the runner, which is asked for when it is not given.
- `OnlyConfiguredRunsGetAToken`: nothing else gets a token, with three exceptions. Nothing looks at the host of
  `GITHUB_URL` (`https:///org` is accepted), at API and token of an enterprise server, or at the runners after
  the first one, although only one is supported.
- `GaugesCatchUp`: every gauge comes to show the statistics or later ones, over failures and a scale set that
  is replaced. A scrape may mix answers, as it reads the gauges one by one beside `update`; nothing is claimed
  about one scrape.

Five runs end in a counterexample: what the documentation says is not what the code does.

1. `OrphanedVMIsDeleted`. `examples/.env` says that VMs without a runner are deleted after two checks.
   When the cleanup of a runner context ends with an error of `forceDeleteRunner` (or `deleteVM` uses up its
   retries), the VM is untracked all the same and stays.
2. `AssignedJobGetsRunner`. A message starts at most `TotalAssignedJobs - TotalRegisteredRunners`
   goroutines, in the order of its batch. A job that is canceled in the same batch can use up the one that
   another job needs, and no later message makes up for it.
3. `ScaleSetIsDeletedOnExit`. After a signal `main` can return, which ends the process, while the signal
   goroutine is on its way to `DeleteRunnerScaleSet`.
4. `ExistingScaleSetIsReused`. After an abnormal end the session is still active; the next run then
   deletes and recreates the scale set even where it is told to reuse it.
5. `EnterpriseIsDetected`. The README says that an enterprise server is detected from the URLs. A host that
   begins with `github.com`, as `github.company.com` does, is taken for github.com.

**Bounds.** Two VMs are what one job needs for a failed and a second attempt, and what two jobs need to
run on each other's VM. Two runs of the program (`MaxRestarts` = 1) are what a redelivered message, an initial
message and a forgotten VM need; the theorems hold for any number of restarts. With two jobs the
tracker and the end of the process are left out (`BetweenTicks`: no snapshot is taken and `process` stays
`running`), because together with them the instance has too many states; `ProcessorSafety` has them with one
job, and the theorems cover all of it for any number. Overlap of runs needs two; a start after a start after
a crash needs three in a row. In `LifecycleSafety` the third run starts only while no call has failed and no
runs have overlapped (`disturbed`). `SessionCreationMaxRetryCount` is 2 in place of 10: one retry and the last
one. `MaxMessages` bounds the messages GitHub creates; two in the queue and one in hand are what a skipped
message needs; the number of runs is not bounded. Strikes are counted to 2 because the code asks for no more. In `Startup` the clock has three
values (`MaxTime` = 2), the margin is 1 and tokens live for 1 or 2, so that a token can be fresh, within the
margin and expired; two goroutines are what a race needs; two gauges show a half finished update; the clock
moves and statistics change only in the environment of `examples/.env` (`OneClock`), all other environments
are followed to the message loop. Deadlock is not checked where the system may stop: jobs and VMs are used up
and the process exits. `ProcessorLiveness` takes four minutes, the other
runs of the processor, `LifecycleSafety` and `ManagerDelivery` about two, all others about one or less.

**Fairness.** Goroutines go on (weak fairness of their next step): their calls return, by a result or by
an error, the timeouts and backoffs of the code elapse. Nothing is assumed about which of the two a call
gives, with these exceptions. The tracker asks GitHub at every tick, so a `GetRunner` call and a deletion
that are tried for ever succeed at some time (strong fairness of `LookUpRunner` and `DeleteOrphan`).
GitHub gives a waiting runner a job if there is one, ends every job, and drops a registration that has not
come online or is over. In `ManagerDelivery` a start, a receive, a refresh, a deletion and the handling of a
message fail or are cut off any number of times but not always (a start: the loop is reached again and again;
the handling: of the initial message, of one that comes again, of a new one), and a run that is over is
followed by another one. `MessageIsProcessed` speaks of the behaviours in which GitHub does not drop the
session of a running loop for ever. The commands on a VM end once their registration is
gone. In `FairUnkilled` the overlapping runs have one configuration and nobody kills them. In
`FairRestartSpec` a program that has ended is started again, as a service is. In `Startup` a goroutine that
waits for the mutex gets it (strong fairness of `LockTaken`: a mutex of Go goes to a waiter that has waited
for a millisecond), and the poller's refresh and poll do not fail for ever.

## 4. The proofs

All theorems hold for any finite sets of jobs, VMs and runs, any number of goroutines, any environments, and
any bound of messages and restarts. The assumptions are that `NoVM`, `NoProcess` and `NoGoroutine` are not
members, that `Job` and `VM` are finite, and that the bounds are naturals (`NoVMAssumption`,
`NoProcessAssumption`, `FiniteAssumption`, `RetryAssumption`, `MaxMessagesAssumption`,
`MaxRestartsAssumption`, `GaugesAssumption`); `ClientAssumption` asks for tokens that live at least as long as
the margin, `MainAssumption` and `PollerAssumption` that main and the poller are two goroutines, and
`EnvironmentsAssumption` that a variable has one of the values that `Environment` tells apart.

**`InvariantHolds`.** `RunningJobKeepsItsVM` is not inductive: a deletion step is safe only if whoever
deletes has reason to. `IInv` says the reasons. A cleanup that is about to delete has seen the runner gone
or deleted it (`DeletingVMHasNoRunner`), and gone is for good, since a goroutine registers a runner only
for a VM that is fresh (`DeployedVMIsFresh`) and its own (`VMHasOneOwner`, `UnknownVMIsUntouched`). The
tracker looks only at VMs that had a registration (`TrackedVMHadRunner`, `ProvisionedVMHadRunner`), so
that *not registered* means *gone* and not *not yet*. One lemma per component shows that its steps
preserve it. `TypeCorrect`, `RunningJobsKeepTheirVMs`, `NoDeletionUnderRegistration` and `Refinement`
follow from it; for `Refinement` every step maps to one step of `EphemeralRunner` or to a stutter.

**`AccountIsKept`, `NoVMIsLostFromSight`.** A second goroutine for a job would overwrite `vmOf` and lose a
VM, so the account of VMs rests on the account of messages: an assignment is pending at most once
(`JobAssignedOnce`), only while its goroutine has not started (`GoroutineStartsOnce`), and a provisioning
call belongs to a waiting goroutine (`ProvisioningIsAwaited`). This invariant is proved on top of `IInv`.

**`GivenUpJobsAreOver`.** What is in `upstreamCanceledJobs` was read from a message, and a message is made after
the fact: `EndedInv` says of every `JobCompleted` in the pending events and in the batch that its job is over,
and a job that is over stays so (`JobsThatAreOverStay`). `GivenUpJobsAreOverInAllRuns` adds the message in hand,
which the next run gets again.

**`AttemptsAreBounded`.** `AttemptInv` says that every VM that is up and not given up has an owner among the
started goroutines. No goroutine owns two VMs, so that `vmOf` maps the owners onto the VMs that count, which
are no more than the owners then. The invariant has the set of VMs it speaks of as a parameter, all of them
here and those of the run below.

**`InvariantOverRuns` and its corollaries.** A restart preserves `IInv`, since it only resets and empties the queue at most (`ServicesAtRestart`), and every other
step is one of the processor or leaves its variables alone; a message that is handed out again is a batch
like any other for `IInv`. The account of messages is more delicate: a redelivered message assigns a job a
second time. `OwnVMsAreAccountedFor` rests on `MessageAssignsOnce` and `OldMessageComesFirst`: the message of
the earlier run is handled before any later one, and its assignments are for goroutines this run has not
started. `AccountOverRuns` is this invariant as a whole, with
`AttemptInv` for the VMs that were not left behind, and gives `OwnAttemptsAreBounded` too: what a restart
forgets it also leaves behind. `EarlierVMsAreLeftAlone` follows from `LeftBehindIsUnknown`: no variable of the running
program names a VM that was left behind.

**`LifecycleInvariantHolds`.** Why does the stale id of an exiting run not hit another run's session? Ids
are never given twice (`IdsWereGiven`), a session is on the scale set its owner works with
(`SessionIsOnOwnScaleSet`), and a run that manages its scale set has created it, so two of them never work
with the same one (`ManagedScaleSetHasOneRun`). `CloseComesFirst` gives `SessionIsClosedOnExit`. A run that
reuses what it finds may have moved in on a managed scale set; `ExitSparesOtherSessions` excludes that case.

**`SuccessionInvariantHolds`, `LeftoversAreHarmless`.** That GitHub is as the next call needs it is inductive only
together with how the run got there. `IsOnTrack` adds that a run that has not been canceled has retried
nothing, that its signal goroutine waits and that it is not in any of the stages a failed call leads to.
`OwnStepStaysOnTrack` follows the run through its stages, whatever it found at its start; `OtherRunsStepAside`
shows that with at most one live run the steps of the others, which are off or over, take nothing from it:
only the session of a run that is over expires.

**`SessionIsALease`.** Each step of a start (`StartHandsOn`), of an end (`EndHandsOn`) and of GitHub is a step of
`SessionLease` or a stutter (`StepHandsOn`); `PhaseStep` turns the step of one run into the assignment to
its phase. `LifecycleInv` is needed for the shutdown: it says why the session that goes with a deleted scale
set, or that an outdated id closes, is not one of another run that manages its scale set.

**`ManagerInvariantHolds`, `NothingIsLostInOrder`.** What no run has processed is still queued or was lost
with a scale set (`UnprocessedIsQueued`), and the message in hand is at most the first of those pending
(`MessageInHandIsDue`). `OrderlyRunKeepsScaleSet` is what makes `OrderlyRunsLoseNothing` inductive: while all
was in order no stage is reached in which the scale set is deleted, because a start finds no session at GitHub.
`DeliveryIsImplemented` maps each step to a step of `MessageDelivery` or a stutter, the deletion of a scale set
to the loss of what was not processed, and `MessagesComeOnce` is the action property.

**`ClientInvariantHolds`, `TransportsAreWhole`, `TokensOutliveTheCheck`, `FreshTokensAreKept`.** `ClientInv` is
proved for the client with any number of callers. Its core is that a known expiry is always that of the
transport, or of the one that is being written under the mutex (`ExpiryIsOfTheTransport`,
`RefresherHoldsMutex`), and that whoever has passed the check relies on a token that lives for the margin
(`PassedCheckIsCovered`): a refresh in between finds a token that is about to expire and brings one that
lives longer. `StartupUsesTheClient` shows that every step of `Startup` is one of the client or a stutter, so
the invariant and the properties carry over.

**`TokensAreForConfiguredRuns`, `ConfiguredRunsDoNotPanic`.** `CheckedSoFar` says what main has checked at each
stage. The first theorem compares it with the parts of `Documented` that anything looks at
(`DocumentedInPart`, lemma `CheckedIsDocumented`), the second one the other way round (`DocumentedIsAccepted`),
with the exceptions the properties name. Both hold for every environment `EnvironmentsAssumption` allows: it
asks for the classes of keys and durations only, and allows any URL and any list of runners.

Every invariant and every action property the runs check is stated by a theorem, and so are the three
refinements. Model-checked only are the liveness properties (`CanceledJobStopsProvisioning`,
`CanceledRunnerIsCleanedUp`, `TrackerForgetsDeletedVM`, `OrphanedVMIsReclaimed`, `AvailableJobIsAcquired`,
`StartEnds`, `SignalEndsProcess`, `MessageIsProcessed`, `RequestsEnd`, `GaugesCatchUp`): they rest on
fairness, hence on ENABLED, which the prover does not reason about. The three abstract specifications are safety
specifications without fairness, which is why the refinements are within its reach.

## 5. What is not modelled

- What becomes of the VMs an earlier run left behind: no line of the code looks for them, so they stay until
  somebody deletes them by hand. The model has them (`leftBehind`); there is nothing to check but that they
  are spared.
- What GitHub does with the jobs and the registrations of a scale set that is deleted, beyond the loss of its
  session and its messages: `ProcessorRestart` leaves them as they were.
- Runs that overlap, in the modules of the messages: `RunnerManager` and `ProcessorRestart` have one run after
  the other, `ScaleSetLifecycle` has the overlap and no messages. The ids of the messages go on in a new scale
  set, which makes no difference to a run, since it starts at 0.
- The moments at which a scrape reads the gauges.
- Messages that can never be handled: `ManagerDelivery` assumes that handling succeeds in the end.
- A race of `updateTokenIfNeeded` with its readers beyond the two words of the interface: a Go program with a
  data race has no guaranteed behaviour, the model takes what the usual implementation does. The
  unsynchronised read of `actionsServiceUrl` is left out, because a refresh stores the same URL again.
- The message queue requests carry a token and a client of their own (`RunnerManager`), and nothing of the
  admin token.
- The twenty SSH connection attempts are one choice between success and failure; the output of the
  commands, the HTTP server of the metrics, logging, the paths and payloads of the requests and JSON are
  left out: sequential code without state, whose outcomes are in the models.
- Variables that are only passed on (namespace, user, password, log level, metrics address).

## 6. Plan

All components are modelled as far as their state goes, and what can be proved of the checked properties is
proved. What could be added, in this order: the message queue (`RunnerManager`) and the processor in one module,
in place of the one message in hand that `ProcessorRestart` keeps, with `MessageDelivery` as its abstract
specification; both jobs and restarts in one instance of the processor, which is beyond what TLC finishes in
minutes and is covered by the theorems.
