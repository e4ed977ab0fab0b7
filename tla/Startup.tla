------------------------------- MODULE Startup -------------------------------
(***************************************************************************)
(* main.go from the environment to the message loop, as far as the         *)
(* goroutines are concerned that share the actions client: what is checked *)
(* before GitHub is asked, when the metrics poller and the VM tracker      *)
(* start, and what makes the process panic.  What the requests of main do  *)
(* to the scale set and the session is the subject of ScaleSetLifecycle.   *)
(***************************************************************************)
EXTENDS Metrics, Environment

CONSTANTS
    Main,           \* the goroutine of main and of the message loop
    Environments    \* the environments the program is started in

ASSUME MainAssumption == Main \in Goroutine \ {Poller}

\* The values that the definitions of Environment tell apart.
ASSUME EnvironmentsAssumption ==
    \A env \in Environments :
        /\ GitHubAppPrivateKey(env) \in {Unset, "missing", "key", "garbage"}
        /\ \A interval \in Intervals(env) :
              /\ interval.text \in {Unset, "soon", "duration"}
              /\ interval.seconds \in Int

VARIABLES
    environment,
    stage,          \* where main is
    panic,          \* what made the process panic: a check, a call, a ticker
    canceled        \* ctx is done

startupVars == <<environment, stage, panic, canceled>>
vars == <<clientVars, metricsVars, startupVars>>

\* The checks come before "authenticating"; the session is open when "running".
Requesting == {"settling", "openingSession", "takingOver", "recreating",
               "reopening", "running"}

Stage == Requesting \union {"parsing", "checking", "authenticating", "settled",
                            "connecting", "ended"}

TypeOK ==
    /\ ClientTypeOK /\ MetricsTypeOK
    /\ stage \in Stage
    /\ panic \in {"none", "environment", "configuration", "call", "ticker"}
    /\ canceled \in BOOLEAN

data == EnvData(environment)

Init ==
    /\ ClientInit /\ MetricsInit
    /\ environment \in Environments
    /\ stage = "parsing" /\ panic = "none"
    /\ canceled = FALSE

\* main goes on, or a panic ends the process.
goto(next) == stage' = next /\ UNCHANGED <<environment, panic, canceled>>

Panic(cause) ==
    /\ stage' = "ended" /\ panic' = cause
    /\ UNCHANGED <<environment, canceled>>

-----------------------------------------------------------------------------
(* main.                                                                   *)

ParseEnv ==
    /\ stage = "parsing"
    /\ \E release \in {"v2", "v3", "unreachable"} :
          IF Refused(environment, release) THEN Panic("environment")
          ELSE goto("checking")
    /\ UNCHANGED <<clientVars, metricsVars>>

\* Mutation: the configuration is used before it is checked.
AuthenticateFirst ==
    /\ stage = "checking"
    /\ IF NewGitHubConfigFails(environment.GITHUB_URL) THEN Panic("configuration")
       ELSE goto("authenticating")
    /\ UNCHANGED <<clientVars, metricsVars>>

CheckConfiguration ==
    /\ stage = "checking"
    /\ IF NewGitHubConfigFails(environment.GITHUB_URL) \/ RunnerNameFails(data)
       THEN Panic("configuration") ELSE goto("authenticating")
    /\ UNCHANGED <<clientVars, metricsVars>>

Authenticate ==
    /\ stage = "authenticating" /\ ~canceled
    /\ ~SigningFails(data)
    /\ NewActionsClient
    /\ goto("settling")
    /\ UNCHANGED metricsVars

AuthenticationFails ==
    /\ stage = "authenticating"
    /\ Panic(IF SigningFails(data) THEN "configuration" ELSE "call")
    /\ UNCHANGED <<clientVars, metricsVars>>

\* main, and the loop it runs, makes a request.
MainRequests ==
    /\ stage \in Requesting
    /\ BeginRequest(Main)
    /\ UNCHANGED <<metricsVars, startupVars>>

\* Finding or replacing the scale set takes one to three requests, and opening
\* the session one or more.
MainGoesOn ==
    /\ Answered(Main)
    /\ \/ stage \in {"settling", "openingSession", "reopening", "running"}
          /\ UNCHANGED <<metricsVars, startupVars>>
       \/ stage = "settling" /\ goto("settled") /\ ScaleSetBecomes(TRUE)
       \/ stage \in {"openingSession", "reopening"} /\ goto("running")
          /\ UNCHANGED metricsVars

\* ErrActiveSession: the scale set is deleted and created again.
MainTakesOver ==
    /\ Answered(Main)
    /\ \/ stage = "openingSession" /\ goto("takingOver") /\ UNCHANGED metricsVars
       \/ stage = "takingOver" /\ goto("recreating") /\ ScaleSetBecomes(FALSE)
       \/ stage = "recreating" /\ goto("reopening") /\ ScaleSetBecomes(TRUE)

\* Until the session is open main panics on an error that it does not retry.
MainPanics ==
    /\ Answered(Main) \/ RequestFails(Main)
    /\ stage # "running"
    /\ Panic("call")
    /\ UNCHANGED metricsVars

\* Opening the session is retried; the message loop and its goroutines log the
\* error or try again.
MainRequestFails ==
    /\ RequestFails(Main)
    /\ stage \in {"openingSession", "reopening", "running"}
    /\ UNCHANGED <<metricsVars, startupVars>>

\* The poller is a goroutine of its own: its ticker may panic at any later time.
StartMetrics ==
    /\ stage = "settled"
    /\ goto("connecting")
    /\ IF data.EnableMetrics
       THEN PollerStarts ELSE UNCHANGED <<clientVars, metricsVars>>

ConnectToOrka ==
    /\ stage = "connecting"
    /\ goto("openingSession") \/ Panic("call")
    /\ UNCHANGED <<clientVars, metricsVars>>

-----------------------------------------------------------------------------
(* The tickers and the end.                                                *)

\* NewTicker panics on an interval that is not positive: in the poller, in the
\* tracker that run() starts, or in the first cleanup of a runner.
TickerPanics ==
    /\ \/ poller = "waiting" /\ data.MetricsPollInterval <= 0
       \/ stage = "running" /\ \/ data.VMTrackerInterval <= 0
                               \/ data.RunnerDeregistrationPollInterval <= 0
    /\ stage # "ended"
    /\ Panic("ticker")
    /\ UNCHANGED <<clientVars, metricsVars>>

Signal ==
    /\ stage \notin {"parsing", "ended"} /\ ~canceled
    /\ canceled' = TRUE
    /\ UNCHANGED <<clientVars, metricsVars, environment, stage, panic>>

\* The message loop returns, or the signal goroutine exits.
MainEnds ==
    /\ stage = "running"
    /\ goto("ended")
    /\ UNCHANGED <<clientVars, metricsVars>>

-----------------------------------------------------------------------------

Live == stage # "ended"

MainStep ==
    \/ ParseEnv
    \/ CheckConfiguration
    \/ Authenticate
    \/ AuthenticationFails
    \/ MainRequests
    \/ MainGoesOn
    \/ MainTakesOver
    \/ MainPanics
    \/ MainRequestFails
    \/ StartMetrics
    \/ ConnectToOrka

\* The metrics poller; its interval is positive, or it would have panicked.
PollerTurn ==
    /\ Live /\ UNCHANGED startupVars
    /\ \/ data.MetricsPollInterval > 0 /\ PollerStep
       \/ canceled /\ PollerStops

RequestStep(g) ==
    /\ Live
    /\ TokenStep(g) \/ Send(g)
    /\ UNCHANGED <<metricsVars, startupVars>>

GitHubStep ==
    /\ Live /\ UNCHANGED startupVars
    /\ \/ Tick /\ UNCHANGED metricsVars
       \/ StatisticsChange

Next ==
    \/ MainStep
    \/ PollerTurn
    \/ \E g \in Goroutine : RequestStep(g)
    \/ GitHubStep
    \/ TickerPanics
    \/ Signal
    \/ MainEnds

Spec == Init /\ [][Next]_vars

-----------------------------------------------------------------------------
(* Fairness.  Every goroutine goes on and every call returns.  A mutex of  *)
(* Go is fair to those who wait.  Polling may fail any number of times,    *)
(* but not always.                                                         *)

Fairness ==
    /\ \A g \in Goroutine :
          /\ WF_vars(RequestStep(g))
          /\ SF_vars(Live /\ LockTaken(g) /\ UNCHANGED <<metricsVars, startupVars>>)
    /\ WF_vars(MainStep)
    /\ WF_vars(PollerTurn)
    /\ SF_vars(Live /\ AdminTokenStored(Poller) /\ UNCHANGED <<metricsVars, startupVars>>)
    /\ SF_vars(Live /\ PollSucceeds /\ UNCHANGED startupVars)

FairSpec == Spec /\ Fairness

-----------------------------------------------------------------------------
(* What must hold.                                                         *)

StartupInv == TypeOK /\ ClientInv

\* What the README asks for is enough, but for two things it lets pass: a run
\* that is configured as it says never panics on its configuration, however late
\* the code comes to use a part of it, unless the URL is the bare host of an
\* enterprise server, the metadata have characters other than those of \w, the
\* release of the runner had to be asked for, or an interval is not positive.
ConfiguredRunPanicsOnCallsOnly ==
    Documented(environment) /\ IntervalsArePositive(environment) =>
        \/ panic \in {"none", "call"}
        \/ /\ panic = "environment"
           /\ \/ environment.ORKA_VM_METADATA = "other pairs"
              \/ environment.GITHUB_RUNNER_VERSION = Unset
        \/ panic = "configuration" /\ environment.GITHUB_URL.path = <<>>

\* And it is necessary, but for three things that nothing looks at, the host of
\* the URL, the API and the token of an enterprise server, and the runners after
\* the first one: a run with any other environment ends before it has a token to
\* change anything at GitHub with.
OnlyConfiguredRunsGetAToken ==
    adminToken # NoToken => DocumentedInPart(environment)

\* A request gets the mutex and its turn, however many refreshes fail before.
RequestsEnd ==
    \A g \in Goroutine :
        request[g] = "updating" ~> request[g] # "updating" \/ ~Live

\* Over failing polls, expiring tokens and a scale set that is replaced, the
\* gauges follow the statistics.
GaugesCatchUp ==
    \A n \in 1 .. MaxStatistics :
        poller # "off" /\ statistics >= n
            ~> (\A i \in 1 .. Gauges : gauges[i] >= n) \/ canceled \/ ~Live

-----------------------------------------------------------------------------
(* What the documentation says and the code does not do.                   *)

\* README: "The runner will automatically detect if you're using GHES based on
\* the provided URLs and adjust its behavior accordingly."
EnterpriseIsDetected ==
    /\ stage \notin {"parsing", "ended"}
    /\ environment.GITHUB_API_URL = UnsetURL
    /\ environment.GITHUB_URL.host # <<"github.com">>
    => data.GitHubAPIUrl = EnterpriseAPI(environment.GITHUB_URL)

=============================================================================
