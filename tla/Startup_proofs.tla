--------------------------- MODULE Startup_proofs ---------------------------
(***************************************************************************)
(* The shared actions client and the start of the program, for every       *)
(* number of goroutines, every clock and every environment.                *)
(***************************************************************************)
EXTENDS Startup, TLAPS

-----------------------------------------------------------------------------
(* The admin token.                                                        *)

LEMMA InitialClient == ClientInit => ClientInv
BY ClientAssumption
DEF ClientInit, ClientInv, ClientTypeOK, RefresherHoldsMutex, NothingBeforeTheClient,
    ExpiryIsOfTheTransport, PassedCheckIsCovered, TransportIsWhole, Refreshing,
    Transport, Kind, NoToken, ZeroTime

\* Steps of the clock and of a request that does not replace the token.
LEMMA PlainStepKeepsClient ==
    ASSUME ClientInv, NEW g \in Goroutine,
           \/ Tick \/ BeginRequest(g) \/ TokenIsFresh(g) \/ BeginRefresh(g)
           \/ RefreshFails(g) \/ Send(g) \/ Answered(g)
    PROVE  ClientInv'
<1> USE ClientAssumption DEF ClientInv, ClientTypeOK, NoToken, ZeroTime, proceed
<1>1. CASE Tick
  BY <1>1 DEF Tick, RefresherHoldsMutex, NothingBeforeTheClient, AboutToExpire,
              ExpiryIsOfTheTransport, PassedCheckIsCovered, TransportIsWhole
<1>2. CASE BeginRequest(g) \/ RefreshFails(g) \/ Send(g) \/ Answered(g)
  BY <1>2 DEF BeginRequest, RefreshFails, Send, Answered, RefresherHoldsMutex,
              NothingBeforeTheClient, AboutToExpire, ExpiryIsOfTheTransport,
              PassedCheckIsCovered, TransportIsWhole, Refreshing
<1>3. CASE BeginRefresh(g)
  BY <1>3 DEF BeginRefresh, RefresherHoldsMutex, NothingBeforeTheClient, AboutToExpire,
              ExpiryIsOfTheTransport, PassedCheckIsCovered, TransportIsWhole, Refreshing
<1>4. CASE TokenIsFresh(g)
  <2>1. /\ transport = Transport("plain", adminTokenExpiresAt)
        /\ now + Margin <= adminTokenExpiresAt
    BY <1>4 DEF TokenIsFresh, AboutToExpire, RefresherHoldsMutex,
                ExpiryIsOfTheTransport, Refreshing
  <2>2. /\ transport.type = "plain" /\ transport.data.kind = "plain"
        /\ now + Margin <= transport.data.token
    BY <2>1 DEF Transport
  <2>3. QED
    BY <1>4, <2>2 DEF TokenIsFresh, RefresherHoldsMutex, NothingBeforeTheClient,
       AboutToExpire, ExpiryIsOfTheTransport, PassedCheckIsCovered, TransportIsWhole,
       Refreshing
<1>5. QED
  BY <1>1, <1>2, <1>3, <1>4

\* The mutex makes the goroutine that replaces the token the only one.
LEMMA RefreshIsExclusive ==
    ASSUME ClientInv, NEW g \in Goroutine, NEW h \in Goroutine,
           request[g] \in Refreshing, request[h] \in Refreshing
    PROVE  g = h
BY DEF ClientInv, RefresherHoldsMutex

LEMMA TokenStepKeepsClient ==
    ASSUME ClientInv, NEW g \in Goroutine,
           \/ AdminTokenStored(g) \/ ExpiryUnreadable(g)
           \/ WriteFirstWord(g) \/ WriteSecondWord(g)
    PROVE  ClientInv'
<1> USE ClientAssumption DEF ClientInv, ClientTypeOK, NoToken, ZeroTime, proceed
<1>1. \A h \in Goroutine : h # g => request[h] \notin Refreshing
  BY RefreshIsExclusive
  DEF AdminTokenStored, ExpiryUnreadable, WriteFirstWord, WriteSecondWord, Refreshing
<1>2. CASE AdminTokenStored(g)
  <2>1. PICK life \in Nat : life >= Margin /\ adminToken' = now + life
    BY <1>2 DEF AdminTokenStored
  <2>2. QED
    BY <1>1, <1>2, <2>1 DEF AdminTokenStored, RefresherHoldsMutex,
       NothingBeforeTheClient, AboutToExpire, ExpiryIsOfTheTransport,
       PassedCheckIsCovered, TransportIsWhole, Refreshing
<1>3. CASE ExpiryUnreadable(g)
  <2>1. PICK life \in Nat : life >= Margin /\ adminToken' = now + life
    BY <1>3 DEF ExpiryUnreadable
  <2>2. QED
    BY <1>1, <1>3, <2>1 DEF ExpiryUnreadable, RefresherHoldsMutex,
       NothingBeforeTheClient, AboutToExpire, ExpiryIsOfTheTransport,
       PassedCheckIsCovered, TransportIsWhole, Refreshing
<1>4. CASE WriteFirstWord(g)
  <2>1. \/ /\ transport'.type = "plain" /\ transport'.data = transport.data
        \/ /\ transport'.data = [kind |-> "plain", token |-> adminToken]
           /\ transport'.type = transport.type
    BY <1>4 DEF WriteFirstWord, Transport
  <2>2. transport' \in [type : Kind, data : [kind : Kind, token : Nat]]
    BY <1>4 DEF WriteFirstWord, Transport, Kind
  <2>3. QED
    BY <1>1, <1>4, <2>1, <2>2 DEF WriteFirstWord, RefresherHoldsMutex,
       NothingBeforeTheClient, AboutToExpire, ExpiryIsOfTheTransport,
       PassedCheckIsCovered, TransportIsWhole, Refreshing
<1>5. CASE WriteSecondWord(g)
  <2>1. /\ transport' = Transport("plain", adminToken)
        /\ transport'.type = "plain" /\ transport'.data.kind = "plain"
        /\ transport'.data.token = adminToken
        /\ transport' \in [type : Kind, data : [kind : Kind, token : Nat]]
    BY <1>5 DEF WriteSecondWord, Transport, Kind
  <2>2. QED
    BY <1>1, <1>5, <2>1 DEF WriteSecondWord, RefresherHoldsMutex,
       NothingBeforeTheClient, AboutToExpire, ExpiryIsOfTheTransport,
       PassedCheckIsCovered, TransportIsWhole, Refreshing
<1>6. QED
  BY <1>2, <1>3, <1>4, <1>5

LEMMA NewClientKeepsInv ==
    ASSUME ClientInv, NewActionsClient
    PROVE  ClientInv'
<1> USE ClientAssumption DEF ClientInv, ClientTypeOK, NoToken, ZeroTime
<1>1. PICK life \in Nat : /\ life >= Margin /\ adminToken' = now + life
                          /\ transport' = Transport("retrying", now + life)
  BY DEF NewActionsClient
<1>2. /\ adminTokenExpiresAt = 0 /\ \A g \in Goroutine : request[g] = "none"
      /\ UNCHANGED <<now, adminTokenExpiresAt, mu, request, freshAt>>
  BY DEF NewActionsClient, NothingBeforeTheClient
<1>3. transport' \in [type : Kind, data : [kind : Kind, token : Nat]]
  BY <1>1 DEF Transport, Kind
<1>4. QED
  BY <1>1, <1>2, <1>3
  DEF RefresherHoldsMutex, NothingBeforeTheClient, ExpiryIsOfTheTransport,
      PassedCheckIsCovered, TransportIsWhole, Refreshing

LEMMA ClientStepKeepsInv ==
    ASSUME ClientInv, [ClientNext]_clientVars
    PROVE  ClientInv'
<1>1. CASE UNCHANGED clientVars
  BY <1>1 DEF clientVars, ClientInv, ClientTypeOK, RefresherHoldsMutex,
     NothingBeforeTheClient, ExpiryIsOfTheTransport, PassedCheckIsCovered,
     TransportIsWhole, AboutToExpire
<1>2. CASE Tick
  BY <1>2, PollerAssumption, PlainStepKeepsClient
<1>3. QED
  BY <1>1, <1>2, PlainStepKeepsClient, TokenStepKeepsClient, NewClientKeepsInv
  DEF ClientNext, ClientStep, TokenStep, LockTaken, RequestFails

-----------------------------------------------------------------------------
(* The start of the program drives the client.                             *)

LEMMA StartupStepIsClientStep ==
    ASSUME [Next]_vars
    PROVE  [ClientNext]_clientVars
<1> USE PollerAssumption, MainAssumption DEF ClientNext, ClientStep
<1>1. CASE MainStep
  BY <1>1 DEF MainStep, ParseEnv, CheckConfiguration, Authenticate,
              AuthenticationFails, MainRequests, MainGoesOn, MainTakesOver, MainPanics,
              MainRequestFails, StartMetrics, PollerStarts, ConnectToOrka
<1>2. CASE PollerTurn
  BY <1>2 DEF PollerTurn, PollerStep, PollTick, PollFails, PollSucceeds, UpdateGauge,
              UpdateReturns, PollerStops
<1>3. CASE \E g \in Goroutine : RequestStep(g)
  BY <1>3 DEF RequestStep
<1>4. CASE GitHubStep \/ TickerPanics \/ Signal \/ MainEnds \/ UNCHANGED vars
  BY <1>4 DEF GitHubStep, StatisticsChange, TickerPanics, Signal, MainEnds, vars
<1>5. QED
  BY <1>1, <1>2, <1>3, <1>4 DEF Next

\* The program uses the client as ClientSpec says, whatever main and the poller do.
THEOREM StartupUsesTheClient == Spec => ClientSpec
<1>1. Init => ClientInit
  BY DEF Init
<1>2. [Next]_vars => [ClientNext]_clientVars
  BY StartupStepIsClientStep
<1>3. QED
  BY <1>1, <1>2, PTL DEF Spec, ClientSpec

\* The invariant of the client, for all that use it.
THEOREM ClientInvariantHolds == ClientSpec => []ClientInv
<1>1. ClientInit => ClientInv
  BY InitialClient
<1>2. ClientInv /\ [ClientNext]_clientVars => ClientInv'
  BY ClientStepKeepsInv
<1>3. QED
  BY <1>1, <1>2, PTL DEF ClientSpec

\* No request meets a transport that is half replaced, or the one that retries.
THEOREM TransportsAreWhole == ClientSpec => []TransportIsWhole
<1>1. ClientInv => TransportIsWhole
  BY DEF ClientInv
<1>2. QED
  BY <1>1, ClientInvariantHolds, PTL

\* A request sent less than the margin after its check has a valid token.
THEOREM TokensOutliveTheCheck == Spec => []TokenOutlivesTheCheck
<1>1. ClientInv => TokenOutlivesTheCheck
  <2> SUFFICES ASSUME ClientInv, NEW g \in Goroutine, request[g] = "ready",
                      now < freshAt[g] + Margin
               PROVE  now < transport.data.token
    BY DEF TokenOutlivesTheCheck
  <2>1. freshAt[g] + Margin <= transport.data.token
    BY DEF ClientInv, PassedCheckIsCovered
  <2>2. /\ now \in Nat /\ freshAt[g] \in Nat /\ Margin \in Nat
        /\ transport.data.token \in Nat
    BY ClientAssumption DEF ClientInv, ClientTypeOK
  <2>3. QED
    BY <2>1, <2>2
<1>2. QED
  BY <1>1, StartupUsesTheClient, ClientInvariantHolds, PTL

\* A token that is not about to expire is not replaced.
THEOREM FreshTokensAreKept == Spec => FreshTokenIsKept
<1>1. ClientInv => [\A g \in Goroutine :
                       request[g] = "authenticating" /\ request'[g] = "storing"
                           => AboutToExpire]_clientVars
  BY DEF ClientInv, PassedCheckIsCovered
<1>2. QED
  BY <1>1, StartupUsesTheClient, ClientInvariantHolds, PTL DEF FreshTokenIsKept

\* The variables of main and of the poller have their types, too.
OwnTypeOK ==
    /\ MetricsTypeOK
    /\ stage \in Stage
    /\ panic \in {"none", "environment", "configuration", "call", "ticker"}
    /\ canceled \in BOOLEAN

LEMMA InitialTypes == Init => OwnTypeOK
<1>1. Init => MetricsTypeOK
  BY GaugesAssumption DEF Init, MetricsInit, MetricsTypeOK
<1>2. Init => stage \in Stage
  BY DEF Init, Stage
<1>3. QED
  BY <1>1, <1>2 DEF Init, OwnTypeOK

LEMMA StepKeepsTypes ==
    ASSUME OwnTypeOK, [Next]_vars
    PROVE  OwnTypeOK'
<1> USE GaugesAssumption DEF goto, Panic, metricsVars, gitHubStatistics, pollerVars,
        startupVars
<1>1. MetricsTypeOK'
  <2> USE DEF OwnTypeOK, MetricsTypeOK
  <2>1. CASE UNCHANGED metricsVars
    BY <2>1
  <2>2. CASE StatisticsChange
    BY <2>2 DEF StatisticsChange
  <2>3. ASSUME NEW there \in BOOLEAN, ScaleSetBecomes(there) PROVE MetricsTypeOK'
    BY <2>3 DEF ScaleSetBecomes
  <2>4. CASE PollerStarts \/ PollTick \/ PollFails \/ UpdateReturns \/ PollerStops
    BY <2>4 DEF PollerStarts, PollTick, PollFails, UpdateReturns, PollerStops
  <2>5. CASE PollSucceeds
    BY <2>5 DEF PollSucceeds
  <2>6. CASE UpdateGauge
    BY <2>6 DEF UpdateGauge
  <2>7. \/ UNCHANGED metricsVars \/ PollerStarts
        \/ \E there \in BOOLEAN : ScaleSetBecomes(there)
        \/ ~MainStep
    BY DEF MainStep, ParseEnv, CheckConfiguration, Authenticate, AuthenticationFails,
           MainRequests, MainGoesOn, MainTakesOver, MainPanics, MainRequestFails,
           StartMetrics, ConnectToOrka
  <2>8. QED
    BY <2>1, <2>2, <2>3, <2>4, <2>5, <2>6, <2>7
    DEF Next, PollerTurn, PollerStep, RequestStep, GitHubStep, TickerPanics, Signal,
        MainEnds, vars
<1>2. /\ stage' \in Stage
      /\ panic' \in {"none", "environment", "configuration", "call", "ticker"}
      /\ canceled' \in BOOLEAN
  <2> USE DEF OwnTypeOK, Stage, Requesting
  <2>1. CASE MainStep
    BY <2>1 DEF MainStep, ParseEnv, CheckConfiguration, Authenticate,
       AuthenticationFails, MainRequests, MainGoesOn, MainTakesOver, MainPanics,
       MainRequestFails, StartMetrics, ConnectToOrka
  <2>2. CASE UNCHANGED startupVars \/ TickerPanics \/ Signal \/ MainEnds
    BY <2>2 DEF TickerPanics, Signal, MainEnds
  <2>3. QED
    BY <2>1, <2>2 DEF Next, PollerTurn, RequestStep, GitHubStep, vars
<1>3. QED
  BY <1>1, <1>2 DEF OwnTypeOK

\* The inductive invariant of the start of the program.
THEOREM StartupInvariantHolds == Spec => []StartupInv
<1>1. Init => OwnTypeOK
  BY InitialTypes
<1>2. OwnTypeOK /\ [Next]_vars => OwnTypeOK'
  BY StepKeepsTypes
<1>3. OwnTypeOK /\ ClientInv => StartupInv
  BY DEF OwnTypeOK, StartupInv, TypeOK, ClientInv
<1>4. QED
  BY <1>1, <1>2, <1>3, StartupUsesTheClient, ClientInvariantHolds, PTL DEF Spec

-----------------------------------------------------------------------------
(* The configuration.                                                      *)

\* What has been checked at each stage of main.
CheckedSoFar ==
    /\ environment \in Environments
    /\ stage \notin {"parsing", "ended"} =>
          \E release \in {"v2", "v3", "unreachable"} : ~Refused(environment, release)
    /\ stage \notin {"parsing", "checking", "ended"} =>
          ~NewGitHubConfigFails(environment.GITHUB_URL) /\ ~RunnerNameFails(data)

LEMMA CheckedStaysChecked ==
    ASSUME CheckedSoFar, [Next]_vars
    PROVE  CheckedSoFar'
<1>1. CASE ParseEnv
  BY <1>1 DEF ParseEnv, CheckedSoFar, goto, Panic
<1>2. CASE CheckConfiguration
  BY <1>2 DEF CheckConfiguration, CheckedSoFar, goto, Panic, data
<1>3. CASE UNCHANGED <<environment, stage>>
  BY <1>3 DEF CheckedSoFar, data
<1>4. CASE UNCHANGED environment /\ stage' = "ended"
  BY <1>4 DEF CheckedSoFar
<1>5. CASE /\ UNCHANGED environment /\ stage' # "ended"
           /\ stage \notin {"parsing", "checking", "ended"}
  BY <1>5 DEF CheckedSoFar, data
<1>6. MainStep =>
         \/ ParseEnv \/ CheckConfiguration
         \/ UNCHANGED <<environment, stage>>
         \/ UNCHANGED environment /\ stage' = "ended"
         \/ /\ UNCHANGED environment /\ stage' # "ended"
            /\ stage \notin {"parsing", "checking", "ended"}
  BY DEF MainStep, Authenticate, AuthenticationFails, MainRequests, MainGoesOn,
         MainTakesOver, MainPanics, MainRequestFails, StartMetrics, ConnectToOrka,
         goto, Panic, startupVars, Requesting
<1>7. QED
  BY <1>1, <1>2, <1>3, <1>4, <1>5, <1>6
  DEF Next, PollerTurn, RequestStep, GitHubStep, TickerPanics, Signal, MainEnds,
      goto, Panic, startupVars, vars

\* What has passed the checks is what the README describes, as far as it is
\* looked at.
LEMMA CheckedIsDocumented ==
    ASSUME CheckedSoFar, stage = "authenticating", ~SigningFails(data)
    PROVE  DocumentedInPart(environment)
<1>1. PICK release \in {"v2", "v3", "unreachable"} : ~Refused(environment, release)
  BY DEF CheckedSoFar
<1>2. /\ ~NewGitHubConfigFails(environment.GITHUB_URL)
      /\ ~RunnerNameFails(data)
  BY DEF CheckedSoFar
<1>3. GitHubAppPrivateKey(environment) = "key"
  <2>1. environment \in Environments
    BY DEF CheckedSoFar
  <2>2. QED
    BY <1>1, <2>1, EnvironmentsAssumption DEF Refused, SigningFails, data, EnvData
<1>4. AppIsDocumented(environment)
  BY <1>1, <1>3 DEF Refused, AppIsDocumented, GitHubAppPrivateKey
<1>5. OrkaIsDocumented(environment) /\ environment.ORKA_VM_METADATA # "other pairs"
  BY <1>1 DEF Refused, OrkaIsDocumented, NodeIPMappingRefused, Unset
<1>6. /\ environment.GITHUB_URL.wellFormed /\ isHTTP(environment.GITHUB_URL)
      /\ Len(environment.GITHUB_URL.path) \in {1, 2}
  BY <1>1, <1>2 DEF Refused, NewGitHubConfigFails
<1>7. /\ environment.RUNNERS.text = "array" /\ environment.RUNNERS.list # <<>>
      /\ Head(environment.RUNNERS.list) = "name"
  BY <1>1, <1>2 DEF Refused, RunnerNameFails, data, EnvData
<1>8. QED
  BY <1>4, <1>5, <1>6, <1>7 DEF DocumentedInPart

\* Only a client that was made has a token.
LEMMA TokenComesWithClient ==
    ASSUME ClientInv, [Next]_vars, adminToken = NoToken, adminToken' # NoToken
    PROVE  Authenticate
<1>1. \A g \in Goroutine : request[g] = "none"
  BY DEF ClientInv, NothingBeforeTheClient
<1>2. ASSUME NEW g \in Goroutine, \/ BeginRequest(g) \/ TokenStep(g) \/ RequestFails(g)
                                  \/ Send(g) \/ Answered(g)
      PROVE  FALSE
  BY <1>1, <1>2 DEF BeginRequest, TokenStep, LockTaken, TokenIsFresh, BeginRefresh,
     AdminTokenStored, WriteFirstWord, WriteSecondWord, RequestFails, RefreshFails,
     ExpiryUnreadable, Send, Answered
<1> USE PollerAssumption, MainAssumption, <1>2
<1>3. MainStep => Authenticate
  BY DEF MainStep, ParseEnv, CheckConfiguration, AuthenticationFails, MainRequests,
         MainGoesOn, MainTakesOver, MainPanics, MainRequestFails, StartMetrics,
         PollerStarts, ConnectToOrka, clientVars
<1>4. PollerTurn => FALSE
  BY DEF PollerTurn, PollerStep, PollTick, PollFails, PollSucceeds, UpdateGauge,
         UpdateReturns, PollerStops, clientVars
<1>5. (\E g \in Goroutine : RequestStep(g)) => FALSE
  BY DEF RequestStep
<1>6. (GitHubStep \/ TickerPanics \/ Signal \/ MainEnds \/ UNCHANGED vars) => FALSE
  BY DEF GitHubStep, Tick, StatisticsChange, TickerPanics, Signal, MainEnds, vars,
         clientVars
<1>7. QED
  BY <1>3, <1>4, <1>5, <1>6 DEF Next

LEMMA EnvironmentStays ==
    ASSUME [Next]_vars
    PROVE  UNCHANGED environment
BY DEF Next, MainStep, ParseEnv, CheckConfiguration, Authenticate, AuthenticationFails,
       MainRequests, MainGoesOn, MainTakesOver, MainPanics, MainRequestFails,
       StartMetrics, ConnectToOrka, PollerTurn, RequestStep, GitHubStep, TickerPanics,
       Signal, MainEnds, goto, Panic, startupVars, vars

\* A program that is not configured as the README says, as far as it looks at its
\* configuration, never gets a token, so it changes nothing at GitHub.
THEOREM TokensAreForConfiguredRuns == Spec => []OnlyConfiguredRunsGetAToken
<1>1. Init => CheckedSoFar /\ OnlyConfiguredRunsGetAToken
  BY DEF Init, ClientInit, CheckedSoFar, OnlyConfiguredRunsGetAToken
<1>2. ClientInv /\ CheckedSoFar /\ OnlyConfiguredRunsGetAToken /\ [Next]_vars
         => CheckedSoFar' /\ OnlyConfiguredRunsGetAToken'
  <2> SUFFICES ASSUME ClientInv, CheckedSoFar, OnlyConfiguredRunsGetAToken, [Next]_vars,
                      adminToken' # NoToken
               PROVE  DocumentedInPart(environment)
    BY CheckedStaysChecked, EnvironmentStays DEF OnlyConfiguredRunsGetAToken, NoToken
  <2>1. CASE adminToken # NoToken
    BY <2>1 DEF OnlyConfiguredRunsGetAToken
  <2>2. CASE adminToken = NoToken
    <3>1. stage = "authenticating" /\ ~SigningFails(data)
      BY <2>2, TokenComesWithClient DEF Authenticate
    <3>2. QED
      BY <3>1, CheckedIsDocumented
  <2>3. QED
    BY <2>1, <2>2
<1>3. QED
  BY <1>1, <1>2, StartupUsesTheClient, ClientInvariantHolds, PTL DEF Spec

\* An environment that the README describes passes every check, but for bare
\* hosts, metadata of other characters and the release of the runner.
LEMMA DocumentedIsAccepted ==
    ASSUME environment \in Environments, Documented(environment)
    PROVE  /\ NewGitHubConfigFails(environment.GITHUB_URL) =>
                 environment.GITHUB_URL.path = <<>>
           /\ ~RunnerNameFails(data)
           /\ ~SigningFails(data)
           /\ \A release \in {"v2", "v3", "unreachable"} :
                 Refused(environment, release) =>
                    \/ environment.ORKA_VM_METADATA = "other pairs"
                    \/ environment.GITHUB_RUNNER_VERSION = Unset
           /\ IntervalsArePositive(environment) =>
                 /\ data.MetricsPollInterval \in Nat \ {0}
                 /\ data.VMTrackerInterval \in Nat \ {0}
                 /\ data.RunnerDeregistrationPollInterval \in Nat \ {0}
<1> USE DEF data, EnvData
<1>1. NewGitHubConfigFails(environment.GITHUB_URL) => environment.GITHUB_URL.path = <<>>
  BY DEF Documented, URLIsDocumented, NewGitHubConfigFails
<1>2. ~RunnerNameFails(data)
  <2>1. data.Runners = <<"name">>
    BY DEF Documented, RunnersAreDocumented
  <2>2. <<"name">> # <<>> /\ Head(<<"name">>) = "name"
    OBVIOUS
  <2>3. QED
    BY <2>1, <2>2 DEF RunnerNameFails
<1>3. GitHubAppPrivateKey(environment) = "key"
  BY DEF Documented, AppIsDocumented, GitHubAppPrivateKey, Unset
<1>4. ~SigningFails(data)
  BY <1>3 DEF SigningFails
<1>5. ASSUME NEW release \in {"v2", "v3", "unreachable"}, Refused(environment, release)
      PROVE  \/ environment.ORKA_VM_METADATA = "other pairs"
             \/ environment.GITHUB_RUNNER_VERSION = Unset
  BY <1>3, <1>5
  DEF Refused, Documented, AppIsDocumented, URLIsDocumented, OrkaIsDocumented,
      RunnersAreDocumented, NodeIPMappingRefused, LatestVersionRefused, Unset
<1>6. ASSUME NEW interval \in Intervals(environment), NEW fallback \in Nat \ {0},
             IntervalsArePositive(environment)
      PROVE  getDurationEnv(interval, fallback) \in Nat \ {0}
  <2>1. interval.text \in {Unset, "soon", "duration"} /\ interval.seconds \in Int
    BY EnvironmentsAssumption
  <2>2. interval.text = "duration" => interval.seconds > 0
    BY <1>6 DEF IntervalsArePositive
  <2>3. QED
    BY <2>1, <2>2 DEF getDurationEnv
<1>7. ASSUME IntervalsArePositive(environment)
      PROVE  /\ getDurationEnv(environment.METRICS_POLL_INTERVAL, 30) \in Nat \ {0}
             /\ getDurationEnv(environment.VM_TRACKER_INTERVAL, 300) \in Nat \ {0}
             /\ getDurationEnv(environment.RUNNER_DEREGISTRATION_POLL_INTERVAL, 2) \in Nat \ {0}
  BY <1>6, <1>7 DEF Intervals
<1>8. QED
  BY <1>1, <1>2, <1>4, <1>5, <1>7

\* A program that is configured as the README says panics on a failed call only,
\* on the release it had to ask for, or on what the README lets pass and the code
\* does not.
THEOREM ConfiguredRunsDoNotPanic == Spec => []ConfiguredRunPanicsOnCallsOnly
<1>1. Init => environment \in Environments /\ ConfiguredRunPanicsOnCallsOnly
  BY DEF Init, ConfiguredRunPanicsOnCallsOnly
<1>2. environment \in Environments /\ ConfiguredRunPanicsOnCallsOnly /\ [Next]_vars
         => (environment \in Environments)' /\ ConfiguredRunPanicsOnCallsOnly'
  <2> SUFFICES ASSUME environment \in Environments, ConfiguredRunPanicsOnCallsOnly,
                      [Next]_vars, Documented(environment),
                      IntervalsArePositive(environment)
               PROVE  \/ panic' \in {"none", "call"}
                      \/ /\ panic' = "environment"
                         /\ \/ environment.ORKA_VM_METADATA = "other pairs"
                            \/ environment.GITHUB_RUNNER_VERSION = Unset
                      \/ /\ panic' = "configuration"
                         /\ environment.GITHUB_URL.path = <<>>
    BY EnvironmentStays DEF ConfiguredRunPanicsOnCallsOnly
  <2>1. \/ UNCHANGED panic \/ Panic("call")
        \/ /\ Panic("environment")
           /\ \/ environment.ORKA_VM_METADATA = "other pairs"
              \/ environment.GITHUB_RUNNER_VERSION = Unset
        \/ Panic("configuration") /\ environment.GITHUB_URL.path = <<>>
        \/ TickerPanics
    <3>1. CASE ParseEnv \/ CheckConfiguration \/ AuthenticationFails
      BY <3>1, DocumentedIsAccepted
      DEF ParseEnv, CheckConfiguration, AuthenticationFails, goto
    <3>2. CASE \/ Authenticate \/ MainRequests \/ MainGoesOn \/ MainTakesOver
               \/ MainPanics \/ MainRequestFails \/ StartMetrics \/ ConnectToOrka
      BY <3>2 DEF Authenticate, MainRequests, MainGoesOn, MainTakesOver, MainPanics,
                  MainRequestFails, StartMetrics, ConnectToOrka, goto, startupVars
    <3>3. QED
      BY <3>1, <3>2 DEF Next, MainStep, PollerTurn, RequestStep, GitHubStep, Signal,
                        MainEnds, goto, startupVars, vars
  <2>2. ~TickerPanics
    <3>1. /\ data.MetricsPollInterval > 0
          /\ data.VMTrackerInterval > 0
          /\ data.RunnerDeregistrationPollInterval > 0
      <4>1. \A n \in Nat \ {0} : n > 0
        OBVIOUS
      <4>2. QED
        BY <4>1, DocumentedIsAccepted
    <3>2. \A n \in Nat : n > 0 => ~(n <= 0)
      OBVIOUS
    <3>3. QED
      BY <3>1, <3>2, DocumentedIsAccepted DEF TickerPanics
  <2>3. QED
    BY <2>1, <2>2 DEF ConfiguredRunPanicsOnCallsOnly, Panic
<1>3. QED
  BY <1>1, <1>2, PTL DEF Spec

=============================================================================
