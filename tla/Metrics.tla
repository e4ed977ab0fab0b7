------------------------------- MODULE Metrics -------------------------------
(***************************************************************************)
(* pkg/metrics/metrics.go: the poller that asks GitHub for the statistics  *)
(* of the scale set and copies them into the gauges, one after the other,  *)
(* with the client that it shares with all other goroutines.               *)
(*                                                                         *)
(* The statistics stand for the number of times they have changed so far.  *)
(***************************************************************************)
EXTENDS ActionsClient

CONSTANTS
    Poller,         \* the goroutine of startPoller
    Gauges,         \* how many gauges there are, 7 in the code
    MaxStatistics   \* the statistics change no more often

ASSUME PollerAssumption == Poller \in Goroutine

ASSUME GaugesAssumption == Gauges \in Nat \ {0} /\ MaxStatistics \in Nat

VARIABLES
    statistics,     \* of the scale set at GitHub
    scaleSetExists, \* GitHub has it: a run that takes it over deletes it first
    poller,         \* what the poller is doing
    answer,         \* the statistics GitHub answered with
    gauges          \* their values, which a scrape reads one at a time

gitHubStatistics == <<statistics, scaleSetExists>>
pollerVars == <<poller, answer, gauges>>
metricsVars == <<gitHubStatistics, pollerVars>>

MetricsTypeOK ==
    /\ statistics \in 0 .. MaxStatistics
    /\ scaleSetExists \in BOOLEAN
    /\ poller \in {"off", "waiting", "polling", "updating", "stopped"}
    /\ answer \in 0 .. MaxStatistics
    /\ gauges \in [1 .. Gauges -> 0 .. MaxStatistics]

MetricsInit ==
    /\ statistics = 0 /\ scaleSetExists \in BOOLEAN
    /\ poller = "off"
    /\ answer = 0
    /\ gauges = [i \in 1 .. Gauges |-> 0]

-----------------------------------------------------------------------------
(* GitHub.                                                                 *)

StatisticsChange ==
    /\ statistics < MaxStatistics
    /\ statistics' = statistics + 1
    /\ UNCHANGED <<clientVars, scaleSetExists, pollerVars>>

\* The requests of main create and delete the scale set.
ScaleSetBecomes(there) ==
    /\ scaleSetExists' = there
    /\ UNCHANGED <<statistics, pollerVars>>

-----------------------------------------------------------------------------
(* startPoller.                                                            *)

PollerStarts ==
    /\ poller = "off"
    /\ poller' = "waiting"
    /\ UNCHANGED <<clientVars, gitHubStatistics, answer, gauges>>

\* The ticker fires, and GetRunnerScaleSet makes its request.
PollTick ==
    /\ poller = "waiting"
    /\ poller' = "polling"
    /\ BeginRequest(Poller)
    /\ UNCHANGED <<gitHubStatistics, answer, gauges>>

\* Mutation: an error ends the poller.
PollErrorStops ==
    /\ poller = "polling"
    /\ RequestFails(Poller) \/ Answered(Poller)
    /\ poller' = "stopped"
    /\ UNCHANGED <<gitHubStatistics, answer, gauges>>

\* An error is logged, and a scale set that is not there is passed over.
PollFails ==
    /\ poller = "polling"
    /\ RequestFails(Poller) \/ Answered(Poller)
    /\ poller' = "waiting"
    /\ UNCHANGED <<gitHubStatistics, answer, gauges>>

PollSucceeds ==
    /\ poller = "polling" /\ scaleSetExists
    /\ Answered(Poller)
    /\ answer' = statistics
    /\ poller' = "updating"
    /\ UNCHANGED <<gitHubStatistics, gauges>>

\* The first gauge that still shows an older answer is set.
UpdateGauge ==
    /\ poller = "updating"
    /\ \E i \in 1 .. Gauges :
          /\ gauges[i] # answer
          /\ \A j \in 1 .. i - 1 : gauges[j] = answer
          /\ gauges' = [gauges EXCEPT ![i] = answer]
    /\ UNCHANGED <<clientVars, gitHubStatistics, poller, answer>>

UpdateReturns ==
    /\ poller = "updating"
    /\ \A i \in 1 .. Gauges : gauges[i] = answer
    /\ poller' = "waiting"
    /\ UNCHANGED <<clientVars, gitHubStatistics, answer, gauges>>

\* ctx is done.
PollerStops ==
    /\ poller = "waiting"
    /\ poller' = "stopped"
    /\ UNCHANGED <<clientVars, gitHubStatistics, answer, gauges>>

PollerStep ==
    \/ PollTick
    \/ PollFails
    \/ PollSucceeds
    \/ UpdateGauge
    \/ UpdateReturns

=============================================================================
