------------------------- MODULE ScaleSetSuccession -------------------------
(***************************************************************************)
(* Runs of the program that follow one another: ScaleSetLifecycle with a   *)
(* history variable that remembers whether anything went wrong so far.     *)
(***************************************************************************)
EXTENDS ScaleSetLifecycle

VARIABLE disturbed      \* a call has failed or two runs have overlapped

historyVars == <<vars, disturbed>>

ObservedNext ==
    /\ Next
    /\ disturbed' = (disturbed \/ ~AtMostOneLive' \/ ~CallsSucceed)

Succession ==
    /\ Init /\ disturbed = FALSE
    /\ [][ObservedNext]_historyVars

-----------------------------------------------------------------------------

\* What the next call of a start needs at GitHub, and what a run that serves
\* lives on.
FindsWhatItNeeds(p) ==
    /\ stage[p] \in {"deleting", "connecting", "openingSession", "takingOver",
                     "reopening"} => scaleSet = scaleSetId[p] /\ scaleSet # NoScaleSet
    /\ stage[p] \in {"creating", "recreating"} => scaleSet = NoScaleSet
    /\ stage[p] = "reopening" => session = NoProcess
    /\ stage[p] \in {"initialMessage", "serving"} => session = p

\* With calls that succeed and one run at a time, nothing an earlier run left
\* behind, in whatever state it ended, keeps a run from starting or takes its
\* session away: each call of main finds GitHub in the state it needs, and main
\* panics after a signal only.
LeftoversDoNotStopTheStart ==
    disturbed \/ \A p \in Process :
                    canceled[p] \/ (stage[p] # "panicked" /\ FindsWhatItNeeds(p))

-----------------------------------------------------------------------------
(* The inductive invariant behind it.                                      *)

\* The run has done nothing but what every successful start does.
IsOnTrack(p) ==
    /\ retryCount[p] = 0 /\ handler[p] = "waiting" /\ once[p] = "free"
    /\ stage[p] \notin {"sleeping", "sleepingAgain", "returning", "stopped",
                        "panicked"}
    /\ FindsWhatItNeeds(p)

SuccessionInv ==
    /\ LifecycleInv
    /\ disturbed \in BOOLEAN
    /\ disturbed \/ (AtMostOneLive /\ \A p \in Process : canceled[p] \/ IsOnTrack(p))

=============================================================================
