---------------------- MODULE ScaleSetLifecycle_proofs ----------------------
(***************************************************************************)
(* The safety of start and shutdown, for every number of runs, every       *)
(* mixture of configurations and every retry limit.                        *)
(***************************************************************************)
EXTENDS ScaleSetSuccession, TLAPS

LEMMA InitialLifecycle ==
    ASSUME Init
    PROVE  LifecycleInv
BY NoProcessAssumption, RetryAssumption
DEF Init, LifecycleInv, TypeOK, Starting, Serving, Ended, IdsWereGiven,
    SessionIsOnOwnScaleSet, ManagedScaleSetHasOneRun, HasScaleSet,
    CloseComesFirst, RetriesAreLeft, NoScaleSet

LEMMA StartKeepsInv ==
    ASSUME LifecycleInv, NEW p \in Process, StartStep(p) \/ StartFailure(p)
    PROVE  LifecycleInv'
<1> USE NoProcessAssumption, RetryAssumption
    DEF LifecycleInv, TypeOK, Starting, Serving, Ended, IdsWereGiven,
        SessionIsOnOwnScaleSet, ManagedScaleSetHasOneRun, HasScaleSet,
        CloseComesFirst, RetriesAreLeft, NoScaleSet, gitHubVars, shutdownVars, goto
<1>1. CASE LookUpScaleSet(p)
  BY <1>1 DEF LookUpScaleSet
<1>2. CASE DeleteExisting(p)
  BY <1>2 DEF DeleteExisting, DeleteRunnerScaleSet
<1>3. CASE CreateScaleSet(p)
  BY <1>3 DEF CreateScaleSet, CreateRunnerScaleSet
<1>4. CASE ConnectToOrka(p)
  BY <1>4 DEF ConnectToOrka
<1>5. CASE OpenSession(p)
  BY <1>5 DEF OpenSession, CreateMessageSession
<1>6. CASE SessionConflict(p)
  BY <1>6 DEF SessionConflict
<1>7. CASE InitialMessage(p)
  BY <1>7 DEF InitialMessage
<1>8. CASE SessionFails(p)
  BY <1>8 DEF SessionFails, CreateMessageSession, Pause
<1>9. CASE StartPanics(p)
  BY <1>9 DEF StartPanics, DeleteRunnerScaleSet, CreateRunnerScaleSet
<1>10. CASE TryAgain(p)
  BY <1>10 DEF TryAgain
<1>11. QED
  BY <1>1, <1>2, <1>3, <1>4, <1>5, <1>6, <1>7, <1>8, <1>9, <1>10
  DEF StartStep, StartFailure

LEMMA EndKeepsInv ==
    ASSUME LifecycleInv, NEW p \in Process,
           CloseStep(p) \/ MainEnd(p) \/ HandlerStep(p)
    PROVE  LifecycleInv'
<1> USE NoProcessAssumption
    DEF LifecycleInv, TypeOK, Starting, Serving, Ended, IdsWereGiven,
        SessionIsOnOwnScaleSet, ManagedScaleSetHasOneRun, HasScaleSet,
        CloseComesFirst, RetriesAreLeft, NoScaleSet, gitHubVars, shutdownVars, goto
<1>1. CASE MainCloses(p)
  BY <1>1 DEF MainCloses
<1>2. CASE HandlerCloses(p)
  BY <1>2 DEF HandlerCloses
<1>3. CASE CloseReturns(p)
  BY <1>3 DEF CloseReturns
<1>4. CASE MainReturns(p)
  BY <1>4 DEF MainReturns
<1>5. CASE MainExits(p)
  BY <1>5 DEF MainExits
<1>6. CASE HandlerWakes(p)
  BY <1>6 DEF HandlerWakes
<1>7. CASE HandlerProceeds(p)
  BY <1>7 DEF HandlerProceeds
<1>8. CASE HandlerDeletes(p)
  BY <1>8 DEF HandlerDeletes, DeleteRunnerScaleSet
<1>9. CASE HandlerDeleteFails(p)
  BY <1>9 DEF HandlerDeleteFails
<1>10. CASE HandlerExits(p)
  BY <1>10 DEF HandlerExits
<1>11. QED
  BY <1>1, <1>2, <1>3, <1>4, <1>5, <1>6, <1>7, <1>8, <1>9, <1>10
  DEF CloseStep, MainEnd, HandlerStep

LEMMA StepKeepsInv ==
    ASSUME LifecycleInv, [Next]_vars
    PROVE  LifecycleInv'
<1> USE NoProcessAssumption
    DEF LifecycleInv, TypeOK, Starting, Serving, Ended, IdsWereGiven,
        SessionIsOnOwnScaleSet, ManagedScaleSetHasOneRun, HasScaleSet,
        CloseComesFirst, RetriesAreLeft, NoScaleSet, gitHubVars, shutdownVars, goto
<1>1. CASE SessionExpires
  BY <1>1 DEF SessionExpires
<1>2. CASE \E p \in Process : Start(p)
  BY <1>2 DEF Start
<1>3. CASE \E p \in Process : Signal(p)
  BY <1>3 DEF Signal
<1>4. CASE \E p \in Process : RunReturns(p) \/ NilSessionPanics(p) \/ Kill(p)
  BY <1>4 DEF RunReturns, NilSessionPanics, Kill
<1>5. CASE UNCHANGED vars
  BY <1>5 DEF vars
<1>6. QED
  BY <1>1, <1>2, <1>3, <1>4, <1>5, StartKeepsInv, EndKeepsInv DEF Next

\* What every run may rely on, whatever other runs do: a managed scale set is
\* used by the run that created it alone, a session is held on the scale set of
\* its owner, and a closed session is not opened again.
THEOREM LifecycleInvariantHolds == Spec => []LifecycleInv
<1>1. Init => LifecycleInv
  BY InitialLifecycle
<1>2. LifecycleInv /\ [Next]_vars => LifecycleInv'
  BY StepKeepsInv
<1>3. QED
  BY <1>1, <1>2, PTL DEF Spec

\* A run that ends in an orderly way leaves no session behind, unless GitHub did
\* not confirm its deletion: the second caller of closeOnce waits for the first.
THEOREM SessionIsClosedOnExit == Spec => []ExitedRunLeavesNoSession
<1>1. LifecycleInv => ExitedRunLeavesNoSession
  BY DEF LifecycleInv, CloseComesFirst, ExitedRunLeavesNoSession
<1>2. QED
  BY <1>1, LifecycleInvariantHolds, PTL

\* The deletion at the end of a run goes by id, and a managed scale set belongs to
\* the run that created it, so no other managing run loses its session.
THEOREM ExitIsHarmless == Spec => ExitSparesOtherSessions
<1> DEFINE Spares(p) ==
        handler[p] = "deleting" /\ handler'[p] = "exiting" /\ scaleSet' # scaleSet
            => session \in {p, NoProcess} \/ ~manages[session]
<1>1. ASSUME LifecycleInv, Next, NEW p \in Process
      PROVE  Spares(p)
  <2>1. SUFFICES ASSUME handler[p] = "deleting", handler'[p] = "exiting",
                        scaleSet' # scaleSet, session # NoProcess,
                        manages[session]
                 PROVE  session = p
    BY DEF LifecycleInv, TypeOK
  <2>2. HandlerDeletes(p)
    <3>1. \A q \in Process :
             StartStep(q) \/ StartFailure(q) \/ Start(q) \/ Signal(q)
               \/ RunReturns(q) \/ CloseStep(q) \/ MainEnd(q)
               \/ NilSessionPanics(q) \/ Kill(q)
               \/ HandlerDeleteFails(q) \/ HandlerExits(q)
               => handler' = handler \/ scaleSet' = scaleSet
      BY DEF StartStep, StartFailure, LookUpScaleSet, DeleteExisting,
             CreateScaleSet, ConnectToOrka, OpenSession, SessionConflict,
             TryAgain, InitialMessage, SessionFails, StartPanics, Start, Signal,
             RunReturns, CloseStep, MainCloses, HandlerCloses, CloseReturns,
             MainEnd, MainReturns, MainExits, NilSessionPanics, Kill,
             HandlerDeleteFails, HandlerExits, gitHubVars, shutdownVars
    <3>2. \A q \in Process : HandlerWakes(q) \/ HandlerProceeds(q)
             => scaleSet' = scaleSet
      BY DEF HandlerWakes, HandlerProceeds, gitHubVars
    <3>3. SessionExpires => scaleSet' = scaleSet
      BY DEF SessionExpires
    <3>4. PICK q \in Process : HandlerDeletes(q)
      BY <1>1, <2>1, <3>1, <3>2, <3>3 DEF Next, HandlerStep
    <3>5. q = p
      BY <2>1, <3>4 DEF HandlerDeletes, LifecycleInv, TypeOK
    <3>6. QED
      BY <3>4, <3>5
  <2>3. session \in Process /\ scaleSetId[session] = scaleSetId[p]
    BY <1>1, <2>1, <2>2
    DEF HandlerDeletes, DeleteRunnerScaleSet, LifecycleInv, TypeOK,
        SessionIsOnOwnScaleSet
  <2>4. HasScaleSet(p) /\ HasScaleSet(session) /\ manages[p]
    BY <1>1, <2>1, <2>2
    DEF HandlerDeletes, HasScaleSet, LifecycleInv, CloseComesFirst
  <2>5. QED
    BY <1>1, <2>1, <2>3, <2>4 DEF LifecycleInv, ManagedScaleSetHasOneRun
<1>2. LifecycleInv /\ [Next]_vars =>
         [\A p \in Process :
             handler[p] = "deleting" /\ handler'[p] = "exiting"
               /\ scaleSet' # scaleSet
                 => \/ session \in {p, NoProcess}
                    \/ ~manages[session]]_vars
  BY <1>1
<1>3. QED
  BY <1>2, LifecycleInvariantHolds, PTL DEF Spec, ExitSparesOtherSessions

-----------------------------------------------------------------------------
(* Runs that follow one another.                                           *)

\* What a run does that is not disturbed.
LEMMA OwnStepStaysOnTrack ==
    ASSUME LifecycleInv, NEW p \in Process, IsOnTrack(p), ~canceled[p],
           CallsSucceed, ~canceled'[p],
           \/ Start(p) \/ StartStep(p) \/ StartFailure(p) \/ Signal(p)
           \/ RunReturns(p) \/ CloseStep(p) \/ MainEnd(p) \/ HandlerStep(p)
           \/ NilSessionPanics(p) \/ Kill(p)
    PROVE  IsOnTrack(p)'
<1> USE NoProcessAssumption, RetryAssumption
    DEF LifecycleInv, TypeOK, Starting, Serving, Ended, IdsWereGiven,
        SessionIsOnOwnScaleSet, HasScaleSet, CloseComesFirst, NoScaleSet,
        gitHubVars, shutdownVars, goto, IsOnTrack, FindsWhatItNeeds
<1>1. CASE LookUpScaleSet(p)
  BY <1>1 DEF LookUpScaleSet
<1>2. CASE DeleteExisting(p)
  BY <1>2 DEF DeleteExisting, DeleteRunnerScaleSet
<1>3. CASE CreateScaleSet(p)
  BY <1>3 DEF CreateScaleSet, CreateRunnerScaleSet
<1>4. CASE ConnectToOrka(p) \/ InitialMessage(p) \/ TryAgain(p)
  BY <1>4 DEF ConnectToOrka, InitialMessage, TryAgain
<1>5. CASE OpenSession(p)
  BY <1>5 DEF OpenSession, CreateMessageSession
<1>6. CASE SessionConflict(p)
  BY <1>6 DEF SessionConflict
<1>7. CASE StartFailure(p)
  BY <1>6, <1>7 DEF CallsSucceed
<1>8. CASE Start(p) \/ Signal(p) \/ Kill(p)
  BY <1>8 DEF Start, Signal, Kill
<1>9. CASE RunReturns(p)
  BY <1>9 DEF CallsSucceed
<1>10. CASE NilSessionPanics(p)
  BY <1>10 DEF NilSessionPanics
<1>11. CASE CloseStep(p)
  BY <1>11 DEF CloseStep, MainCloses, HandlerCloses, CloseReturns
<1>12. CASE MainEnd(p) \/ HandlerStep(p)
  BY <1>12 DEF MainEnd, MainReturns, MainExits, HandlerStep, HandlerWakes,
     HandlerProceeds, HandlerDeletes, HandlerDeleteFails, HandlerExits
<1>13. QED
  BY <1>1, <1>2, <1>3, <1>4, <1>5, <1>6, <1>7, <1>8, <1>9, <1>10, <1>11, <1>12
  DEF StartStep


\* What a run does while another one starts or serves undisturbed: that one is
\* not concerned by a run that is over.
LEMMA OtherRunsStepAside ==
    ASSUME LifecycleInv, NEW p \in Process, NEW q \in Process, p # q, IsOnTrack(p),
           AtMostOneLive, AtMostOneLive',
           \/ Start(q) \/ StartStep(q) \/ StartFailure(q) \/ Signal(q)
           \/ RunReturns(q) \/ CloseStep(q) \/ MainEnd(q) \/ HandlerStep(q)
           \/ NilSessionPanics(q) \/ Kill(q)
    PROVE  IsOnTrack(p)'
<1>1. UNCHANGED <<stage[p], scaleSetId[p], retryCount[p], handler[p], once[p]>>
  BY DEF LifecycleInv, TypeOK, Start, StartStep, StartFailure, Signal,
     RunReturns, CloseStep, MainEnd, HandlerStep, NilSessionPanics, Kill,
     LookUpScaleSet, DeleteExisting, CreateScaleSet, ConnectToOrka, OpenSession,
     SessionConflict, TryAgain, InitialMessage, SessionFails, StartPanics,
     MainCloses, HandlerCloses, CloseReturns, MainReturns, MainExits,
     HandlerWakes, HandlerProceeds, HandlerDeletes, HandlerDeleteFails,
     HandlerExits, goto, gitHubVars, shutdownVars
<1>2. CASE stage[p] \notin Starting \union Serving
  BY <1>1, <1>2 DEF IsOnTrack, FindsWhatItNeeds, Starting, Serving
<1>3. CASE stage[p] \in Starting \union Serving
  <2>1. stage[q] \notin Starting \union Serving
    BY <1>3 DEF AtMostOneLive
  <2>2. Start(q) => stage'[q] \in Starting \union Serving
    BY DEF Start, goto, Starting, LifecycleInv, TypeOK
  <2>3. ~Start(q)
    BY <1>1, <1>3, <2>2 DEF AtMostOneLive
  <2>4. ~(StartStep(q) \/ StartFailure(q) \/ Signal(q) \/ RunReturns(q)
            \/ NilSessionPanics(q) \/ Kill(q))
    BY <2>1 DEF Starting, Serving, StartStep, StartFailure, Signal, RunReturns,
       NilSessionPanics, Kill, LookUpScaleSet, DeleteExisting, CreateScaleSet,
       ConnectToOrka, OpenSession, SessionConflict, TryAgain, InitialMessage,
       SessionFails, StartPanics
  <2>5. ~(CloseStep(q) \/ MainEnd(q) \/ HandlerStep(q))
    BY <2>1 DEF Starting, Serving, CloseStep, MainEnd, HandlerStep,
       MainCloses, HandlerCloses, CloseReturns, MainReturns, MainExits,
       HandlerWakes, HandlerProceeds, HandlerDeletes, HandlerDeleteFails,
       HandlerExits
  <2>6. QED
    BY <2>3, <2>4, <2>5
<1>4. QED
  BY <1>2, <1>3

LEMMA SuccessionStepKeepsInv ==
    ASSUME SuccessionInv, [ObservedNext]_historyVars
    PROVE  SuccessionInv'
<1>1. LifecycleInv'
  BY StepKeepsInv DEF SuccessionInv, ObservedNext, historyVars
<1>2. disturbed' \in BOOLEAN
  BY DEF SuccessionInv, ObservedNext, historyVars
<1>3. CASE UNCHANGED historyVars
  BY <1>1, <1>3
  DEF SuccessionInv, historyVars, vars, gitHubVars, shutdownVars, AtMostOneLive,
      IsOnTrack, FindsWhatItNeeds
<1>4. CASE ObservedNext /\ ~disturbed'
  <2>1. ~disturbed /\ AtMostOneLive /\ AtMostOneLive' /\ CallsSucceed
    BY <1>4 DEF ObservedNext, SuccessionInv
  <2>2. SUFFICES ASSUME NEW p \in Process, ~canceled'[p]
                 PROVE  IsOnTrack(p)'
    BY <1>1, <1>2, <2>1 DEF SuccessionInv
  <2>3. ~canceled[p]
    BY <1>4, <2>2 DEF ObservedNext, Next, Start, StartStep, StartFailure, Signal,
       RunReturns, CloseStep, MainEnd, HandlerStep, NilSessionPanics, Kill,
       LookUpScaleSet, DeleteExisting, CreateScaleSet, ConnectToOrka,
       OpenSession, SessionConflict, TryAgain, InitialMessage, SessionFails,
       StartPanics, MainCloses, HandlerCloses, CloseReturns, MainReturns,
       MainExits, HandlerWakes, HandlerProceeds, HandlerDeletes,
       HandlerDeleteFails, HandlerExits, SessionExpires, shutdownVars,
       SuccessionInv, LifecycleInv, TypeOK
  <2>4. IsOnTrack(p)
    BY <2>1, <2>3 DEF SuccessionInv
  <2>5. CASE SessionExpires
    BY <2>4, <2>5 DEF SessionExpires, SuccessionInv, LifecycleInv, TypeOK, Ended,
       IsOnTrack, FindsWhatItNeeds, shutdownVars
  <2>6. ASSUME NEW q \in Process,
               \/ Start(q) \/ StartStep(q) \/ StartFailure(q) \/ Signal(q)
               \/ RunReturns(q) \/ CloseStep(q) \/ MainEnd(q) \/ HandlerStep(q)
               \/ NilSessionPanics(q) \/ Kill(q)
        PROVE  IsOnTrack(p)'
    <3>1. CASE q = p
      BY <2>1, <2>2, <2>3, <2>4, <2>6, <3>1, OwnStepStaysOnTrack DEF SuccessionInv
    <3>2. CASE q # p
      BY <2>1, <2>2, <2>3, <2>4, <2>6, <3>2, OtherRunsStepAside
      DEF SuccessionInv
    <3>3. QED
      BY <3>1, <3>2
  <2>7. QED
    BY <1>4, <2>5, <2>6 DEF ObservedNext, Next
<1>5. QED
  BY <1>1, <1>2, <1>3, <1>4 DEF SuccessionInv

\* While calls succeed and runs do not overlap, a run that was not told to stop
\* goes the way of every successful start, whatever earlier runs left at GitHub.
THEOREM SuccessionInvariantHolds == Succession => []SuccessionInv
<1>1. Init /\ disturbed = FALSE => SuccessionInv
  BY InitialLifecycle
  DEF Init, SuccessionInv, AtMostOneLive, IsOnTrack, FindsWhatItNeeds, Starting,
      Serving
<1>2. SuccessionInv /\ [ObservedNext]_historyVars => SuccessionInv'
  BY SuccessionStepKeepsInv
<1>3. QED
  BY <1>1, <1>2, PTL DEF Succession

\* Neither the scale set nor the session an earlier run left behind keeps the
\* next run from starting, and nothing of an earlier run takes its session away.
THEOREM LeftoversAreHarmless == Succession => []LeftoversDoNotStopTheStart
<1>1. SuccessionInv => LeftoversDoNotStopTheStart
  BY DEF SuccessionInv, IsOnTrack, LeftoversDoNotStopTheStart
<1>2. QED
  BY <1>1, SuccessionInvariantHolds, PTL


-----------------------------------------------------------------------------
(* The session is handed on as a lease.                                    *)

phases == [p \in Process |-> RunPhase(p)]

\* A step of one run moves no other one on.
LEMMA PhaseStep ==
    ASSUME NEW p \in Process, NEW next, RunPhase(p)' = next,
           \A q \in Process \ {p} : stage'[q] = stage[q] /\ once'[q] = once[q]
    PROVE  phases' = [phases EXCEPT ![p] = next]
<1>1. \A q \in Process \ {p} : RunPhase(q)' = RunPhase(q)
  BY DEF RunPhase
<1>2. QED
  BY <1>1 DEF phases

LEMMA PhaseStays ==
    ASSUME UNCHANGED <<stage, once>>
    PROVE  UNCHANGED phases
BY DEF phases, RunPhase

\* The steps of a start, in the words of the lease.
LEMMA StartHandsOn ==
    ASSUME LifecycleInv, NEW p \in Process, StartStep(p) \/ StartFailure(p)
    PROVE  [Lease!Next]_(Lease!vars)
<1> USE DEF LifecycleInv, TypeOK, gitHubVars, shutdownVars
<1>1. UNCHANGED manages /\ once' = once
  BY DEF StartStep, StartFailure, LookUpScaleSet, DeleteExisting, CreateScaleSet,
     ConnectToOrka, OpenSession, SessionConflict, TryAgain, InitialMessage,
     SessionFails, StartPanics
<1>2. stage[p] \in Starting
  BY DEF StartStep, StartFailure, LookUpScaleSet, DeleteExisting, CreateScaleSet,
     ConnectToOrka, OpenSession, SessionConflict, TryAgain, InitialMessage,
     SessionFails, StartPanics, Starting
<1>3. phases[p] = "starting"
  BY <1>2 DEF RunPhase, Starting, Serving, phases
<1>4. \A q \in Process \ {p} : stage'[q] = stage[q] /\ once'[q] = once[q]
  <2>1. PICK next : goto(p, next)
    BY DEF StartStep, StartFailure, LookUpScaleSet, DeleteExisting, CreateScaleSet,
       ConnectToOrka, OpenSession, SessionConflict, TryAgain, InitialMessage,
       SessionFails, StartPanics
  <2>2. QED
    BY <1>1, <2>1 DEF goto
<1>5. \/ stage'[p] \in Starting \/ stage'[p] = "panicked"
      \/ stage'[p] = "serving" /\ InitialMessage(p)
  BY DEF StartStep, StartFailure, LookUpScaleSet, DeleteExisting, CreateScaleSet,
     ConnectToOrka, OpenSession, SessionConflict, TryAgain, InitialMessage,
     SessionFails, StartPanics, goto, Starting, Pause
<1>6. once[p] = "free"
  BY <1>2 DEF CloseComesFirst
<1>7. \E next \in {"starting", "broken", "serving"} :
          /\ RunPhase(p)' = next
          /\ next = "serving" => InitialMessage(p)
  <2>1. once'[p] = "free"
    BY <1>1, <1>6
  <2>2. stage'[p] \in Starting => RunPhase(p)' = "starting"
    BY DEF RunPhase, Starting, Serving
  <2>3. stage'[p] = "panicked" => RunPhase(p)' = "broken"
    BY DEF RunPhase, Starting, Serving
  <2>4. stage'[p] = "serving" => RunPhase(p)' = "serving"
    BY <2>1 DEF RunPhase, Starting, Serving
  <2>5. QED
    BY <1>5, <2>2, <2>3, <2>4
<1>8. PICK next \in {"starting", "broken", "serving"} :
          /\ phases' = [phases EXCEPT ![p] = next]
          /\ next = "serving" => InitialMessage(p)
  BY <1>4, <1>7, PhaseStep
<1>9. \/ UNCHANGED session
      \/ session = NoProcess /\ session' = p /\ ~InitialMessage(p)
      \/ session' = NoProcess /\ ~InitialMessage(p)
  BY <1>2 DEF StartStep, StartFailure, LookUpScaleSet, DeleteExisting, CreateScaleSet,
     ConnectToOrka, OpenSession, SessionConflict, TryAgain, InitialMessage,
     SessionFails, StartPanics, DeleteRunnerScaleSet, CreateRunnerScaleSet,
     CreateMessageSession
<1>10. CASE UNCHANGED session
  <2>1. CASE next = "starting"
    <3>1. phases' = phases
      BY <1>3, <1>8, <2>1 DEF phases
    <3>2. QED
      BY <1>1, <1>10, <3>1 DEF Lease!vars, phases
  <2>2. CASE next = "broken"
    BY <1>1, <1>3, <1>8, <1>10, <2>2
    DEF Lease!Next, Lease!Break, Lease!become, phases
  <2>3. CASE next = "serving"
    BY <1>1, <1>3, <1>8, <1>10, <2>3
    DEF Lease!Next, Lease!Serve, Lease!become, phases
  <2>4. QED
    BY <1>8, <2>1, <2>2, <2>3
<1>11. CASE session = NoProcess /\ session' = p /\ ~InitialMessage(p)
  BY <1>1, <1>3, <1>8, <1>11 DEF Lease!Next, Lease!Take, Lease!become, phases
<1>12. CASE session' = NoProcess /\ ~InitialMessage(p)
  BY <1>1, <1>3, <1>8, <1>12 DEF Lease!Next, Lease!TakeAway, Lease!become, phases
<1>13. QED
  BY <1>9, <1>10, <1>11, <1>12

\* The steps at the end of a run, in the words of the lease.
LEMMA EndHandsOn ==
    ASSUME LifecycleInv, NEW p \in Process,
           CloseStep(p) \/ MainEnd(p) \/ HandlerStep(p)
    PROVE  [Lease!Next]_(Lease!vars)
<1> USE DEF LifecycleInv, TypeOK, gitHubVars, shutdownVars
<1>1. CASE MainCloses(p) \/ HandlerCloses(p)
  <2>1. RunPhase(p)' = RunPhase(p)
    BY <1>1 DEF MainCloses, HandlerCloses, RunPhase
  <2>2. phases' = [phases EXCEPT ![p] = RunPhase(p)]
    BY <1>1, <2>1, PhaseStep DEF MainCloses, HandlerCloses
  <2>3. QED
    BY <1>1, <2>2 DEF Lease!vars, phases, MainCloses, HandlerCloses
<1>2. CASE CloseReturns(p)
  <2>1. phases[p] = "serving"
    BY <1>2 DEF CloseReturns, phases, RunPhase, Starting, Serving
  <2>2. RunPhase(p)' = "closed"
    BY <1>2 DEF CloseReturns, RunPhase, Starting, Serving
  <2>3. phases' = [phases EXCEPT ![p] = "closed"]
    BY <1>2, <2>2, PhaseStep DEF CloseReturns
  <2>4. QED
    BY <1>2, <2>1, <2>3
    DEF CloseReturns, Lease!Next, Lease!Close, Lease!become, phases
<1>3. CASE MainReturns(p) \/ HandlerWakes(p) \/ HandlerProceeds(p)
           \/ HandlerDeleteFails(p)
  <2>1. RunPhase(p)' = RunPhase(p)
    BY <1>3 DEF MainReturns, HandlerWakes, HandlerProceeds, HandlerDeleteFails,
       goto, RunPhase, Starting, Serving
  <2>2. phases' = [phases EXCEPT ![p] = RunPhase(p)]
    BY <1>3, <2>1, PhaseStep DEF MainReturns, HandlerWakes, HandlerProceeds,
       HandlerDeleteFails, goto
  <2>3. QED
    BY <1>3, <2>2 DEF Lease!vars, phases, MainReturns, HandlerWakes,
       HandlerProceeds, HandlerDeleteFails
<1>4. CASE MainExits(p) \/ HandlerExits(p)
  <2>1. phases[p] = "closed"
    BY <1>4 DEF MainExits, HandlerExits, CloseComesFirst, phases, RunPhase,
       Starting, Serving
  <2>2. RunPhase(p)' = "exited"
    BY <1>4 DEF MainExits, HandlerExits, goto, RunPhase, Starting, Serving
  <2>3. phases' = [phases EXCEPT ![p] = "exited"]
    BY <1>4, <2>2, PhaseStep DEF MainExits, HandlerExits, goto
  <2>4. QED
    BY <1>4, <2>1, <2>3
    DEF MainExits, HandlerExits, Lease!Next, Lease!Exit, Lease!become, phases
<1>5. CASE HandlerDeletes(p)
  <2>1. phases[p] = "closed" /\ manages[p]
    BY <1>5 DEF HandlerDeletes, CloseComesFirst, phases, RunPhase, Starting, Serving
  <2>2. UNCHANGED phases
    BY <1>5, PhaseStays DEF HandlerDeletes
  <2>3. session \in {p, NoProcess} \/ ~manages[session]
    <3>1. SUFFICES ASSUME session # NoProcess, manages[session]
                   PROVE  session = p
      OBVIOUS
    <3>2. session \in Process /\ scaleSetId[session] = scaleSetId[p]
      BY <1>5, <3>1 DEF HandlerDeletes, DeleteRunnerScaleSet, SessionIsOnOwnScaleSet
    <3>3. HasScaleSet(p) /\ HasScaleSet(session)
      BY <1>5 DEF HandlerDeletes, HasScaleSet
    <3>4. QED
      BY <2>1, <3>1, <3>2, <3>3 DEF ManagedScaleSetHasOneRun
  <2>4. session' = NoProcess /\ UNCHANGED manages
    BY <1>5 DEF HandlerDeletes, DeleteRunnerScaleSet
  <2>5. QED
    BY <2>1, <2>2, <2>3, <2>4 DEF Lease!Next, Lease!Evict, phases
<1>6. QED
  BY <1>1, <1>2, <1>3, <1>4, <1>5 DEF CloseStep, MainEnd, HandlerStep

LEMMA StepHandsOn ==
    ASSUME LifecycleInv, [Next]_vars
    PROVE  [Lease!Next]_(Lease!vars)
<1> USE DEF LifecycleInv, TypeOK, gitHubVars, shutdownVars
<1>1. CASE SessionExpires
  <2>1. session \in Process /\ phases[session] \in {"exited", "broken"}
    BY <1>1 DEF SessionExpires, Ended, phases, RunPhase, Starting, Serving
  <2>2. UNCHANGED phases
    BY <1>1, PhaseStays DEF SessionExpires
  <2>3. QED
    BY <1>1, <2>1, <2>2 DEF SessionExpires, Lease!Next, Lease!Expire, phases
<1>2. ASSUME NEW p \in Process, Start(p)
      PROVE  [Lease!Next]_(Lease!vars)
  <2>1. phases[p] = "off"
    BY <1>2 DEF Start, phases, RunPhase, Starting, Serving
  <2>2. RunPhase(p)' = "starting"
    BY <1>2 DEF Start, goto, RunPhase, Starting, Serving
  <2>3. phases' = [phases EXCEPT ![p] = "starting"]
    BY <1>2, <2>2, PhaseStep DEF Start, goto
  <2>4. QED
    BY <1>2, <2>1, <2>3 DEF Start, Lease!Next, Lease!Begin, Lease!become, phases
<1>3. ASSUME NEW p \in Process, Signal(p)
      PROVE  [Lease!Next]_(Lease!vars)
  BY <1>3, PhaseStays DEF Signal, Lease!vars, phases
<1>4. ASSUME NEW p \in Process, RunReturns(p)
      PROVE  [Lease!Next]_(Lease!vars)
  <2>1. RunPhase(p)' = RunPhase(p)
    BY <1>4 DEF RunReturns, goto, RunPhase, Starting, Serving
  <2>2. phases' = [phases EXCEPT ![p] = RunPhase(p)]
    BY <1>4, <2>1, PhaseStep DEF RunReturns, goto
  <2>3. QED
    BY <1>4, <2>2 DEF Lease!vars, phases, RunReturns
<1>5. ASSUME NEW p \in Process, NilSessionPanics(p) \/ Kill(p)
      PROVE  [Lease!Next]_(Lease!vars)
  <2>1. phases[p] \in {"starting", "serving", "closed"}
    BY <1>5 DEF NilSessionPanics, Kill, phases, RunPhase, Starting, Serving
  <2>2. RunPhase(p)' = "broken"
    BY <1>5 DEF NilSessionPanics, Kill, goto, RunPhase, Starting, Serving
  <2>3. phases' = [phases EXCEPT ![p] = "broken"]
    BY <1>5, <2>2, PhaseStep DEF NilSessionPanics, Kill, goto
  <2>4. QED
    BY <1>5, <2>1, <2>3
    DEF NilSessionPanics, Kill, Lease!Next, Lease!Break, Lease!become, phases
<1>6. CASE UNCHANGED vars
  BY <1>6, PhaseStays DEF vars, Lease!vars, phases
<1>7. QED
  BY <1>1, <1>2, <1>3, <1>4, <1>5, <1>6, StartHandsOn, EndHandsOn DEF Next

\* The program implements the lease: whatever calls fail, however many runs
\* overlap and wherever they are killed, every step on the session is one the
\* lease allows, and every other step leaves the lease alone.
THEOREM SessionIsALease == Spec => ImplementsSessionLease
<1>1. Init => Lease!Init
  BY DEF Init, Lease!Init, RunPhase, Starting, Serving
<1>2. LifecycleInv /\ [Next]_vars => [Lease!Next]_(Lease!vars)
  BY StepHandsOn
<1>3. QED
  BY <1>1, <1>2, LifecycleInvariantHolds, PTL
  DEF Spec, ImplementsSessionLease, Lease!Spec

=============================================================================
