------------------------ MODULE RunnerManager_proofs ------------------------
(***************************************************************************)
(* Delivery of the messages, for every number of messages, failures,       *)
(* restarts and deletions of the scale set.                                *)
(***************************************************************************)
EXTENDS RunnerManager, TLAPS

\* Deleting the scale set takes along exactly what was pending.
LEMMA ScaleSetTakesPending ==
    ASSUME ManagerInv, ScaleSetDeleted, processed' = processed
    PROVE  /\ created' = created /\ queue' = {} /\ scaleSet' = FALSE
           /\ token' = "revoked"
           /\ lost' = lost \union Pending
           /\ lost' \in SUBSET (1 .. created)
           /\ Pending' = {}
<1> USE DEF ManagerInv, TypeOK, UnprocessedIsQueued, Pending
<1>1. {m \in queue : m > processed} = Pending
  OBVIOUS
<1>2. QED
  BY <1>1 DEF ScaleSetDeleted

LEMMA PendingStays ==
    ASSUME UNCHANGED <<created, lost, processed>>
    PROVE  Pending' = Pending
BY DEF Pending

LEMMA LoopStepKeepsManagerInv ==
    ASSUME ManagerInv, LoopStep
    PROVE  ManagerInv'
<1> USE DEF ManagerInv, TypeOK, UnprocessedIsQueued, MessageInHandIsDue,
        OrderlyRunKeepsScaleSet, gitHubVars, runVars, Loop, Start
<1>1. ASSUME UNCHANGED <<gitHubVars, runVars, lastMessageId, message, processed>>,
             token' \in {"valid", "expired", "revoked"},
             attempt' \in {"first", "refresh", "second"},
             \/ operation' = operation
             \/ operation = "handle" /\ operation' \in {"acquire", "closing"},
             operation \in Loop
      PROVE  ManagerInv'
  <2>1. Pending' = Pending
    BY <1>1, PendingStays
  <2>2. TypeOK'
    BY <1>1
  <2>3. UnprocessedIsQueued' /\ MessageInHandIsDue' /\ OrderlyRunKeepsScaleSet'
    BY <1>1, <2>1
  <2>4. QED
    BY <2>2, <2>3
<1>2. CASE CallFindsTokenExpired \/ SessionRefreshed
  <2>1. operation \in Loop
    BY <1>2 DEF CallFindsTokenExpired, SessionRefreshed
  <2>2. QED
    BY <1>1, <1>2, <2>1 DEF CallFindsTokenExpired, SessionRefreshed
<1>3. CASE NoMessageYet \/ BatchHandled \/ HandlingFails
  BY <1>1, <1>3 DEF NoMessageYet, BatchHandled, HandlingFails
<1>4. CASE OperationFails
  <2>1. /\ UNCHANGED <<created, lost, scaleSet, token, runVars, lastMessageId,
                       message, processed>>
        /\ attempt' = "first"
        /\ \/ operation = "receive" /\ operation' = "receive"
           \/ operation \in {"acquire", "delete"} /\ operation' = "closing"
        /\ \/ queue' = queue
           \/ operation = "delete" /\ queue' = queue \ {message}
    BY <1>4 DEF OperationFails
  <2>2. Pending' = Pending
    BY <2>1, PendingStays
  <2>3. TypeOK'
    BY <2>1
  <2>4. Pending \subseteq queue'
    <3>1. operation = "delete" => message <= processed
      OBVIOUS
    <3>2. QED
      BY <2>1, <3>1 DEF Pending
  <2>5. UnprocessedIsQueued' /\ MessageInHandIsDue' /\ OrderlyRunKeepsScaleSet'
    BY <2>1, <2>2, <2>4
  <2>6. QED
    BY <2>3, <2>5
<1>5. CASE \E m \in queue : MessageReceived(m)
  <2>1. PICK m \in queue : MessageReceived(m)
    BY <1>5
  <2>2. m \in Nat /\ m \in 1 .. created /\ m \notin lost
    OBVIOUS
  <2>3. \A n \in Pending : m <= n
    BY <2>1 DEF MessageReceived, IsNext, Pending
  <2>4. m <= processed \/ m \in Pending
    BY <2>2 DEF Pending
  <2>5. Pending' = Pending
    BY <2>1, PendingStays DEF MessageReceived
  <2>6. TypeOK'
    BY <2>1, <2>2 DEF MessageReceived
  <2>7. UnprocessedIsQueued' /\ MessageInHandIsDue' /\ OrderlyRunKeepsScaleSet'
    BY <2>1, <2>3, <2>4, <2>5 DEF MessageReceived
  <2>8. QED
    BY <2>6, <2>7
<1>6. CASE HandlerReturns
  <2>1. /\ UNCHANGED <<gitHubVars, token, runVars, message>>
        /\ operation = "acquire" /\ attempt' = "first"
        /\ processed' = Maximum(processed, message)
        /\ \/ message = 0 /\ operation' = "receive" /\ lastMessageId' = lastMessageId
           \/ message # 0 /\ operation' = "delete" /\ lastMessageId' = message
    BY <1>6 DEF HandlerReturns
  <2>2. message <= created /\ message \in Nat
    BY <2>1 DEF Pending
  <2>3. /\ processed' \in Nat /\ processed' <= created
        /\ processed <= processed' /\ message <= processed'
    BY <2>1, <2>2 DEF Maximum
  <2>4. Pending' \subseteq Pending
    BY <2>1, <2>3 DEF Pending
  <2>5. TypeOK'
    BY <2>1, <2>3
  <2>6. UnprocessedIsQueued'
    BY <2>1, <2>2, <2>3, <2>4
  <2>7. MessageInHandIsDue'
    BY <2>1, <2>2, <2>3
  <2>8. OrderlyRunKeepsScaleSet'
    BY <2>1
  <2>9. QED
    BY <2>5, <2>6, <2>7, <2>8
<1>7. CASE MessageDeleted
  <2>1. /\ UNCHANGED <<created, lost, scaleSet, token, runVars, lastMessageId,
                       message, processed>>
        /\ attempt' = "first" /\ operation = "delete" /\ operation' = "receive"
        /\ queue' = queue \ {message}
    BY <1>7 DEF MessageDeleted
  <2>2. Pending' = Pending
    BY <2>1, PendingStays
  <2>3. TypeOK'
    BY <2>1
  <2>4. UnprocessedIsQueued'
    BY <2>1, <2>2 DEF Pending
  <2>5. MessageInHandIsDue' /\ OrderlyRunKeepsScaleSet'
    BY <2>1
  <2>6. QED
    BY <2>3, <2>4, <2>5
<1>8. QED
  BY <1>2, <1>3, <1>4, <1>5, <1>6, <1>7 DEF LoopStep

\* A step of main leaves the loop, or enters it with the initial message.
LEMMA MainStepKeepsManagerInv ==
    ASSUME ManagerInv, MainStep \/ Signal \/ Kill
    PROVE  ManagerInv'
<1> USE DEF gitHubVars, runVars, loopVars, goto, Over
<1>1. UnprocessedIsQueued'
  <2> USE DEF ManagerInv, TypeOK, UnprocessedIsQueued
  <2>1. ASSUME UNCHANGED <<created, queue, lost, processed>>,
               lastMessageId' \in {0, lastMessageId}
        PROVE  UnprocessedIsQueued'
    <3>1. Pending' = Pending
      BY <2>1, PendingStays
    <3>2. QED
      BY <2>1, <3>1
  <2>2. ASSUME ScaleSetDeleted, processed' = processed,
               lastMessageId' \in {0, lastMessageId}
        PROVE  UnprocessedIsQueued'
    <3>1. created' = created /\ queue' = {} /\ Pending' = {}
      BY <2>2, ScaleSetTakesPending
    <3>2. QED
      BY <2>2, <3>1
  <2> HIDE DEF ManagerInv, TypeOK, UnprocessedIsQueued
  <2>3. CASE DeleteScaleSet \/ ExitManaged
    BY <2>2, <2>3 DEF DeleteScaleSet, ExitManaged
  <2>4. QED
    BY <2>1, <2>3 DEF MainStep, StartRun, CreateScaleSet, OpenSession,
       OpenSessionUnanswered, SessionConflict, Exit, Signal, Kill
<1>2. TypeOK'
  <2>1. created' = created /\ processed' = processed
    BY DEF MainStep, StartRun, DeleteScaleSet, CreateScaleSet, OpenSession,
       OpenSessionUnanswered, SessionConflict, Exit, ExitManaged, Signal, Kill,
       ScaleSetDeleted
  <2>2. queue' \in SUBSET (1 .. created) /\ lost' \in SUBSET (1 .. created)
    <3>1. CASE DeleteScaleSet \/ ExitManaged
      <4>1. ScaleSetDeleted /\ processed' = processed
        BY <3>1 DEF DeleteScaleSet, ExitManaged
      <4>2. QED
        BY <4>1, ScaleSetTakesPending
    <3>2. CASE UNCHANGED <<queue, lost>>
      BY <3>2 DEF ManagerInv, TypeOK
    <3>3. QED
      BY <3>1, <3>2 DEF MainStep, StartRun, CreateScaleSet, OpenSession,
         OpenSessionUnanswered, SessionConflict, Exit, Signal, Kill
  <2>3. scaleSet' \in {scaleSet, TRUE, FALSE} /\ manages' \in {manages, TRUE, FALSE}
        /\ token' \in {token, "valid", "revoked"}
    BY DEF MainStep, StartRun, DeleteScaleSet, CreateScaleSet, OpenSession,
       OpenSessionUnanswered, SessionConflict, Exit, ExitManaged, Signal, Kill,
       ScaleSetDeleted
  <2>4. orderly' \in BOOLEAN
    BY DEF MainStep, StartRun, DeleteScaleSet, CreateScaleSet, OpenSession,
       OpenSessionUnanswered, SessionConflict, Exit, ExitManaged, Signal, Kill,
       ManagerInv, TypeOK
  <2>5. /\ attempt' \in {attempt, "first"}
        /\ lastMessageId' \in {lastMessageId, 0} /\ message' \in {message, 0}
        /\ operation' \in {operation, "handle", "replacing", "opening", "recreating",
                           "reopening", "closing", "stopped"}
    BY DEF MainStep, StartRun, DeleteScaleSet, CreateScaleSet, OpenSession,
       OpenSessionUnanswered, SessionConflict, Exit, ExitManaged, Signal, Kill
  <2>6. operation' \in Loop \union Start \union {"closing", "stopped"}
    BY <2>5 DEF ManagerInv, TypeOK, Loop, Start
  <2>7. /\ scaleSet' \in BOOLEAN /\ manages' \in BOOLEAN
        /\ token' \in {"valid", "expired", "revoked"}
    BY <2>3 DEF ManagerInv, TypeOK
  <2>8. /\ attempt' \in {"first", "refresh", "second"}
        /\ lastMessageId' \in Nat /\ message' \in Nat
    BY <2>5 DEF ManagerInv, TypeOK
  <2>9. QED
    BY <2>1, <2>2, <2>4, <2>6, <2>7, <2>8 DEF ManagerInv, TypeOK
<1>3. MessageInHandIsDue'
  <2>1. \/ operation' \notin Loop
        \/ operation' = "handle" /\ message' = 0 /\ processed' = processed
    BY DEF MainStep, StartRun, DeleteScaleSet, CreateScaleSet, OpenSession,
       OpenSessionUnanswered, SessionConflict, Exit, ExitManaged, Signal, Kill, Loop
  <2>2. QED
    BY <2>1 DEF MessageInHandIsDue, ManagerInv, TypeOK, Loop
<1>4. OrderlyRunKeepsScaleSet'
  <2> USE DEF OrderlyRunKeepsScaleSet, ManagerInv, TypeOK, Start, Loop
  <2>1. CASE StartRun
    BY <2>1 DEF StartRun
  <2>2. CASE DeleteScaleSet \/ ExitManaged \/ SessionConflict \/ OpenSessionUnanswered
    <3>1. ~orderly'
      BY <2>2 DEF DeleteScaleSet, ExitManaged, SessionConflict, OpenSessionUnanswered
    <3>2. QED
      BY <3>1
  <2>3. CASE CreateScaleSet \/ OpenSession
    BY <2>3 DEF CreateScaleSet, OpenSession
  <2>4. CASE Exit \/ Signal \/ Kill
    BY <2>4 DEF Exit, Signal, Kill
  <2>5. QED
    BY <2>1, <2>2, <2>3, <2>4 DEF MainStep
<1>5. QED
  BY <1>1, <1>2, <1>3, <1>4 DEF ManagerInv

LEMMA GitHubStepKeepsManagerInv ==
    ASSUME ManagerInv, GitHubStep
    PROVE  ManagerInv'
<1> USE DEF ManagerInv, TypeOK, UnprocessedIsQueued, MessageInHandIsDue,
        OrderlyRunKeepsScaleSet, gitHubVars, runVars, loopVars, Loop, Start
<1>1. CASE MessageCreated
  <2>1. /\ created' = created + 1 /\ queue' = queue \union {created + 1}
        /\ UNCHANGED <<lost, scaleSet, token, runVars, loopVars, processed>>
    BY <1>1 DEF MessageCreated
  <2>2. Pending' = Pending \union {created + 1}
    BY <2>1 DEF Pending
  <2>3. TypeOK'
    BY <2>1
  <2>4. UnprocessedIsQueued'
    BY <2>1, <2>2
  <2>5. MessageInHandIsDue'
    BY <2>1, <2>2 DEF Pending
  <2>6. OrderlyRunKeepsScaleSet'
    BY <2>1
  <2>7. QED
    BY <2>3, <2>4, <2>5, <2>6
<1>2. CASE TokenExpires \/ SessionRevoked
  <2>1. /\ UNCHANGED <<gitHubVars, runVars, loopVars, processed>>
        /\ token # "revoked" /\ token' \in {"expired", "revoked"}
    BY <1>2 DEF TokenExpires, SessionRevoked
  <2>2. Pending' = Pending
    BY <2>1, PendingStays
  <2>3. TypeOK' /\ OrderlyRunKeepsScaleSet'
    BY <2>1
  <2>4. UnprocessedIsQueued' /\ MessageInHandIsDue'
    BY <2>1, <2>2
  <2>5. QED
    BY <2>3, <2>4
<1>3. QED
  BY <1>1, <1>2 DEF GitHubStep

LEMMA StepKeepsManagerInv ==
    ASSUME ManagerInv, [Next]_vars
    PROVE  ManagerInv'
<1>1. CASE UNCHANGED vars
  BY <1>1 DEF vars, gitHubVars, runVars, loopVars, ManagerInv, TypeOK,
     UnprocessedIsQueued, MessageInHandIsDue, Pending, OrderlyRunKeepsScaleSet
<1>2. QED
  BY <1>1, LoopStepKeepsManagerInv, MainStepKeepsManagerInv,
     GitHubStepKeepsManagerInv DEF Next

\* What no run has processed is still in the queue, unless it went with its scale
\* set, and the message in hand is at most the first of those.
THEOREM ManagerInvariantHolds == Spec => []ManagerInv
<1>1. Init => ManagerInv
  <2> SUFFICES ASSUME Init PROVE ManagerInv
    OBVIOUS
  <2>1. TypeOK
    BY DEF Init, TypeOK, Loop, Start
  <2>2. UnprocessedIsQueued /\ MessageInHandIsDue /\ OrderlyRunKeepsScaleSet
    BY DEF Init, UnprocessedIsQueued, MessageInHandIsDue, OrderlyRunKeepsScaleSet,
       Pending, Start
  <2>3. QED
    BY <2>1, <2>2 DEF ManagerInv
<1>2. ManagerInv /\ [Next]_vars => ManagerInv'
  BY StepKeepsManagerInv
<1>3. QED
  BY <1>1, <1>2, PTL DEF Spec

\* However many runs follow one another, and whatever calls fail in them: if none
\* manages the scale set and each gives its session back, no message is lost.
THEOREM NothingIsLostInOrder == Spec => []OrderlyRunsLoseNothing
<1>1. ManagerInv => OrderlyRunsLoseNothing
  BY DEF ManagerInv, OrderlyRunKeepsScaleSet, OrderlyRunsLoseNothing
<1>2. QED
  BY <1>1, ManagerInvariantHolds, PTL

\* A run takes up each message once: it starts one goroutine for a job, also while
\* the queue still holds the message.
THEOREM MessagesComeOnce == Spec => MessageOncePerRun
<1>1. ASSUME ManagerInv, Next, operation = "receive", operation' = "handle"
      PROVE  message' > message
  <2>1. \E m \in queue : MessageReceived(m)
    <3>1. LoopStep
      BY <1>1 DEF Next, MainStep, StartRun, DeleteScaleSet, CreateScaleSet,
         OpenSession, OpenSessionUnanswered, SessionConflict, Exit, ExitManaged,
         GitHubStep, MessageCreated, TokenExpires, SessionRevoked, Signal, Kill,
         goto, Over, loopVars
    <3>2. QED
      BY <1>1, <3>1
      DEF LoopStep, CallFindsTokenExpired, SessionRefreshed, OperationFails,
          NoMessageYet, BatchHandled, HandlingFails, HandlerReturns,
          MessageDeleted
  <2>2. PICK m \in queue : MessageReceived(m)
    BY <2>1
  <2>3. QED
    BY <1>1, <2>2 DEF MessageReceived, IsNext, ManagerInv, TypeOK,
       MessageInHandIsDue
<1>2. ManagerInv /\ [Next]_vars =>
         [operation = "receive" /\ operation' = "handle" => message' > message]_vars
  BY <1>1
<1>3. QED
  BY <1>2, ManagerInvariantHolds, PTL DEF Spec, MessageOncePerRun

\* The runs together deliver the messages: none is overtaken, GitHub is told to
\* delete only what has been processed, and what is lost went with its scale set.
THEOREM DeliveryIsImplemented == Spec => ImplementsMessageDelivery
<1>1. Init => Delivery!Init
  BY DEF Init, Delivery!Init
<1>2. ManagerInv /\ [Next]_vars => [Delivery!Next]_(Delivery!vars)
  <2> SUFFICES ASSUME ManagerInv, [Next]_vars
               PROVE  Delivery!Next \/ UNCHANGED Delivery!vars
    OBVIOUS
  <2> USE DEF gitHubVars
  <2>1. Delivery!pending = Pending
    BY DEF Delivery!pending, Pending
  <2>2. CASE MessageCreated
    <3>1. created' = created + 1 /\ UNCHANGED <<processed, lost>>
          /\ (1 .. created') \ queue' = (1 .. created) \ queue
      BY <2>2 DEF MessageCreated, ManagerInv, TypeOK
    <3>2. QED
      BY <3>1 DEF Delivery!Next, Delivery!Create
  <2>3. CASE HandlerReturns
    <3>1. UNCHANGED <<created, queue, lost>> /\ processed' = Maximum(processed, message)
          /\ operation = "acquire"
      BY <2>3 DEF HandlerReturns
    <3>2. CASE message <= processed
      BY <3>1, <3>2 DEF Maximum, Delivery!vars, ManagerInv, TypeOK
    <3>3. CASE message \in Pending /\ \A m \in Pending : message <= m
      <4>1. processed' = message
        BY <3>1, <3>3 DEF Maximum, Pending, ManagerInv, TypeOK
      <4>2. QED
        BY <2>1, <3>1, <3>3, <4>1 DEF Delivery!Next, Delivery!Process
    <3>4. QED
      BY <3>1, <3>2, <3>3 DEF ManagerInv, MessageInHandIsDue
  <2>4. CASE operation = "delete" /\ queue' = queue \ {message}
             /\ UNCHANGED <<created, processed, lost>>
    <3>1. message \in 1 .. processed /\ message \in 1 .. created
      BY <2>4 DEF ManagerInv, TypeOK, UnprocessedIsQueued, MessageInHandIsDue
    <3>2. (1 .. created') \ queue' = ((1 .. created) \ queue) \union {message}
      BY <2>4, <3>1
    <3>3. Delivery!Remove(message)
      BY <2>4, <3>1, <3>2 DEF Delivery!Remove
    <3>4. QED
      BY <3>1, <3>3 DEF Delivery!Next
  <2>5. CASE ScaleSetDeleted /\ UNCHANGED processed
    <3>1. created' = created /\ queue' = {} /\ lost' = lost \union Pending
      BY <2>5, ScaleSetTakesPending
    <3>2. (1 .. created') \ queue' = 1 .. created
      BY <3>1
    <3>3. Delivery!Discard
      BY <2>1, <2>5, <3>1, <3>2 DEF Delivery!Discard
    <3>4. QED
      BY <3>3 DEF Delivery!Next
  <2>6. CASE UNCHANGED <<created, queue, processed, lost>>
    BY <2>6 DEF Delivery!vars
  <2>7. CASE LoopStep
    BY <2>3, <2>4, <2>6, <2>7
    DEF LoopStep, CallFindsTokenExpired, SessionRefreshed, OperationFails,
        MessageReceived, NoMessageYet, BatchHandled, HandlingFails,
        MessageDeleted
  <2>8. CASE MainStep \/ Signal \/ Kill
    BY <2>5, <2>6, <2>8
    DEF MainStep, StartRun, DeleteScaleSet, CreateScaleSet, OpenSession,
        OpenSessionUnanswered, SessionConflict, Exit, ExitManaged, Signal, Kill
  <2>9. CASE GitHubStep \/ UNCHANGED vars
    BY <2>2, <2>6, <2>9 DEF GitHubStep, TokenExpires, SessionRevoked, vars
  <2>10. QED
    BY <2>7, <2>8, <2>9 DEF Next
<1>3. QED
  BY <1>1, <1>2, ManagerInvariantHolds, PTL
  DEF Spec, ImplementsMessageDelivery, Delivery!Spec

=============================================================================
