--------------------------- MODULE RouterMsgProofs ---------------------------
(***************************************************************************)
(* Theorems about the messages of RouterThread, for any number of brokers, *)
(* messages and restarts: each accepted message is in exactly one place,   *)
(* the server is an implementation of MsgDelivery, and a message that may  *)
(* have reached a broker is recorded before it is queued again.  What the  *)
(* steps of connectors do to the states of messages is here too; the       *)
(* theorems about states are in RouterStateProofs.                         *)
(***************************************************************************)
EXTENDS RoutingProofs

(* There are no other steps.                                               *)
LEMMA StepKinds ==
  ASSUME [Next]_vars
  PROVE  \/ QuietStep \/ MovingStep
         \/ \E m \in Msgs : NewMsg(m)
         \/ \E c \in Brokers : JoinNext(c)
         \/ \E c \in Brokers : ConnectorStep(c) /\ UNCHANGED <<routerVars, serverVars>>
BY ZenonT(60) DEF Next, RouterStep, Exited, QuietStep, MovingStep

(* Every step keeps the invariant and maps to a step of MsgDelivery.       *)
LEMMA MsgNext ==
  ASSUME RouterInv, MsgInv, [Next]_vars
  PROVE  /\ MsgInv'
         /\ [Delivery!Next]_<<HeldMsgs, delivered, discarded, destroyed>>
<1> USE DEF RouterInv
<1>1. CASE QuietStep
  BY <1>1, QuietSteps, QuietInv
<1>2. CASE MovingStep
  <2>1. PICK In, D : RouterMoves(In, D)
    BY <1>2, MovingSteps
  <2> QED
    BY <2>1, RouterMovesInv DEF Delivery!Next
<1>3. ASSUME NEW m \in Msgs, NewMsg(m)
      PROVE  MsgInv' /\ Delivery!Next
  BY <1>3, NewMsgInv DEF Delivery!Next
<1>4. ASSUME NEW c \in Brokers, JoinNext(c)
      PROVE  MsgInv' /\ UNCHANGED <<HeldMsgs, delivered, discarded, destroyed>>
  BY <1>4, JoinNextInv
<1>5. ASSUME NEW c \in Brokers, ConnectorStep(c), UNCHANGED <<routerVars, serverVars>>
      PROVE  MsgInv' /\ Delivery!Next
  BY <1>5, ConnectorMsgInv DEF Delivery!Next
<1> QED
  BY <1>1, <1>2, <1>3, <1>4, <1>5, StepKinds, ZenonT(60)

(* Initially there are no messages.                                        *)
LEMMA MsgInit == Init => MsgInv /\ Delivery!Init
<1> SUFFICES ASSUME Init PROVE MsgInv /\ Delivery!Init
  OBVIOUS
<1>1. \A c \in Brokers :
        /\ InputQueue[c] = {} /\ RequestFactory[c] = {} /\ CurrentRequest[c] = {}
        /\ GotAckAfterPause[c] = {} /\ NoAckAfterPause[c] = {} /\ AckWaitQueue[c] = <<>>
        /\ SendWaitAfterShutdown[c] = {} /\ NoAckAfterShutdown[c] = {}
  BY DEF Init, DispatcherInit, NoMsgs
<1>2. \A c \in Brokers : Working(c) = {} /\ Left(c) = {}
  BY <1>1, FlattenEmpty DEF Working, Left
<1>3. /\ InConnectors = {} /\ MsgChannel = {} /\ PerTopicBatcher = {}
      /\ delivered = {} /\ discarded = {} /\ destroyed = {}
      /\ \A m \in Msgs : msgState[m] = "Absent"
  BY <1>2 DEF InConnectors, Init, DispatcherInit
<1>4. ConnectorsApart
  BY <1>1, FlattenEmpty DEF ConnectorsApart, QueuesApart, LeftApart
<1>5. QueuesOwned /\ MsgsApart /\ Accounted
  BY <1>2, <1>3 DEF QueuesOwned, MsgsApart, Accounted
<1> QED
  BY <1>3, <1>4, <1>5, HeldInConnectors DEF MsgInv, Delivery!Init

(* Every message the server has accepted is in exactly one place: a queue  *)
(* of one connector, the router's channel or batcher, or one of its ends,  *)
(* however connectors, pauses, restarts and shutdowns interleave.          *)
THEOREM OnePlace == Spec => []ExactlyOnePlace
<1>1. Init => MsgInv
  BY MsgInit
<1>2. RouterInv /\ MsgInv /\ [Next]_vars => MsgInv'
  BY MsgNext
<1>3. RouterInv /\ MsgInv => ExactlyOnePlace
  BY MsgInvImplies DEF RouterInv
<1> QED
  BY <1>1, <1>2, <1>3, Invariance, PTL DEF Spec

(* The router, the connectors and the main thread implement MsgDelivery.   *)
THEOREM ImplementsDelivery == Spec => DeliverySpec
<1>1. Init => MsgInv /\ Delivery!Init
  BY MsgInit
<1>2. RouterInv /\ MsgInv /\ [Next]_vars =>
        MsgInv' /\ [Delivery!Next]_<<HeldMsgs, delivered, discarded, destroyed>>
  BY MsgNext
<1> QED
  BY <1>1, <1>2, Invariance, PTL DEF Spec, DeliverySpec, Delivery!Spec

-----------------------------------------------------------------------------
(* Possible duplicates.                                                    *)

(* The messages of a connector that are sent, or sent again, next.         *)
Unsent(c) == InputQueue[c] \cup RequestFactory[c] \cup CurrentRequest[c]
               \cup GotAckAfterPause[c] \cup SendWaitAfterShutdown[c]

(* A message that was sent and got no ACK is nowhere from where it would   *)
(* be sent again, unless it is recorded.                                   *)
Recorded ==
  \A m \in unacked :
    /\ msgState[m] # "Absent"
    /\ m \notin duplicates =>
         m \notin MsgChannel \cup PerTopicBatcher /\ \A c \in Brokers : m \notin Unsent(c)

(* Routing records what it sends again, before or as it does so.           *)
LEMMA MovesRecorded ==
  ASSUME TypeOK, MsgInv, Recorded, NEW In, NEW D, RouterMoves(In, D)
  PROVE  Recorded'
<1> SUFFICES ASSUME NEW m \in unacked'
             PROVE  /\ msgState'[m] # "Absent"
                    /\ m \notin duplicates' =>
                         /\ m \notin MsgChannel' \cup PerTopicBatcher'
                         /\ \A c \in Brokers : m \notin Unsent(c)'
  BY DEF Recorded
<1>1. m \in unacked /\ m \in Msgs
  BY DEF RouterMoves, TypeOK, DispatcherTypeOK
<1>2. msgState'[m] # "Absent"
  <2>1. \A x \in Msgs : msgState'[x] = "Absent" <=> msgState[x] = "Absent"
    BY KnownStays DEF RouterMoves
  <2> QED
    BY <1>1, <2>1 DEF Recorded
<1>3. ASSUME m \notin duplicates'
      PROVE  m \notin MsgChannel' \cup PerTopicBatcher' /\ \A c \in Brokers : m \notin Unsent(c)'
  <2>1. m \notin duplicates /\ \A c \in Brokers : m \notin NoAckAfterShutdown[c]
    BY <1>3 DEF RouterMoves
  <2>2. m \notin MsgChannel \cup PerTopicBatcher /\ \A c \in Brokers : m \notin Unsent(c)
    BY <1>1, <2>1 DEF Recorded
  <2>3. m \notin Free
    BY <2>1, <2>2 DEF Free, Left, Unsent
  <2>4. m \notin MsgChannel' \cup PerTopicBatcher'
    BY <2>3 DEF RouterMoves
  <2>5. ASSUME NEW c \in Brokers PROVE m \notin Unsent(c)'
    <3>1. /\ InputQueue'[c] = InputQueue[c] \cup In[c]
          /\ RequestFactory'[c] = RequestFactory[c] /\ CurrentRequest'[c] = CurrentRequest[c]
          /\ GotAckAfterPause'[c] = GotAckAfterPause[c]
          /\ SendWaitAfterShutdown'[c] = {} /\ m \notin In[c]
      BY <2>3 DEF RouterMoves
    <3> QED
      BY <2>2, <3>1 DEF Unsent
  <2> QED
    BY <2>4, <2>5
<1> QED
  BY <1>2, <1>3

(* A connector sends a message again only when it has an ACK for it.       *)
LEMMA ConnectorRecorded ==
  ASSUME RouterInv, MsgInv, Recorded, NEW c \in Brokers, ConnectorStep(c),
         UNCHANGED <<MsgChannel, PerTopicBatcher>>
  PROVE  Recorded'
<1> USE DEF RouterInv
<1>0. /\ InputQueue \in [Brokers -> SUBSET Msgs] /\ RequestFactory \in [Brokers -> SUBSET Msgs]
      /\ CurrentRequest \in [Brokers -> SUBSET Msgs]
      /\ GotAckAfterPause \in [Brokers -> SUBSET Msgs]
      /\ NoAckAfterPause \in [Brokers -> SUBSET Msgs]
      /\ AckWaitQueue \in [Brokers -> Seq(SUBSET Msgs)]
      /\ unacked \subseteq Msgs
  BY DEF TypeOK, DispatcherTypeOK
<1>1. PICK A, D, L : ConnectorMoves(c, A, D, L)
  BY ConnectorMovesMsgs
<1>2. /\ \A m \in Msgs : msgState'[m] = "Absent" <=> msgState[m] = "Absent"
      /\ \A d \in Brokers \ {c} : Unsent(d)' = Unsent(d)
      /\ SendWaitAfterShutdown' = SendWaitAfterShutdown
  BY <1>1 DEF ConnectorMoves, Unsent
<1>3. /\ duplicates' = duplicates
      /\ \A m \in unacked' : m \in unacked \/ m \in CurrentRequest[c] \cup RequestFactory[c]
      /\ \A m \in unacked' : m \in Unsent(c)' => m \in unacked /\ m \in Unsent(c)
  <2> USE <1>0 DEF Unsent
  <2>1. CASE UNCHANGED <<queueVars, msgVars>>
    BY <2>1 DEF queueVars, msgVars
  <2>2. CASE HandleShutdownRequest(c)
    <3>1. /\ UNCHANGED <<CurrentRequest, GotAckAfterPause, unacked, duplicates>>
          /\ \/ UNCHANGED <<InputQueue, RequestFactory>>
             \/ /\ RequestFactory' = [RequestFactory EXCEPT ![c] = @ \cup InputQueue[c]]
                /\ InputQueue' = [InputQueue EXCEPT ![c] = {}]
      BY <2>2, ZenonT(60) DEF HandleShutdownRequest
    <3> QED
      BY <1>2, <3>1
  <2>3. CASE CheckInputQueue(c)
    <3>1. /\ UNCHANGED <<CurrentRequest, GotAckAfterPause, unacked, duplicates>>
          /\ \E S \in SUBSET InputQueue[c] :
                /\ InputQueue' = [InputQueue EXCEPT ![c] = @ \ S]
                /\ RequestFactory' = [RequestFactory EXCEPT ![c] = @ \cup S]
      BY <2>3, ZenonT(60) DEF CheckInputQueue
    <3> QED
      BY <1>2, <3>1
  <2>4. CASE HandleSockWriteReady(c)
    <3>1. PICK R \in IF SendInProgress(c) THEN {CurrentRequest[c]}
                     ELSE SUBSET RequestFactory[c] \ {{}} :
                 HandleSockWriteReady(c)!3!(R)
      BY <2>4, ZenonT(60) DEF HandleSockWriteReady
    <3>2. /\ RequestFactory' = [RequestFactory EXCEPT ![c] = @ \ R]
          /\ \/ CurrentRequest' = [CurrentRequest EXCEPT ![c] = R] /\ UNCHANGED unacked
             \/ CurrentRequest' = [CurrentRequest EXCEPT ![c] = {}] /\ unacked' = unacked \cup R
          /\ UNCHANGED <<InputQueue, GotAckAfterPause, duplicates>>
      BY <2>4, <3>1, ZenonT(60) DEF HandleSockWriteReady
    <3>3. R \subseteq RequestFactory[c] \cup CurrentRequest[c]
      BY <3>1
    <3>4. R \cap (InputQueue[c] \cup GotAckAfterPause[c] \cup SendWaitAfterShutdown[c]) = {}
      <4>1. R \subseteq Working(c)
        BY <3>3 DEF Working
      <4>2. R \cap SendWaitAfterShutdown[c] = {}
        BY <4>1, FreeIsApart DEF Free, Left
      <4> QED
        BY <3>3, <4>2 DEF MsgInv, ConnectorsApart, QueuesApart
    <3>5. /\ RequestFactory'[c] = RequestFactory[c] \ R
          /\ \/ CurrentRequest'[c] = R /\ unacked' = unacked
             \/ CurrentRequest'[c] = {} /\ unacked' = unacked \cup R
      BY <3>2
    <3> QED
      BY <1>2, <3>2, <3>3, <3>4, <3>5
  <2>5. CASE ProcessSingleProduceResponse(c)
    <3>1. PICK S \in SUBSET Head(AckWaitQueue[c]), kind \in {"complete", "mismatch", "bad"} :
          \E ack \in [S -> AckActions] : ProcessSingleProduceResponse(c)!2!(S, kind)!(ack)
      BY <2>5, ZenonT(60) DEF ProcessSingleProduceResponse
    <3>2. PICK ack \in [S -> AckActions] : ProcessResponse(c, S, ack, kind)
      BY <3>1
    <3>3. Resendable(S, ack) \subseteq S /\ PauseResendable(S, ack) \subseteq S
      BY DEF Resendable, PauseResendable, BelowAttemptLimit, Acked
    <3>4. /\ RequestFactory' = [RequestFactory EXCEPT ![c] = @ \cup Resendable(S, ack)]
          /\ GotAckAfterPause' = [GotAckAfterPause EXCEPT ![c] = @ \cup PauseResendable(S, ack)]
          /\ unacked' = unacked \ S
      BY <3>2 DEF ProcessResponse
    <3>5. UNCHANGED <<InputQueue, CurrentRequest, duplicates>>
      BY <2>5 DEF ProcessSingleProduceResponse
    <3> QED
      BY <1>2, <3>3, <3>4, <3>5
  <2> QED
    BY <2>1, <2>2, <2>3, <2>4, <2>5, ZenonT(60)
    DEF ConnectorStep, ConnectToBroker, FinishShutdown, SocketTimeout, HandlePauseDetected,
        HandleSockReadReady, MarkThreadFinished, Terminate
<1>4. ASSUME NEW m \in unacked', m \notin unacked
      PROVE  /\ m \in Msgs /\ msgState[m] # "Absent" /\ m \notin MsgChannel \cup PerTopicBatcher
             /\ \A d \in Brokers \ {c} : m \notin Unsent(d)
  <2>1. m \in Working(c)
    BY <1>3, <1>4 DEF Working
  <2>2. m \in Msgs /\ msgState[m] # "Absent"
    BY <2>1, WorkingKnown
  <2>3. m \notin Free
    BY <2>1, FreeIsApart
  <2>4. ASSUME NEW d \in Brokers \ {c} PROVE m \notin Unsent(d)
    <3>1. m \notin Working(d) \cup Left(d)
      BY <2>1 DEF MsgInv, MsgsApart
    <3> QED
      BY <3>1 DEF Unsent, Working, Left
  <2> QED
    BY <2>2, <2>3, <2>4 DEF Free
<1>5. ASSUME NEW m \in unacked' PROVE msgState'[m] # "Absent"
  BY <1>0, <1>2, <1>4 DEF Recorded
<1>6. ASSUME NEW m \in unacked', m \notin duplicates'
      PROVE  m \notin MsgChannel' \cup PerTopicBatcher' /\ \A d \in Brokers : m \notin Unsent(d)'
  <2>1. CASE m \in unacked
    BY <1>2, <1>3, <1>6, <2>1 DEF Recorded
  <2>2. CASE m \notin unacked
    BY <1>2, <1>3, <1>4, <1>6, <2>2
  <2> QED
    BY <2>1, <2>2
<1> QED
  BY <1>5, <1>6 DEF Recorded

(* Every step keeps this.                                                  *)
LEMMA RecordedNext ==
  ASSUME RouterInv, MsgInv, Recorded, [Next]_vars
  PROVE  Recorded'
<1> USE DEF RouterInv
<1>1. CASE QuietStep
  <2>1. UNCHANGED placeVars
    BY <1>1, QuietSteps
  <2>2. UNCHANGED <<InputQueue, RequestFactory, CurrentRequest, GotAckAfterPause,
                    SendWaitAfterShutdown, msgState, unacked, duplicates, MsgChannel,
                    PerTopicBatcher>>
    BY <2>1 DEF placeVars, queueVars, msgVars
  <2> QED
    BY <2>2 DEF Recorded, Unsent
<1>2. CASE MovingStep
  <2>1. PICK In, D : RouterMoves(In, D)
    BY <1>2, MovingSteps
  <2> QED
    BY <2>1, MovesRecorded
<1>3. ASSUME NEW m \in Msgs, NewMsg(m) PROVE Recorded'
  <2>1. /\ UNCHANGED <<InputQueue, RequestFactory, CurrentRequest, GotAckAfterPause,
                       SendWaitAfterShutdown, unacked, duplicates, PerTopicBatcher>>
        /\ msgState[m] = "Absent" /\ msgState' = Enter({m}, "New")
        /\ MsgChannel' = MsgChannel \cup {m}
    BY <1>3 DEF NewMsg, queueVars
  <2>2. \A c \in Brokers : Unsent(c)' = Unsent(c)
    BY <2>1 DEF Unsent
  <2>3. m \notin unacked /\ unacked \subseteq Msgs
    BY <2>1 DEF Recorded, TypeOK, DispatcherTypeOK
  <2> QED
    BY <2>1, <2>2, <2>3 DEF Recorded, Enter
<1>4. ASSUME NEW c \in Brokers, JoinNext(c) PROVE Recorded'
  <2>1. /\ UNCHANGED <<unacked, duplicates, MsgChannel, PerTopicBatcher>>
        /\ msgState' = Enter(InputQueue[c], "SendWait")
    BY <1>4 DEF JoinNext, JoinConnector
  <2>2. \A d \in Brokers \ {c} : Unsent(d)' = Unsent(d)
    BY <1>4, JoinKeepsMsgs, ZenonT(60) DEF Unsent
  <2>3. Unsent(c)' \subseteq Unsent(c)
    <3>1. SendWaitAfterShutdown'[c] = LeftToSend(c) /\ Working(c)' = {}
      BY <1>4, JoinKeepsMsgs, ZenonT(60)
    <3> QED
      BY <3>1 DEF Unsent, LeftToSend, Working
  <2>4. unacked \subseteq Msgs
    BY DEF TypeOK, DispatcherTypeOK
  <2> QED
    BY <2>1, <2>2, <2>3, <2>4 DEF Recorded, Enter
<1>5. ASSUME NEW c \in Brokers, ConnectorStep(c), UNCHANGED <<routerVars, serverVars>>
      PROVE  Recorded'
  BY <1>5, ConnectorRecorded DEF routerVars
<1> QED
  BY <1>1, <1>2, <1>3, <1>4, <1>5, StepKinds, ZenonT(60)

(* A message that was sent and had no ACK is recorded as a possible        *)
(* duplicate before any connector has it to send again.                    *)
THEOREM ResendsAreRecorded == Spec => []ResentIsRecorded
<1>1. Init => MsgInv /\ Recorded
  BY MsgInit DEF Init, DispatcherInit, Recorded
<1>2. RouterInv /\ MsgInv /\ Recorded /\ [Next]_vars => MsgInv' /\ Recorded'
  BY MsgNext, RecordedNext
<1>3. Recorded => ResentIsRecorded
  BY ZenonT(60) DEF Recorded, ResentIsRecorded, Unsent
<1> QED
  BY <1>1, <1>2, <1>3, Invariance, PTL DEF Spec

-----------------------------------------------------------------------------
(* The states of messages.                                                 *)

(* The messages of a connector that are to be sent, or sent again.         *)
Waiting(c) == RequestFactory[c] \cup CurrentRequest[c] \cup GotAckAfterPause[c]
                \cup NoAckAfterPause[c]

(* The part of StateMatchesPlace that every step keeps, with what it needs *)
(* to know of the lists that are kept for after a shutdown.                *)
StatesMatch ==
  \A m \in Msgs :
    /\ msgState[m] = "Processed" <=> m \in delivered \cup discarded
    /\ \A c \in Brokers :
         /\ m \in Flatten(AckWaitQueue[c]) => msgState[m] = "AckWait"
         /\ m \in Waiting(c) \cup SendWaitAfterShutdown[c] => msgState[m] = "SendWait"
    /\ msgState[m] = "AckWait" =>
         \/ m \in destroyed
         \/ \E c \in Brokers : m \in Flatten(AckWaitQueue[c]) \cup NoAckAfterShutdown[c]

(* What a connector's messages are in, before a step and after it.         *)
LEMMA WorkingStates ==
  ASSUME TypeOK, MsgInv, StatesMatch, NEW c \in Brokers, NEW m \in Working(c)
  PROVE  /\ m \in Msgs /\ m \notin delivered \cup discarded \cup destroyed
         /\ msgState[m] # "Processed"
         /\ msgState[m] = "AckWait" => m \in Flatten(AckWaitQueue[c])
<1>1. m \in InConnectors /\ m \in Msgs
  BY HeldTypes DEF InConnectors
<1>2. m \notin delivered \cup discarded \cup destroyed
  BY <1>1 DEF MsgInv, MsgsApart
<1>3. ASSUME NEW d \in Brokers, m \in Flatten(AckWaitQueue[d]) \cup NoAckAfterShutdown[d]
      PROVE  m \in Flatten(AckWaitQueue[c])
  <2>1. m \in Working(d) \cup Left(d)
    BY <1>3 DEF Working, Left
  <2>2. c = d
    BY <2>1 DEF MsgInv, MsgsApart
  <2>3. m \notin Left(c)
    BY FreeIsApart DEF Free
  <2> QED
    BY <1>3, <2>2, <2>3 DEF Left
<1> QED
  BY <1>1, <1>2, <1>3 DEF StatesMatch

(* What a step of connector c does to the states of its messages, and only *)
(* to theirs.                                                              *)
ConnectorStates(c) ==
  /\ \A m \in Msgs \ Working(c) : msgState'[m] = msgState[m]
  /\ \A m \in Working(c) :
       /\ msgState'[m] = "Processed" <=> m \in delivered' \cup discarded'
       /\ msgState'[m] = "AckWait" => m \in destroyed' \/ m \in Flatten(AckWaitQueue[c])'
       /\ m \in Flatten(AckWaitQueue[c])' => msgState'[m] = "AckWait"
       /\ m \in Waiting(c)' => msgState'[m] = "SendWait"

(* Each step of a connector is of this kind.                               *)
LEMMA ConnectorStatesHold ==
  ASSUME RouterInv, MsgInv, StatesMatch, NEW c \in Brokers, ConnectorStep(c)
  PROVE  ConnectorStates(c)
<1> USE DEF RouterInv
<1>0. /\ InputQueue \in [Brokers -> SUBSET Msgs] /\ RequestFactory \in [Brokers -> SUBSET Msgs]
      /\ CurrentRequest \in [Brokers -> SUBSET Msgs]
      /\ GotAckAfterPause \in [Brokers -> SUBSET Msgs]
      /\ NoAckAfterPause \in [Brokers -> SUBSET Msgs]
      /\ AckWaitQueue \in [Brokers -> Seq(SUBSET Msgs)]
      /\ msgState \in [Msgs -> MsgStates]
  BY DEF TypeOK, DispatcherTypeOK
<1>1. \A m \in Working(c) :
        /\ m \in Msgs /\ m \notin delivered \cup discarded \cup destroyed
        /\ msgState[m] # "Processed"
        /\ msgState[m] = "AckWait" => m \in Flatten(AckWaitQueue[c])
        /\ m \in Flatten(AckWaitQueue[c]) => msgState[m] = "AckWait"
        /\ m \in Waiting(c) => msgState[m] = "SendWait"
  BY WorkingStates DEF StatesMatch
<1>q. QueuesApart(c) /\ Apart(AckWaitQueue[c])
  BY DEF MsgInv, ConnectorsApart
<1>2. CASE UNCHANGED <<queueVars, msgVars>>
  <2>1. UNCHANGED <<RequestFactory, CurrentRequest, AckWaitQueue, GotAckAfterPause,
                    NoAckAfterPause, msgState, delivered, discarded, destroyed>>
    BY <1>2 DEF queueVars, msgVars
  <2> QED
    BY <1>1, <2>1 DEF ConnectorStates, Waiting
<1>3. ASSUME NEW S \in SUBSET InputQueue[c],
             RequestFactory' = [RequestFactory EXCEPT ![c] = @ \cup S],
             msgState' = Enter(S, "SendWait"),
             UNCHANGED <<CurrentRequest, AckWaitQueue, GotAckAfterPause, NoAckAfterPause,
                         delivered, discarded, destroyed>>
      PROVE  ConnectorStates(c)
  <2>1. RequestFactory'[c] = RequestFactory[c] \cup S
    BY <1>0, <1>3
  <2>2. Waiting(c)' = Waiting(c) \cup S /\ Flatten(AckWaitQueue[c])' = Flatten(AckWaitQueue[c])
    BY <1>3, <2>1 DEF Waiting
  <2>3. S \cap Flatten(AckWaitQueue[c]) = {} /\ S \subseteq Working(c)
    BY <1>q DEF QueuesApart, Working
  <2>4. \A m \in Msgs : msgState'[m] = IF m \in S THEN "SendWait" ELSE msgState[m]
    BY <1>3 DEF Enter
  <2> QED
    BY <1>1, <1>3, <2>2, <2>3, <2>4 DEF ConnectorStates
<1>4. CASE HandleShutdownRequest(c)
  <2>1. CASE OptShutdownCmd[c].cmd = "fast"
    <3>1. UNCHANGED <<queueVars, msgVars>>
      BY <1>4, <2>1 DEF HandleShutdownRequest, queueVars, msgVars
    <3> QED
      BY <3>1, <1>2
  <2>2. CASE OptShutdownCmd[c].cmd # "fast"
    <3>1. /\ RequestFactory' = [RequestFactory EXCEPT ![c] = @ \cup InputQueue[c]]
          /\ msgState' = Enter(InputQueue[c], "SendWait")
          /\ UNCHANGED <<CurrentRequest, AckWaitQueue, GotAckAfterPause, NoAckAfterPause,
                         delivered, discarded, destroyed>>
          /\ InputQueue[c] \in SUBSET InputQueue[c]
      BY <1>4, <2>2, ZenonT(60) DEF HandleShutdownRequest
    <3> QED
      BY <1>3, <3>1, ZenonT(60)
  <2> QED
    BY <2>1, <2>2
<1>5. CASE CheckInputQueue(c)
  <2>1. PICK S \in SUBSET InputQueue[c] :
          /\ RequestFactory' = [RequestFactory EXCEPT ![c] = @ \cup S]
          /\ msgState' = Enter(S, "SendWait")
    BY <1>5, ZenonT(60) DEF CheckInputQueue
  <2>2. UNCHANGED <<CurrentRequest, AckWaitQueue, GotAckAfterPause, NoAckAfterPause,
                    delivered, discarded, destroyed>>
    BY <1>5 DEF CheckInputQueue
  <2> QED
    BY <1>3, <2>1, <2>2, ZenonT(60)
<1>6. CASE HandleSockWriteReady(c)
  <2>1. PICK R \in IF SendInProgress(c) THEN {CurrentRequest[c]}
                   ELSE SUBSET RequestFactory[c] \ {{}} :
               HandleSockWriteReady(c)!3!(R)
    BY <1>6, ZenonT(60) DEF HandleSockWriteReady
  <2>2. UNCHANGED <<GotAckAfterPause, NoAckAfterPause, delivered, discarded, destroyed>>
    BY <1>6 DEF HandleSockWriteReady
  <2>3. /\ RequestFactory' = [RequestFactory EXCEPT ![c] = @ \ R]
        /\ \/ /\ CurrentRequest' = [CurrentRequest EXCEPT ![c] = R]
              /\ UNCHANGED <<AckWaitQueue, msgState>>
           \/ /\ CurrentRequest' = [CurrentRequest EXCEPT ![c] = {}]
              /\ AckWaitQueue' = [AckWaitQueue EXCEPT ![c] = Append(@, R)]
              /\ msgState' = Enter(R, "AckWait")
    BY <2>1, ZenonT(60)
  <2>4. /\ R \in SUBSET Msgs /\ R \subseteq RequestFactory[c] \cup CurrentRequest[c]
        /\ CurrentRequest[c] = {} \/ CurrentRequest[c] = R
    BY <1>0, <2>1 DEF SendInProgress
  <2>5. R \cap (GotAckAfterPause[c] \cup NoAckAfterPause[c]) = {} /\ R \subseteq Working(c)
    BY <1>q, <2>4 DEF QueuesApart, Working
  <2>6. CASE /\ CurrentRequest' = [CurrentRequest EXCEPT ![c] = R]
             /\ UNCHANGED <<AckWaitQueue, msgState>>
    <3>1. Waiting(c)' = Waiting(c)
      BY <1>0, <2>2, <2>3, <2>4, <2>6 DEF Waiting
    <3> QED
      BY <1>1, <2>2, <2>6, <3>1 DEF ConnectorStates
  <2>7. CASE /\ CurrentRequest' = [CurrentRequest EXCEPT ![c] = {}]
             /\ AckWaitQueue' = [AckWaitQueue EXCEPT ![c] = Append(@, R)]
             /\ msgState' = Enter(R, "AckWait")
    <3>1. Waiting(c)' = Waiting(c) \ R
      <4>1. RequestFactory'[c] = RequestFactory[c] \ R /\ CurrentRequest'[c] = {}
        BY <1>0, <2>3, <2>7
      <4> QED
        BY <2>2, <2>4, <2>5, <4>1 DEF Waiting
    <3>2. Flatten(AckWaitQueue[c])' = Flatten(AckWaitQueue[c]) \cup R
      <4>1. AckWaitQueue[c] \in Seq(SUBSET Msgs) /\ AckWaitQueue'[c] = Append(AckWaitQueue[c], R)
        BY <1>0, <2>7
      <4> QED
        BY <2>4, <4>1, FlattenAppend, ZenonT(60)
    <3>3. \A m \in Msgs : msgState'[m] = IF m \in R THEN "AckWait" ELSE msgState[m]
      BY <2>7 DEF Enter
    <3> QED
      BY <1>1, <2>2, <2>5, <3>1, <3>2, <3>3 DEF ConnectorStates
  <2> QED
    BY <2>3, <2>6, <2>7
<1>7. CASE ProcessSingleProduceResponse(c)
  <2>1. PICK A \in SUBSET Head(AckWaitQueue[c]), kind \in {"complete", "mismatch", "bad"} :
        \E ack \in [A -> AckActions] : ProcessSingleProduceResponse(c)!2!(A, kind)!(ack)
    BY <1>7, ZenonT(60) DEF ProcessSingleProduceResponse
  <2>2. PICK ack \in [A -> AckActions] : ProcessSingleProduceResponse(c)!2!(A, kind)!(ack)
    BY <2>1
  <2>3. ProcessResponse(c, A, ack, kind)
    BY <2>2
  <2>4. UNCHANGED CurrentRequest
    BY <1>7 DEF ProcessSingleProduceResponse
  <2> DEFINE s == AckWaitQueue[c]
             rest == Head(s) \ A
             Ok == Acked(A, ack, "Ok")
             Dis == DiscardedByAck(A, ack)
             Lost == DestroyedMsgs(rest, kind)
             Again == Resendable(A, ack)
             Paused == PauseResendable(A, ack)
             Unacked == NoAckMsgs(rest, kind)
  <2>5. s \in Seq(SUBSET Msgs) /\ s # <<>> /\ Head(s) \in SUBSET Msgs
    BY <1>0, <1>7 DEF ReadHasRequest, ProcessSingleProduceResponse
  <2>6. /\ Flatten(s) = Head(s) \cup Flatten(Tail(s))
        /\ Head(s) \cap Flatten(Tail(s)) = {}
    BY <1>q, <2>5, FlattenTail
  <2>7. Unacked \cup Lost = rest /\ Unacked \cap Lost = {}
    <3>1. kind = "complete" => rest = {}
      BY <2>2, ZenonT(60)
    <3> QED
      BY <3>1 DEF NoAckMsgs, DestroyedMsgs
  <2>8. /\ Ok \cup Dis \cup Again \cup Paused = A
        /\ Ok \cap Again = {} /\ Ok \cap Paused = {}
        /\ Dis \cap Again = {} /\ Dis \cap Paused = {}
    BY DEF Acked, DiscardedByAck, Resendable, PauseResendable, BelowAttemptLimit, AckActions
  <2>9. msgState' = [m \in Msgs |-> CASE m \in Ok \cup Dis -> "Processed"
                             [] m \in Again \cup Paused \cup Unacked -> "SendWait"
                             [] OTHER -> msgState[m]]
    BY <2>3 DEF ProcessResponse, Requeued
  <2> HIDE DEF s, rest, Ok, Dis, Lost, Again, Paused, Unacked
  <2>10. /\ AckWaitQueue'[c] = Tail(s) /\ RequestFactory'[c] = RequestFactory[c] \cup Again
         /\ GotAckAfterPause'[c] = GotAckAfterPause[c] \cup Paused
         /\ NoAckAfterPause'[c] = NoAckAfterPause[c] \cup Unacked
         /\ delivered' = delivered \cup Ok /\ discarded' = discarded \cup Dis
         /\ destroyed' = destroyed \cup Lost
    BY <1>0, <2>3 DEF ProcessResponse, s, rest, Ok, Dis, Lost, Again, Paused, Unacked
  <2>11. Waiting(c)' = Waiting(c) \cup Again \cup Paused \cup Unacked
    BY <2>4, <2>10 DEF Waiting
  <2>12. Head(s) \subseteq Working(c) /\ Head(s) \cap Waiting(c) = {}
    BY <1>q, <2>6 DEF Working, Waiting, QueuesApart, s
  <2>13. Flatten(AckWaitQueue[c])' = Flatten(s) \ Head(s)
    BY <2>6, <2>10
  <2>14. Head(s) = A \cup rest /\ A \cap rest = {}
    BY <2>1 DEF rest, s
  <2>15. ASSUME NEW m \in Msgs \ Head(s) PROVE msgState'[m] = msgState[m]
    BY <2>7, <2>8, <2>9, <2>14
  <2>16. ASSUME NEW m \in Ok \cup Dis
         PROVE  msgState'[m] = "Processed" /\ m \in delivered' \cup discarded'
    <3>1. m \in Msgs
      BY <2>5, <2>8, <2>14
    <3>2. msgState'[m] = "Processed"
      BY <2>7, <2>8, <2>9, <2>14, <3>1
    <3>3. m \in delivered' \cup discarded'
      BY <2>10
    <3> QED
      BY <3>2, <3>3
  <2>17. ASSUME NEW m \in Again \cup Paused \cup Unacked
         PROVE  msgState'[m] = "SendWait" /\ m \notin delivered' \cup discarded'
    BY <1>1, <2>5, <2>7, <2>8, <2>9, <2>10, <2>12, <2>14
  <2>18. ASSUME NEW m \in Lost
         PROVE  msgState'[m] = "AckWait" /\ m \notin delivered' \cup discarded'
                  /\ m \in destroyed'
    <3>1. msgState[m] = "AckWait" /\ m \in Head(s)
      BY <1>1, <2>6, <2>7, <2>12, <2>14 DEF s
    <3> QED
      BY <1>1, <2>5, <2>7, <2>8, <2>9, <2>10, <2>12, <2>14, <3>1
  <2>19. ASSUME NEW m \in Working(c) \ Head(s)
         PROVE  /\ msgState'[m] = "Processed" <=> m \in delivered' \cup discarded'
                /\ msgState'[m] = "AckWait" => m \in Flatten(AckWaitQueue[c])'
                /\ m \in Flatten(AckWaitQueue[c])' => msgState'[m] = "AckWait"
                /\ m \in Waiting(c)' => msgState'[m] = "SendWait"
    <3>1. msgState'[m] = msgState[m]
      BY <1>1, <2>15
    <3>2. m \notin Ok \cup Dis \cup Again \cup Paused \cup Unacked
      BY <2>7, <2>8, <2>14
    <3> QED
      BY <1>1, <2>10, <2>11, <2>13, <3>1, <3>2 DEF s
  <2>20. \A m \in Head(s) : m \in Ok \cup Dis \cup Again \cup Paused \cup Unacked \cup Lost
    BY <2>7, <2>8, <2>14
  <2>21. ASSUME NEW m \in Head(s)
         PROVE  /\ msgState'[m] = "Processed" <=> m \in delivered' \cup discarded'
                /\ msgState'[m] = "AckWait" => m \in destroyed'
                /\ m \notin Flatten(AckWaitQueue[c])'
                /\ m \in Waiting(c)' => msgState'[m] = "SendWait"
    BY <2>11, <2>12, <2>13, <2>16, <2>17, <2>18, <2>20
  <2> QED
    BY <2>12, <2>15, <2>19, <2>21 DEF ConnectorStates
<1> QED
  BY <1>2, <1>4, <1>5, <1>6, <1>7, ZenonT(60)
  DEF ConnectorStep, ConnectToBroker, FinishShutdown, SocketTimeout, HandlePauseDetected,
      HandleSockReadReady, MarkThreadFinished, Terminate
==============================================================================
