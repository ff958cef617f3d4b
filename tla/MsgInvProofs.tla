---------------------------- MODULE MsgInvProofs -----------------------------
(***************************************************************************)
(* The kinds of steps that RouterThread takes, each of which keeps the     *)
(* invariant MsgInv and is a step of MsgDelivery or leaves its variables   *)
(* alone: a step of a connector moves messages within the connector or     *)
(* ends them (ConnectorMoves, in ConnectorMsgProofs); a step of the router *)
(* or of the main thread leaves them where they are (QuietStep), hands     *)
(* them out or discards them (RouterMoves), takes a new one in (NewMsg),   *)
(* or joins a connector (JoinNext).                                        *)
(***************************************************************************)
EXTENDS ConnectorMsgProofs

(* Held messages that end are an End step of MsgDelivery.                  *)
LEMMA EndStep ==
  ASSUME NEW A \in SUBSET HeldMsgs, NEW D \in SUBSET HeldMsgs, NEW L \in SUBSET HeldMsgs,
         A \cap D = {}, (A \cup D) \cap L = {},
         HeldMsgs' = HeldMsgs \ (A \cup D \cup L),
         delivered' = delivered \cup A, discarded' = discarded \cup D,
         destroyed' = destroyed \cup L
  PROVE  Delivery!End
<1>1. D \in SUBSET (HeldMsgs \ A) /\ L \in SUBSET (HeldMsgs \ (A \cup D))
  OBVIOUS
<1> QED
  BY <1>1, ZenonT(60) DEF Delivery!End

(* So it keeps the invariant, and is a step End of MsgDelivery.            *)
LEMMA ConnectorMsgInv ==
  ASSUME RouterInv, MsgInv, NEW c \in Brokers, ConnectorStep(c), UNCHANGED routerVars
  PROVE  MsgInv' /\ Delivery!End
<1>1. PICK A, D, L : ConnectorMoves(c, A, D, L)
  BY ConnectorMovesMsgs
<1>2. UNCHANGED <<Connectors, rpc, todo, MsgChannel, PerTopicBatcher>>
  <2>1. OnlyOwnControl(c)
    BY ConnectorControl DEF RouterInv, TypeOK
  <2> QED
    BY <2>1 DEF OnlyOwnControl, routerVars
<1>3. /\ \A d \in Brokers \ {c} : Working(d)' = Working(d)
      /\ \A d \in Brokers : Left(d)' = Left(d)
  <2>1. ASSUME NEW d \in Brokers \ {c} PROVE Working(d)' = Working(d)
    BY <1>1 DEF ConnectorMoves, Working
  <2>2. ASSUME NEW d \in Brokers PROVE Left(d)' = Left(d)
    BY <1>1 DEF ConnectorMoves, Left
  <2> QED
    BY <2>1, <2>2
<1>4. /\ A \cup D \cup L \subseteq Working(c) /\ A \cap D = {} /\ (A \cup D) \cap L = {}
      /\ Working(c)' = Working(c) \ (A \cup D \cup L)
      /\ delivered' = delivered \cup A /\ discarded' = discarded \cup D
      /\ destroyed' = destroyed \cup L
      /\ \A m \in Msgs : msgState'[m] = "Absent" <=> msgState[m] = "Absent"
  BY <1>1 DEF ConnectorMoves
<1>5. ConnectorsApart'
  <2>1. QueuesApart(c)' /\ LeftApart(c)' /\ Apart(AckWaitQueue[c])'
    BY <1>1 DEF ConnectorMoves, MsgInv, ConnectorsApart, LeftApart
  <2>2. ASSUME NEW d \in Brokers \ {c}
        PROVE  QueuesApart(d)' /\ LeftApart(d)' /\ Apart(AckWaitQueue[d])'
    <3>1. QueuesApart(d) /\ LeftApart(d) /\ Apart(AckWaitQueue[d])
      BY DEF MsgInv, ConnectorsApart
    <3>2. /\ InputQueue'[d] = InputQueue[d] /\ RequestFactory'[d] = RequestFactory[d]
          /\ CurrentRequest'[d] = CurrentRequest[d] /\ AckWaitQueue'[d] = AckWaitQueue[d]
          /\ GotAckAfterPause'[d] = GotAckAfterPause[d]
          /\ NoAckAfterPause'[d] = NoAckAfterPause[d]
          /\ UNCHANGED <<SendWaitAfterShutdown, NoAckAfterShutdown>>
      BY <1>1 DEF ConnectorMoves
    <3> QED
      BY <3>1, <3>2, ZenonT(60) DEF QueuesApart, LeftApart
  <2> QED
    BY <2>1, <2>2 DEF ConnectorsApart
<1>6. QueuesOwned'
  BY <1>2, <1>3, <1>4 DEF MsgInv, QueuesOwned
<1>7. InConnectors' = InConnectors \ (A \cup D \cup L)
  <2>1. ASSUME NEW d \in Brokers
        PROVE  (Working(d) \cup Left(d))' = (Working(d) \cup Left(d)) \ (A \cup D \cup L)
    <3>1. CASE d = c
      <4>1. \A m \in Left(c) : m \notin Working(c)
        BY DEF MsgInv, QueuesOwned
      <4> QED
        BY <1>3, <1>4, <3>1, <4>1
    <3>2. CASE d # c
      <4>1. \A m \in Working(c) : m \notin Working(d) \cup Left(d)
        BY <3>2 DEF MsgInv, MsgsApart
      <4> QED
        BY <1>3, <1>4, <3>2, <4>1
    <3> QED
      BY <3>1, <3>2
  <2> QED
    BY <2>1 DEF InConnectors
<1>8. A \cup D \cup L \subseteq InConnectors
  BY <1>4 DEF InConnectors
<1>9. MsgsApart'
  <2>1. ASSUME NEW d \in Brokers, NEW e \in Brokers, d # e, NEW m \in (Working(d) \cup Left(d))'
        PROVE  m \notin (Working(e) \cup Left(e))'
    <3>1. m \in Working(d) \cup Left(d)
      BY <1>3, <1>4, <2>1
    <3>2. m \notin Working(e) \cup Left(e)
      BY <2>1, <3>1 DEF MsgInv, MsgsApart
    <3> QED
      BY <1>3, <1>4, <3>2
  <2>2. MsgsApart!2' /\ MsgsApart!3' /\ MsgsApart!4' /\ MsgsApart!5' /\ MsgsApart!6'
    BY <1>2, <1>4, <1>7, <1>8 DEF MsgInv, MsgsApart
  <2> QED
    BY <2>1, <2>2 DEF MsgsApart
<1>10. Accounted'
  BY <1>2, <1>4, <1>7, <1>8 DEF MsgInv, Accounted
<1>11. Delivery!End
  <2>1. HeldMsgs' = HeldMsgs \ (A \cup D \cup L)
    <3>1. \A m \in InConnectors : m \notin MsgChannel \cup PerTopicBatcher
      BY DEF MsgInv, MsgsApart
    <3> QED
      BY <1>2, <1>7, <1>8, <3>1, HeldInConnectors, HeldNext
  <2>2. A \in SUBSET HeldMsgs /\ D \in SUBSET HeldMsgs /\ L \in SUBSET HeldMsgs
    BY <1>8, HeldInConnectors
  <2> QED
    BY <1>4, <2>1, <2>2, EndStep
<1> QED
  BY <1>5, <1>6, <1>9, <1>10, <1>11 DEF MsgInv

-----------------------------------------------------------------------------
(* Steps that leave the messages where they are.                           *)

(* What such a step may do to the router's position, so that each message  *)
(* stays with a connector that may have it.                                *)
ControlMoves ==
  /\ UNCHANGED Connectors
  /\ \/ UNCHANGED <<rpc, todo>>
     \/ /\ rpc \notin {"init", "join", "restart"}
        /\ rpc' \notin {"init", "restart", "end", "joined"}
        /\ rpc' = "join" => todo' = Connectors
     \/ rpc = "join" /\ todo = {} /\ rpc' = "restart"

placeVars == <<queueVars, msgVars, MsgChannel, PerTopicBatcher>>

(* So the invariant is kept, and MsgDelivery does not see the step.        *)
LEMMA QuietInv ==
  ASSUME MsgInv, ControlMoves, UNCHANGED placeVars
  PROVE  MsgInv' /\ UNCHANGED <<HeldMsgs, delivered, discarded, destroyed>>
<1>1. /\ UNCHANGED <<InputQueue, RequestFactory, CurrentRequest, AckWaitQueue,
                     GotAckAfterPause, NoAckAfterPause, SendWaitAfterShutdown,
                     NoAckAfterShutdown>>
      /\ UNCHANGED <<msgState, delivered, discarded, destroyed, MsgChannel, PerTopicBatcher>>
  BY DEF placeVars, queueVars, msgVars
<1>2. /\ \A c \in Brokers : Working(c)' = Working(c) /\ Left(c)' = Left(c)
      /\ InConnectors' = InConnectors
  BY <1>1 DEF Working, Left, InConnectors
<1>3. ConnectorsApart'
  BY <1>1 DEF MsgInv, ConnectorsApart, QueuesApart, LeftApart
<1>4. QueuesOwned'
  BY <1>2 DEF MsgInv, QueuesOwned, ControlMoves
<1>5. MsgsApart' /\ Accounted'
  BY <1>1, <1>2 DEF MsgInv, MsgsApart, Accounted
<1>6. UNCHANGED HeldMsgs
  BY <1>1, <1>2, HeldInConnectors, HeldNext
<1> QED
  BY <1>1, <1>3, <1>4, <1>5, <1>6 DEF MsgInv

(* The steps of the router and of the main thread that are of this kind.   *)
QuietStep ==
  \/ RequestShutdown \/ RequestMetadataUpdate \/ Poll
  \/ \E c \in Brokers : SendShutdown(c) \/ AwaitAck(c)
  \/ ShutdownBegun \/ FetchMetadata \/ JoinedAll
  \/ HandleShutdownFinished \/ HandlePause
  \/ HandleMetadataUpdate /\ ~DiscardAndEnd
  \/ UNCHANGED vars

(* They move no message, and keep the connectors that have some.           *)
LEMMA QuietSteps ==
  ASSUME QuietStep
  PROVE  ControlMoves /\ UNCHANGED placeVars
<1> USE DEF ControlMoves, placeVars
<1>1. CASE RequestShutdown \/ RequestMetadataUpdate \/ UNCHANGED vars
  BY <1>1, ZenonT(60)
  DEF RequestShutdown, RequestMetadataUpdate, vars, routerVars, dispatcherVars, sharedVars,
      msgVars
<1>2. CASE Poll
  BY <1>2 DEF Poll, dispatcherVars, sharedVars, msgVars
<1>3. ASSUME NEW c \in Brokers, SendShutdown(c) \/ AwaitAck(c)
      PROVE  ControlMoves /\ UNCHANGED placeVars
  BY <1>3 DEF SendShutdown, AwaitAck, sharedVars, msgVars
<1>4. CASE ShutdownBegun
  BY <1>4 DEF ShutdownBegun, msgVars
<1>5. CASE FetchMetadata
  BY <1>5 DEF FetchMetadata, dispatcherVars, sharedVars, msgVars
<1>6. CASE JoinedAll
  BY <1>6 DEF JoinedAll, FinishJoinAll, msgVars
<1>7. CASE HandleShutdownFinished
  BY <1>7 DEF HandleShutdownFinished, dispatcherVars, sharedVars, msgVars
<1>8. CASE HandlePause
  BY <1>8 DEF HandlePause, BeginShutdown, dispatcherVars, sharedVars, msgVars
<1>9. CASE HandleMetadataUpdate /\ ~DiscardAndEnd
  <2>1. /\ rpc = "events" /\ UNCHANGED <<dispatcherVars, MsgChannel, PerTopicBatcher>>
        /\ BeginShutdown("refresh") \/ UNCHANGED <<rpc, localVars>>
    BY <1>9, ZenonT(60) DEF HandleMetadataUpdate
  <2> QED
    BY <2>1 DEF BeginShutdown, dispatcherVars, sharedVars, msgVars, localVars
<1> QED
  BY <1>1, <1>2, <1>3, <1>4, <1>5, <1>6, <1>7, <1>8, <1>9 DEF QuietStep

-----------------------------------------------------------------------------
(* Steps by which the router hands out or discards messages.               *)

(* What no connector works on.                                             *)
Free == MsgChannel \cup PerTopicBatcher \cup UNION {Left(c) : c \in Brokers}

(* The messages of D are discarded; of the others, those that were with    *)
(* no connector may be put into the queue of one or be batched.            *)
StateMoves(D) ==
  \A m \in Msgs :
    \/ m \in D /\ msgState'[m] = "Processed"
    \/ m \in Free \ D /\ msgState'[m] \in {"SendWait", "Batching"}
    \/ /\ m \notin D /\ \A c \in Brokers : m \notin Left(c)
       /\ msgState'[m] = msgState[m]

(* The messages of In[c] enter the input queue of c, those of D are        *)
(* discarded, and nothing is left of a former dispatcher.                  *)
RouterMoves(In, D) ==
  /\ \A c \in Brokers :
       /\ InputQueue'[c] = InputQueue[c] \cup In[c]
       /\ RequestFactory'[c] = RequestFactory[c] /\ CurrentRequest'[c] = CurrentRequest[c]
       /\ GotAckAfterPause'[c] = GotAckAfterPause[c]
       /\ NoAckAfterPause'[c] = NoAckAfterPause[c]
       /\ Flatten(AckWaitQueue[c])' = Flatten(AckWaitQueue[c]) /\ Apart(AckWaitQueue[c])'
       /\ SendWaitAfterShutdown'[c] = {} /\ NoAckAfterShutdown'[c] = {}
       /\ In[c] \subseteq Free /\ In[c] \cap D = {}
       /\ In[c] \cup Working(c) # {} => c \in Connectors'
       /\ NoAckAfterShutdown[c] \subseteq duplicates'
  /\ rpc' \notin {"init", "join", "restart"}
  /\ \A c, d \in Brokers : c # d => In[c] \cap In[d] = {}
  /\ D \subseteq Free
  /\ MsgChannel' \cap PerTopicBatcher' = {}
  /\ MsgChannel' \cup PerTopicBatcher' = Free \ (D \cup UNION {In[c] : c \in Brokers})
  /\ discarded' = discarded \cup D
  /\ UNCHANGED <<delivered, destroyed, unacked>>
  /\ duplicates \subseteq duplicates'
  /\ StateMoves(D)

(* What no connector works on is apart from what one works on.             *)
LEMMA FreeIsApart ==
  ASSUME MsgInv
  PROVE  /\ \A c \in Brokers : Working(c) \cap Free = {}
         /\ HeldMsgs = Free \cup UNION {Working(c) : c \in Brokers}
         /\ \A m \in Free : m \notin delivered \cup discarded \cup destroyed
<1>1. ASSUME NEW c \in Brokers PROVE Working(c) \cap Free = {}
  <2>1. Working(c) \subseteq InConnectors
    BY DEF InConnectors
  <2>2. Working(c) \cap (MsgChannel \cup PerTopicBatcher) = {}
    BY <2>1 DEF MsgInv, MsgsApart
  <2>3. ASSUME NEW d \in Brokers PROVE Working(c) \cap Left(d) = {}
    <3>1. CASE c = d
      BY <3>1 DEF MsgInv, QueuesOwned
    <3>2. CASE c # d
      BY <3>2 DEF MsgInv, MsgsApart
    <3> QED
      BY <3>1, <3>2
  <2> QED
    BY <2>2, <2>3 DEF Free
<1> DEFINE working == UNION {Working(c) : c \in Brokers}
           left == UNION {Left(c) : c \in Brokers}
<1>2. InConnectors = working \cup left
  <2>1. \A m : m \in InConnectors <=> \E c \in Brokers : m \in Working(c) \cup Left(c)
    BY DEF InConnectors
  <2>2. \A m : m \in working \cup left <=> \E c \in Brokers : m \in Working(c) \cup Left(c)
    OBVIOUS
  <2> QED
    BY <2>1, <2>2
<1> HIDE DEF working, left
<1>3. HeldMsgs = MsgChannel \cup PerTopicBatcher \cup left \cup working
  BY <1>2, HeldInConnectors
<1>4. \A m \in MsgChannel \cup PerTopicBatcher \cup left :
        m \notin delivered \cup discarded \cup destroyed
  BY <1>2 DEF MsgInv, MsgsApart
<1> QED
  BY <1>1, <1>3, <1>4 DEF Free, working, left

(* Messages that the router has are known, and stay so.                    *)
LEMMA KnownStays ==
  ASSUME MsgInv, NEW D, D \subseteq Free, StateMoves(D)
  PROVE  \A m \in Msgs : msgState'[m] = "Absent" <=> msgState[m] = "Absent"
<1>1. \A m \in Free : m \in HeldMsgs
  BY FreeIsApart
<1>2. \A m \in Msgs \cap HeldMsgs : msgState[m] # "Absent"
  BY HeldInConnectors DEF MsgInv, Accounted
<1> QED
  BY <1>1, <1>2 DEF StateMoves

(* Such a step keeps the invariant, and is a step End of MsgDelivery.      *)
LEMMA RouterMovesInv ==
  ASSUME MsgInv, NEW In, NEW D, RouterMoves(In, D)
  PROVE  MsgInv' /\ Delivery!End
<1> DEFINE moved == UNION {In[c] : c \in Brokers}
           working == UNION {Working(c) : c \in Brokers}
<1>1. \A c \in Brokers : /\ Working(c)' = Working(c) \cup In[c] /\ Left(c)' = {}
                         /\ In[c] \subseteq Free /\ In[c] \cap D = {}
                         /\ Working(c) \cap Free = {}
  <2>1. ASSUME NEW c \in Brokers
        PROVE  Working(c)' = Working(c) \cup In[c] /\ Left(c)' = {}
    BY DEF RouterMoves, Working, Left
  <2> QED
    BY <2>1, FreeIsApart DEF RouterMoves
<1>2. InConnectors' = working \cup moved
  BY <1>1 DEF InConnectors
<1>3. /\ moved \subseteq Free /\ D \subseteq Free /\ moved \cap D = {}
      /\ working \cap Free = {} /\ working \subseteq InConnectors
      /\ MsgChannel' \cup PerTopicBatcher' = Free \ (D \cup moved)
      /\ MsgChannel' \cap PerTopicBatcher' = {}
      /\ discarded' = discarded \cup D /\ delivered' = delivered /\ destroyed' = destroyed
      /\ \A m \in Msgs : msgState'[m] = "Absent" <=> msgState[m] = "Absent"
  <2>1. \A m \in Msgs : msgState'[m] = "Absent" <=> msgState[m] = "Absent"
    BY KnownStays, ZenonT(60) DEF RouterMoves
  <2> QED
    BY <1>1, <2>1 DEF RouterMoves, InConnectors
<1>4. ConnectorsApart'
  <2>1. ASSUME NEW c \in Brokers
        PROVE  QueuesApart(c)' /\ LeftApart(c)' /\ Apart(AckWaitQueue[c])'
    <3>1. /\ InputQueue'[c] = InputQueue[c] \cup In[c]
          /\ RequestFactory'[c] = RequestFactory[c] /\ CurrentRequest'[c] = CurrentRequest[c]
          /\ GotAckAfterPause'[c] = GotAckAfterPause[c]
          /\ NoAckAfterPause'[c] = NoAckAfterPause[c]
          /\ Flatten(AckWaitQueue[c])' = Flatten(AckWaitQueue[c]) /\ Apart(AckWaitQueue[c])'
          /\ SendWaitAfterShutdown'[c] = {}
      BY DEF RouterMoves
    <3>2. QueuesApart(c) /\ In[c] \cap Working(c) = {}
      BY <1>1 DEF MsgInv, ConnectorsApart
    <3>3. QueuesApart(c)'
      BY <3>1, <3>2 DEF QueuesApart, Working
    <3> QED
      BY <3>1, <3>3 DEF LeftApart
  <2> QED
    BY <2>1 DEF ConnectorsApart
<1>5. QueuesOwned'
  BY <1>1 DEF RouterMoves, QueuesOwned
<1>6. MsgsApart'
  <2>1. ASSUME NEW c \in Brokers, NEW d \in Brokers, c # d, NEW m \in (Working(c) \cup Left(c))'
        PROVE  m \notin (Working(d) \cup Left(d))'
    <3>1. In[c] \cap In[d] = {}
      BY <2>1 DEF RouterMoves
    <3>2. Working(c) \cap Working(d) = {}
      BY <2>1 DEF MsgInv, MsgsApart
    <3> QED
      BY <1>1, <2>1, <3>1, <3>2
  <2>2. \A m \in InConnectors' : m \notin MsgChannel' \cup PerTopicBatcher' \cup delivered'
                                            \cup discarded' \cup destroyed'
    BY <1>2, <1>3, FreeIsApart DEF MsgInv, MsgsApart
  <2>3. /\ \A m \in MsgChannel' : m \notin PerTopicBatcher' \cup delivered'
                                            \cup discarded' \cup destroyed'
        /\ \A m \in PerTopicBatcher' : m \notin delivered' \cup discarded' \cup destroyed'
    BY <1>3, FreeIsApart
  <2>4. /\ \A m \in delivered' : m \notin discarded' \cup destroyed'
        /\ \A m \in discarded' : m \notin destroyed'
    BY <1>3, FreeIsApart DEF MsgInv, MsgsApart
  <2> QED
    BY <2>1, <2>2, <2>3, <2>4 DEF MsgsApart
<1>7. HeldMsgs' = HeldMsgs \ D /\ D \subseteq HeldMsgs
  <2>1. HeldMsgs = Free \cup working
    BY FreeIsApart
  <2> QED
    BY <1>2, <1>3, <2>1, HeldNext
<1>8. Accounted'
  <2>1. \A m \in Msgs : msgState[m] # "Absent" <=>
                          m \in HeldMsgs \cup delivered \cup discarded \cup destroyed
    BY HeldInConnectors DEF MsgInv, Accounted
  <2>2. \A m \in Msgs : msgState'[m] # "Absent" <=>
                          m \in HeldMsgs' \cup delivered' \cup discarded' \cup destroyed'
    BY <1>3, <1>7, <2>1
  <2> QED
    BY <2>2, HeldNext DEF Accounted
<1>9. Delivery!End
  <2>1. /\ {} \in SUBSET HeldMsgs /\ D \in SUBSET HeldMsgs
        /\ HeldMsgs' = HeldMsgs \ ({} \cup D \cup {})
        /\ {} \cap D = {} /\ ({} \cup D) \cap {} = {}
        /\ delivered' = delivered \cup {} /\ destroyed' = destroyed \cup {}
    BY <1>3, <1>7
  <2> QED
    BY <1>3, <2>1, EndStep, ZenonT(60)
<1> QED
  BY <1>4, <1>6, <1>8, <1>9, <1>5 DEF MsgInv

(* The server accepts a message.                                           *)
LEMMA NewMsgInv ==
  ASSUME TypeOK, MsgInv, NEW m \in Msgs, NewMsg(m)
  PROVE  MsgInv' /\ Delivery!Accept(m)
<1>1. /\ UNCHANGED <<InputQueue, RequestFactory, CurrentRequest, AckWaitQueue,
                     GotAckAfterPause, NoAckAfterPause, SendWaitAfterShutdown,
                     NoAckAfterShutdown, Connectors, rpc, todo, PerTopicBatcher,
                     delivered, discarded, destroyed>>
      /\ MsgChannel' = MsgChannel \cup {m}
      /\ msgState[m] = "Absent" /\ msgState' = Enter({m}, "New")
  BY DEF NewMsg, queueVars, sharedVars
<1>2. /\ \A c \in Brokers : Working(c)' = Working(c) /\ Left(c)' = Left(c)
      /\ InConnectors' = InConnectors
  BY <1>1 DEF Working, Left, InConnectors
<1>3. m \notin InConnectors \cup MsgChannel \cup PerTopicBatcher
                 \cup delivered \cup discarded \cup destroyed
  BY <1>1 DEF MsgInv, Accounted
<1>4. ConnectorsApart' /\ QueuesOwned'
  BY <1>1, <1>2 DEF MsgInv, ConnectorsApart, QueuesApart, LeftApart, QueuesOwned
<1>5. MsgsApart'
  BY <1>1, <1>2, <1>3, ZenonT(60) DEF MsgInv, MsgsApart
<1>6. Accounted'
  BY <1>1, <1>2 DEF MsgInv, Accounted, Enter
<1>7. HeldMsgs' = HeldMsgs \cup {m} /\ m \notin HeldMsgs \cup delivered \cup discarded \cup destroyed
  BY <1>1, <1>2, <1>3, HeldInConnectors, HeldNext
<1>8. Delivery!Accept(m)
  BY <1>1, <1>7 DEF Delivery!Accept, Delivery!Known
<1> QED
  BY <1>4, <1>5, <1>6, <1>8 DEF MsgInv

(* CleanupAfterJoin keeps everything the connector had.                    *)
LEMMA JoinKeepsMsgs ==
  ASSUME TypeOK, MsgInv, NEW c \in Brokers, JoinNext(c)
  PROVE  /\ Working(c)' = {} /\ Left(c)' = Working(c) /\ Left(c) = {}
         /\ SendWaitAfterShutdown'[c] = LeftToSend(c)
         /\ NoAckAfterShutdown'[c] = LeftWithoutAck(c)
         /\ AckWaitQueue'[c] = <<>>
         /\ \A d \in Brokers \ {c} :
              /\ InputQueue'[d] = InputQueue[d] /\ RequestFactory'[d] = RequestFactory[d]
              /\ CurrentRequest'[d] = CurrentRequest[d] /\ AckWaitQueue'[d] = AckWaitQueue[d]
              /\ GotAckAfterPause'[d] = GotAckAfterPause[d]
              /\ NoAckAfterPause'[d] = NoAckAfterPause[d]
              /\ SendWaitAfterShutdown'[d] = SendWaitAfterShutdown[d]
              /\ NoAckAfterShutdown'[d] = NoAckAfterShutdown[d]
<1>1. c \in todo /\ rpc = "join" /\ JoinConnector(c)
  BY DEF JoinNext, NextConnector
<1>2. Left(c) = {}
  BY <1>1 DEF MsgInv, QueuesOwned
<1>3. /\ SendWaitAfterShutdown'[c] = LeftToSend(c) /\ NoAckAfterShutdown'[c] = LeftWithoutAck(c)
      /\ InputQueue'[c] = {} /\ RequestFactory'[c] = {} /\ CurrentRequest'[c] = {}
      /\ GotAckAfterPause'[c] = {} /\ NoAckAfterPause'[c] = {} /\ AckWaitQueue'[c] = <<>>
      /\ \A d \in Brokers \ {c} :
              /\ InputQueue'[d] = InputQueue[d] /\ RequestFactory'[d] = RequestFactory[d]
              /\ CurrentRequest'[d] = CurrentRequest[d] /\ AckWaitQueue'[d] = AckWaitQueue[d]
              /\ GotAckAfterPause'[d] = GotAckAfterPause[d]
              /\ NoAckAfterPause'[d] = NoAckAfterPause[d]
              /\ SendWaitAfterShutdown'[d] = SendWaitAfterShutdown[d]
              /\ NoAckAfterShutdown'[d] = NoAckAfterShutdown[d]
  BY <1>1 DEF JoinConnector, TypeOK, DispatcherTypeOK
<1>4. Working(c)' = {} /\ Left(c)' = Working(c)
  BY <1>3, FlattenEmpty, ZenonT(60) DEF Working, Left, LeftToSend, LeftWithoutAck
<1> QED
  BY <1>2, <1>3, <1>4, ZenonT(60)

(* A join keeps the invariant, and MsgDelivery does not see it.            *)
LEMMA JoinNextInv ==
  ASSUME TypeOK, MsgInv, NEW c \in Brokers, JoinNext(c)
  PROVE  MsgInv' /\ UNCHANGED <<HeldMsgs, delivered, discarded, destroyed>>
<1>1. /\ UNCHANGED <<Connectors, rpc, MsgChannel, PerTopicBatcher, delivered, discarded,
                     destroyed>>
      /\ todo' = todo \ {c} /\ c \in todo /\ rpc = "join"
      /\ msgState' = Enter(InputQueue[c], "SendWait")
  BY DEF JoinNext, JoinConnector, NextConnector, sharedVars
<1>2. /\ Working(c)' = {} /\ Left(c)' = Working(c) /\ Left(c) = {}
      /\ \A d \in Brokers \ {c} : Working(d)' = Working(d) /\ Left(d)' = Left(d)
  <2>1. ASSUME NEW d \in Brokers \ {c} PROVE Working(d)' = Working(d) /\ Left(d)' = Left(d)
    BY JoinKeepsMsgs DEF Working, Left
  <2> QED
    BY <2>1, JoinKeepsMsgs, ZenonT(60)
<1>3. \A d \in Brokers : (Working(d) \cup Left(d))' = Working(d) \cup Left(d)
  BY <1>2
<1>4. InConnectors' = InConnectors
  BY <1>3 DEF InConnectors
<1>5. ConnectorsApart'
  <2>1. ASSUME NEW d \in Brokers \ {c}
        PROVE  QueuesApart(d)' /\ LeftApart(d)' /\ Apart(AckWaitQueue[d])'
    <3>1. QueuesApart(d) /\ LeftApart(d) /\ Apart(AckWaitQueue[d])
      BY DEF MsgInv, ConnectorsApart
    <3> QED
      BY <3>1, JoinKeepsMsgs, ZenonT(60) DEF QueuesApart, LeftApart
  <2>2. LeftApart(c)'
    <3>1. QueuesApart(c)
      BY DEF MsgInv, ConnectorsApart
    <3> QED
      BY <3>1, JoinKeepsMsgs DEF QueuesApart, LeftApart, LeftToSend, LeftWithoutAck
  <2>3. QueuesApart(c)' /\ Apart(AckWaitQueue[c])'
    <3>1. Working(c)' = {} /\ AckWaitQueue'[c] = <<>>
      BY JoinKeepsMsgs, ZenonT(60)
    <3>2. Apart(AckWaitQueue[c])'
      BY <3>1, FlattenEmpty
    <3> QED
      BY <3>1, <3>2 DEF QueuesApart, Working
  <2> QED
    BY <2>1, <2>2, <2>3 DEF ConnectorsApart
<1>6. QueuesOwned'
  BY <1>1, <1>2 DEF MsgInv, QueuesOwned
<1>7. MsgsApart'
  BY <1>1, <1>3, <1>4 DEF MsgInv, MsgsApart
<1>8. \A m \in Msgs : msgState'[m] = "Absent" <=> msgState[m] = "Absent"
  <2>1. InputQueue[c] \subseteq Working(c) /\ "SendWait" # "Absent"
    BY DEF Working
  <2> QED
    BY <1>1, <2>1, EnterKnown
<1>9. Accounted'
  BY <1>1, <1>4, <1>8 DEF MsgInv, Accounted
<1>10. UNCHANGED HeldMsgs
  BY <1>1, <1>4, HeldInConnectors, HeldNext
<1> QED
  BY <1>1, <1>5, <1>6, <1>7, <1>9, <1>10 DEF MsgInv
==============================================================================
