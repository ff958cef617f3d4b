-------------------------- MODULE RouterStateProofs --------------------------
(***************************************************************************)
(* Theorems about the states of the messages of RouterThread, for any      *)
(* number of brokers, messages and restarts: they tell where the messages  *)
(* are and, when the router thread has been joined, that each has come to  *)
(* an end.                                                                 *)
(***************************************************************************)
EXTENDS RouterMsgProofs

-----------------------------------------------------------------------------
(* Every step keeps the states right.                                      *)

(* Steps of connectors: they are of the kind ConnectorStates.              *)
LEMMA ConnectorKeepsStates ==
  ASSUME RouterInv, MsgInv, StatesMatch, NEW c \in Brokers, ConnectorStep(c)
  PROVE  StatesMatch'
<1> USE DEF RouterInv
<1>1. PICK A, D, L : ConnectorMoves(c, A, D, L)
  BY ConnectorMovesMsgs
<1>2. ConnectorStates(c)
  BY ConnectorStatesHold
<1>3. /\ \A d \in Brokers \ {c} : /\ Waiting(d)' = Waiting(d)
                                  /\ Flatten(AckWaitQueue[d])' = Flatten(AckWaitQueue[d])
      /\ SendWaitAfterShutdown' = SendWaitAfterShutdown
      /\ NoAckAfterShutdown' = NoAckAfterShutdown
      /\ delivered' = delivered \cup A /\ discarded' = discarded \cup D
      /\ destroyed' = destroyed \cup L
      /\ A \subseteq Working(c) /\ D \subseteq Working(c) /\ L \subseteq Working(c)
      /\ Working(c)' \subseteq Working(c)
  BY <1>1 DEF ConnectorMoves, Waiting
<1>4. ASSUME NEW d \in Brokers \ {c}, NEW m \in Waiting(d) \cup Flatten(AckWaitQueue[d])
      PROVE  m \notin Working(c)
  <2>1. m \in Working(d)
    BY <1>4 DEF Waiting, Working
  <2> QED
    BY <2>1 DEF MsgInv, MsgsApart
<1>5. ASSUME NEW d \in Brokers, NEW m \in Left(d) PROVE m \notin Working(c)
  BY <1>5, FreeIsApart DEF Free
<1>6. Waiting(c)' \subseteq Working(c) /\ Flatten(AckWaitQueue[c])' \subseteq Working(c)
  BY <1>3 DEF Waiting, Working
<1>7. ASSUME NEW m \in Msgs
      PROVE  /\ msgState'[m] = "Processed" <=> m \in delivered' \cup discarded'
             /\ msgState'[m] = "AckWait" =>
                 \/ m \in destroyed'
                 \/ \E d \in Brokers : m \in Flatten(AckWaitQueue[d])' \cup NoAckAfterShutdown'[d]
  <2>1. CASE m \in Working(c)
    BY <1>2, <2>1 DEF ConnectorStates
  <2>2. CASE m \notin Working(c)
    <3>1. msgState'[m] = msgState[m]
      BY <1>2, <2>2 DEF ConnectorStates
    <3>2. m \notin Flatten(AckWaitQueue[c])
      BY <2>2 DEF Working
    <3> QED
      BY <1>3, <2>2, <3>1, <3>2 DEF StatesMatch
  <2> QED
    BY <2>1, <2>2
<1>8. ASSUME NEW m \in Msgs, NEW d \in Brokers
      PROVE  /\ m \in Flatten(AckWaitQueue[d])' => msgState'[m] = "AckWait"
             /\ m \in Waiting(d)' \cup SendWaitAfterShutdown'[d] => msgState'[m] = "SendWait"
  <2>1. ASSUME m \in SendWaitAfterShutdown[d] PROVE msgState'[m] = "SendWait"
    <3>1. m \notin Working(c)
      BY <1>5, <2>1 DEF Left
    <3> QED
      BY <1>2, <2>1, <3>1 DEF ConnectorStates, StatesMatch
  <2>2. CASE d = c
    BY <1>2, <1>3, <1>6, <2>1, <2>2 DEF ConnectorStates
  <2>3. CASE d # c
    BY <1>2, <1>3, <1>4, <2>1, <2>3 DEF ConnectorStates, StatesMatch
  <2> QED
    BY <2>2, <2>3
<1> QED
  BY <1>7, <1>8 DEF StatesMatch

(* Routing and discarding keep the states right.                           *)
LEMMA RouterKeepsStates ==
  ASSUME TypeOK, MsgInv, StatesMatch, NEW In, NEW D, RouterMoves(In, D)
  PROVE  StatesMatch'
<1>1. /\ StateMoves(D) /\ D \subseteq Free
      /\ delivered' = delivered /\ discarded' = discarded \cup D /\ destroyed' = destroyed
      /\ \A c \in Brokers : /\ Flatten(AckWaitQueue[c])' = Flatten(AckWaitQueue[c])
                            /\ Waiting(c)' = Waiting(c)
                            /\ SendWaitAfterShutdown'[c] = {}
  BY DEF RouterMoves, Waiting
<1>2. \A m \in Free : m \notin delivered \cup discarded \cup destroyed
  BY FreeIsApart
<1>3. ASSUME NEW m \in Msgs, NEW c \in Brokers, m \in Waiting(c) \cup Flatten(AckWaitQueue[c])
      PROVE  msgState'[m] = msgState[m]
  <2>1. m \in Working(c)
    BY <1>3 DEF Waiting, Working
  <2>2. m \notin Free
    BY <2>1, FreeIsApart
  <2> QED
    BY <1>1, <2>2 DEF StateMoves
<1>4. ASSUME NEW m \in Msgs
      PROVE  msgState'[m] = "Processed" <=> m \in delivered' \cup discarded'
  BY <1>1, <1>2 DEF StateMoves, StatesMatch
<1>5. ASSUME NEW m \in Msgs, msgState'[m] = "AckWait"
      PROVE  m \in destroyed' \/ \E c \in Brokers : m \in Flatten(AckWaitQueue[c])'
  <2>1. msgState[m] = "AckWait" /\ \A c \in Brokers : m \notin Left(c)
    BY <1>1, <1>5 DEF StateMoves
  <2>2. \A c \in Brokers : m \notin NoAckAfterShutdown[c]
    BY <2>1 DEF Left
  <2> QED
    BY <1>1, <2>1, <2>2 DEF StatesMatch
<1>6. ASSUME NEW m \in Msgs, NEW c \in Brokers
      PROVE  /\ m \in Flatten(AckWaitQueue[c])' => msgState'[m] = "AckWait"
             /\ m \in Waiting(c)' \cup SendWaitAfterShutdown'[c] => msgState'[m] = "SendWait"
  BY <1>1, <1>3 DEF StatesMatch
<1> QED
  BY <1>4, <1>5, <1>6 DEF StatesMatch

(* Every step does.                                                        *)
LEMMA StatesNext ==
  ASSUME RouterInv, MsgInv, StatesMatch, [Next]_vars
  PROVE  StatesMatch'
<1> USE DEF RouterInv
<1>0. msgState \in [Msgs -> MsgStates]
  BY DEF TypeOK, DispatcherTypeOK
<1>1. CASE QuietStep
  <2>1. UNCHANGED placeVars
    BY <1>1, QuietSteps
  <2>2. UNCHANGED <<RequestFactory, CurrentRequest, AckWaitQueue, GotAckAfterPause,
                    NoAckAfterPause, SendWaitAfterShutdown, NoAckAfterShutdown, msgState,
                    delivered, discarded, destroyed>>
    BY <2>1 DEF placeVars, queueVars, msgVars
  <2> QED
    BY <2>2 DEF StatesMatch, Waiting
<1>2. CASE MovingStep
  <2>1. PICK In, D : RouterMoves(In, D)
    BY <1>2, MovingSteps
  <2> QED
    BY <2>1, RouterKeepsStates
<1>3. ASSUME NEW n \in Msgs, NewMsg(n) PROVE StatesMatch'
  <2>1. /\ UNCHANGED <<RequestFactory, CurrentRequest, AckWaitQueue, GotAckAfterPause,
                       NoAckAfterPause, SendWaitAfterShutdown, NoAckAfterShutdown,
                       delivered, discarded, destroyed>>
        /\ msgState[n] = "Absent" /\ msgState' = Enter({n}, "New")
    BY <1>3 DEF NewMsg, queueVars
  <2>2. \A m \in Msgs : msgState'[m] = IF m = n THEN "New" ELSE msgState[m]
    BY <2>1 DEF Enter
  <2>3. \A c \in Brokers : Waiting(c)' = Waiting(c)
    BY <2>1 DEF Waiting
  <2> QED
    BY <2>1, <2>2, <2>3, ZenonT(60) DEF StatesMatch
<1>4. ASSUME NEW c \in Brokers, JoinNext(c) PROVE StatesMatch'
  <2>1. /\ UNCHANGED <<delivered, discarded, destroyed>>
        /\ \A m \in Msgs : msgState'[m] = IF m \in InputQueue[c] THEN "SendWait"
                                                                 ELSE msgState[m]
    BY <1>4 DEF JoinNext, JoinConnector, Enter
  <2>2. /\ \A d \in Brokers \ {c} :
             /\ Waiting(d)' = Waiting(d) /\ AckWaitQueue'[d] = AckWaitQueue[d]
             /\ SendWaitAfterShutdown'[d] = SendWaitAfterShutdown[d]
             /\ NoAckAfterShutdown'[d] = NoAckAfterShutdown[d]
        /\ SendWaitAfterShutdown'[c] = LeftToSend(c) /\ NoAckAfterShutdown'[c] = LeftWithoutAck(c)
        /\ AckWaitQueue'[c] = <<>> /\ Working(c)' = {}
    BY <1>4, JoinKeepsMsgs DEF Waiting
  <2>3. Waiting(c)' = {} /\ Flatten(AckWaitQueue[c])' = {}
    BY <2>2, FlattenEmpty, ZenonT(60) DEF Waiting, Working
  <2>4. \A m \in Working(c) : /\ m \in Msgs /\ m \notin delivered \cup discarded \cup destroyed
                              /\ msgState[m] # "Processed"
                              /\ msgState[m] = "AckWait" => m \in Flatten(AckWaitQueue[c])
    BY WorkingStates
  <2>5. ASSUME NEW m \in LeftToSend(c) PROVE m \in InputQueue[c] \cup Waiting(c)
    BY DEF LeftToSend, Waiting
  <2>6. Flatten(AckWaitQueue[c]) \subseteq NoAckAfterShutdown'[c]
    BY <2>2 DEF LeftWithoutAck
  <2>7. ASSUME NEW m \in Msgs, NEW d \in Brokers \ {c},
               m \in Waiting(d) \cup Flatten(AckWaitQueue[d]) \cup SendWaitAfterShutdown[d]
        PROVE  m \notin InputQueue[c]
    <3>1. m \in Working(d) \cup Left(d)
      BY <2>7 DEF Waiting, Working, Left
    <3>2. m \notin Working(c)
      BY <3>1 DEF MsgInv, MsgsApart
    <3> QED
      BY <3>2 DEF Working
  <2>8. InputQueue[c] \subseteq Working(c)
    BY DEF Working
  <2>9. ASSUME NEW m \in Msgs
        PROVE  msgState'[m] = "Processed" <=> m \in delivered' \cup discarded'
    BY <2>1, <2>4, <2>8 DEF StatesMatch
  <2>10. ASSUME NEW m \in Msgs, msgState'[m] = "AckWait"
         PROVE  \/ m \in destroyed'
                \/ \E d \in Brokers : m \in Flatten(AckWaitQueue[d])' \cup NoAckAfterShutdown'[d]
    <3>1. msgState[m] = "AckWait"
      BY <2>1, <2>10
    <3>2. CASE m \in destroyed
      BY <2>1, <3>2
    <3>3. ASSUME NEW d \in Brokers, m \in Flatten(AckWaitQueue[d]) \cup NoAckAfterShutdown[d]
          PROVE  m \in Flatten(AckWaitQueue[d])' \cup NoAckAfterShutdown'[d]
      <4>1. CASE d = c
        <5>1. Left(c) = {}
          BY <1>4, JoinKeepsMsgs
        <5> QED
          BY <2>6, <3>3, <4>1, <5>1 DEF Left
      <4>2. CASE d # c
        BY <2>2, <3>3, <4>2
      <4> QED
        BY <4>1, <4>2
    <3> QED
      BY <3>1, <3>2, <3>3 DEF StatesMatch
  <2>11. ASSUME NEW m \in Msgs, NEW d \in Brokers
         PROVE  /\ m \in Flatten(AckWaitQueue[d])' => msgState'[m] = "AckWait"
                /\ m \in Waiting(d)' \cup SendWaitAfterShutdown'[d] => msgState'[m] = "SendWait"
    <3>1. CASE d = c
      BY <2>1, <2>2, <2>3, <2>5, <3>1 DEF StatesMatch
    <3>2. CASE d # c
      BY <2>1, <2>2, <2>7, <3>2 DEF StatesMatch
    <3> QED
      BY <3>1, <3>2
  <2> QED
    BY <2>9, <2>10, <2>11 DEF StatesMatch
<1>5. ASSUME NEW c \in Brokers, ConnectorStep(c), UNCHANGED <<routerVars, serverVars>>
      PROVE  StatesMatch'
  BY <1>5, ConnectorKeepsStates
<1> QED
  BY <1>1, <1>2, <1>3, <1>4, <1>5, StepKinds, ZenonT(60)

-----------------------------------------------------------------------------
(* The end.                                                                *)

(* What is left when the router thread is at its end.                      *)
EndIsEmpty ==
  /\ rpc = "init" => PerTopicBatcher = {}
  /\ rpc \in {"end", "joined"} =>
       /\ PerTopicBatcher = {}
       /\ ~CompareMetadataOnRefresh => \A c \in Brokers : Working(c) = {}
  /\ rpc = "joined" => stopping /\ MsgChannel = {}

(* Every step keeps this: nothing enters a place that is empty for good.   *)
LEMMA EndNext ==
  ASSUME RouterInv, MsgInv, EndIsEmpty, [Next]_vars
  PROVE  EndIsEmpty'
<1> USE DEF RouterInv
<1>1. CASE QuietStep
  <2>1. ControlMoves /\ UNCHANGED placeVars
    BY <1>1, QuietSteps
  <2>2. /\ UNCHANGED <<MsgChannel, PerTopicBatcher>> /\ \A c \in Brokers : Working(c)' = Working(c)
    BY <2>1 DEF placeVars, queueVars, Working
  <2>3. stopping => stopping'
    <3>1. UNCHANGED serverVars \/ RequestShutdown \/ RequestMetadataUpdate
      BY <1>1, ZenonT(60)
      DEF QuietStep, Poll, SendShutdown, AwaitAck, ShutdownBegun, FetchMetadata, JoinedAll,
          HandleShutdownFinished, HandlePause, HandleMetadataUpdate, vars, routerVars
    <3> QED
      BY <3>1, ZenonT(60) DEF RequestShutdown, RequestMetadataUpdate, serverVars
  <2> QED
    BY <2>1, <2>2, <2>3 DEF EndIsEmpty, ControlMoves
<1>2. CASE MovingStep
  <2>1. CASE DiscardAndEnd /\ rpc = "restart"
    <3>1. \A c \in Brokers : Working(c) = {}
      BY <2>1 DEF MsgInv, QueuesOwned
    <3>2. \A c \in Brokers : Working(c)' = {}
      BY <2>1, <3>1, ZenonT(60) DEF DiscardAndEnd, Working
    <3> QED
      BY <2>1, <3>2 DEF DiscardAndEnd, EndIsEmpty
  <2>2. CASE rpc' \notin {"init", "end", "joined"}
    BY <2>2 DEF EndIsEmpty
  <2>3. CASE StartUp
    <3>1. rpc = "init" /\ UNCHANGED PerTopicBatcher /\ rpc' \in {"poll", "end"}
      BY <2>3 DEF StartUp
    <3>2. CASE rpc' = "end"
      <4>1. UNCHANGED queueVars
        BY <2>3, <3>2 DEF StartUp
      <4>2. \A c \in Brokers : Working(c)' = Working(c)
        BY <4>1 DEF queueVars, Working
      <4> QED
        BY <3>1, <3>2, <4>2 DEF EndIsEmpty, MsgInv, QueuesOwned
    <3> QED
      BY <2>2, <3>1, <3>2
  <2>4. CASE ContinueShutdown
    BY <2>2, <2>4 DEF ContinueShutdown, BeginShutdown
  <2>5. CASE FinishPause \/ FinishRefresh \/ FinishRouter
    BY <2>1, <2>2, <2>5, ZenonT(60) DEF FinishPause, FinishRefresh, FinishRouter
  <2>6. CASE HandleMessages
    BY <2>2, <2>6 DEF HandleMessages
  <2>7. CASE JoinRouter
    <3>1. UNCHANGED <<queueVars, PerTopicBatcher, stopping>> /\ rpc = "end" /\ stopping
            /\ rpc' = "joined" /\ MsgChannel' = {}
      BY <2>7 DEF JoinRouter, serverVars
    <3>2. \A c \in Brokers : Working(c)' = Working(c)
      BY <3>1 DEF queueVars, Working
    <3> QED
      BY <3>1, <3>2 DEF EndIsEmpty
  <2>8. CASE HandleMetadataUpdate /\ DiscardAndEnd
    <3>1. rpc = "events" /\ rpc' = "end" /\ PerTopicBatcher' = {}
      BY <2>8 DEF HandleMetadataUpdate, DiscardAndEnd
    <3>2. ASSUME ~CompareMetadataOnRefresh PROVE FALSE
      BY <2>8, <3>1, <3>2 DEF HandleMetadataUpdate, BeginShutdown
    <3> QED
      BY <3>1, <3>2 DEF EndIsEmpty
  <2> QED
    BY <1>2, <2>3, <2>4, <2>5, <2>6, <2>7, <2>8, ZenonT(60) DEF MovingStep
<1>3. ASSUME NEW m \in Msgs, NewMsg(m) PROVE EndIsEmpty'
  <2>1. ~stopping /\ UNCHANGED <<rpc, PerTopicBatcher, queueVars>>
    BY <1>3 DEF NewMsg
  <2>2. \A c \in Brokers : Working(c)' = Working(c)
    BY <2>1, ZenonT(60) DEF queueVars, Working
  <2> QED
    BY <2>1, <2>2 DEF EndIsEmpty
<1>4. ASSUME NEW c \in Brokers, JoinNext(c) PROVE EndIsEmpty'
  BY <1>4 DEF JoinNext, EndIsEmpty
<1>5. ASSUME NEW c \in Brokers, ConnectorStep(c), UNCHANGED <<routerVars, serverVars>>
      PROVE  EndIsEmpty'
  <2>1. PICK A, D, L : ConnectorMoves(c, A, D, L)
    BY <1>5, ConnectorMovesMsgs
  <2>2. \A d \in Brokers : Working(d)' \subseteq Working(d)
    <3>1. Working(c)' \subseteq Working(c)
      BY <2>1 DEF ConnectorMoves
    <3>2. ASSUME NEW d \in Brokers \ {c} PROVE Working(d)' = Working(d)
      BY <2>1 DEF ConnectorMoves, Working
    <3> QED
      BY <3>1, <3>2
  <2>3. UNCHANGED <<rpc, PerTopicBatcher, MsgChannel, stopping>>
    BY <1>5 DEF routerVars, serverVars
  <2> QED
    BY <2>2, <2>3 DEF EndIsEmpty
<1> QED
  BY <1>1, <1>2, <1>3, <1>4, <1>5, StepKinds, ZenonT(60)

(* At the join, whatever was not delivered, discarded or destroyed would   *)
(* have to be in a place that is empty by then.                            *)
LEMMA MatchedAtEnd ==
  ASSUME ~CompareMetadataOnRefresh, MsgInv, StatesMatch, EndIsEmpty
  PROVE  StateMatchesPlace
<1>1. ASSUME NEW m \in Msgs, rpc = "joined"
      PROVE  msgState[m] \in {"Absent", "Processed"} \/ m \in destroyed
  <2>1. \A c \in Brokers : Working(c) = {}
    BY <1>1 DEF EndIsEmpty
  <2>2. \A c \in Brokers : Left(c) = {}
    BY <1>1 DEF MsgInv, QueuesOwned
  <2>3. InConnectors = {} /\ MsgChannel = {} /\ PerTopicBatcher = {}
    BY <1>1, <2>1, <2>2 DEF InConnectors, EndIsEmpty
  <2> QED
    BY <2>3 DEF MsgInv, Accounted, StatesMatch
<1> QED
  BY <1>1 DEF StatesMatch, StateMatchesPlace, Waiting

(* The states of TMsgStateTracker and the lists agree, with or without     *)
(* CompareMetadataOnRefresh: in particular a message is Processed exactly  *)
(* when it was delivered or discarded.                                     *)
THEOREM StatesAlwaysMatch == Spec => [](MsgInv /\ StatesMatch /\ EndIsEmpty)
<1>1. Init => MsgInv /\ StatesMatch /\ EndIsEmpty
  <2> SUFFICES ASSUME Init PROVE MsgInv /\ StatesMatch /\ EndIsEmpty
    OBVIOUS
  <2>1. /\ MsgInv /\ rpc = "init" /\ PerTopicBatcher = {} /\ delivered = {} /\ discarded = {}
        /\ \A m \in Msgs : msgState[m] = "Absent"
    BY MsgInit DEF Init, DispatcherInit
  <2>2. \A c \in Brokers : Waiting(c) = {} /\ SendWaitAfterShutdown[c] = {}
                             /\ AckWaitQueue[c] = <<>>
    BY DEF Init, DispatcherInit, NoMsgs, Waiting
  <2>3. \A c \in Brokers : Flatten(AckWaitQueue[c]) = {}
    BY <2>2, FlattenEmpty, ZenonT(60)
  <2> QED
    BY <2>1, <2>2, <2>3 DEF StatesMatch, EndIsEmpty
<1>2. RouterInv /\ MsgInv /\ StatesMatch /\ EndIsEmpty /\ [Next]_vars
        => MsgInv' /\ StatesMatch' /\ EndIsEmpty'
  BY MsgNext, StatesNext, EndNext
<1> QED
  BY <1>1, <1>2, Invariance, PTL DEF Spec

(* So StateMatchesPlace holds, its clause on the joined router included:   *)
(* each message has come to an end when the main thread has joined the     *)
(* router.  With CompareMetadataOnRefresh the router can end while         *)
(* connectors still work (see DispatcherStoppedAtEnd), so this is about    *)
(* servers that run without it.                                            *)
THEOREM StatesMatchPlaces ==
  ASSUME ~CompareMetadataOnRefresh
  PROVE  Spec => []StateMatchesPlace
<1>1. MsgInv /\ StatesMatch /\ EndIsEmpty => StateMatchesPlace
  BY MatchedAtEnd
<1> QED
  BY <1>1, StatesAlwaysMatch, PTL
==============================================================================
