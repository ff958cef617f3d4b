------------------------- MODULE RouterThreadProofs --------------------------
(***************************************************************************)
(* Theorems about RouterThread, for any number of brokers and messages:    *)
(* its variables keep their types, no connector ends unnoticed, and the    *)
(* end of the last connector is announced exactly when it happens, so that *)
(* the assertions of JoinAll, Start and MarkAllThreadsRunning hold.        *)
(***************************************************************************)
EXTENDS RouterThread, FiniteSetTheorems, TLAPS

-----------------------------------------------------------------------------
(* The inductive invariant.                                                *)

(* A connector that reads responses has a request that waits for one.      *)
ReadHasRequest ==
  \A c \in Brokers : thread[c] = "read" => AckWaitQueue[c] # <<>>

(* RunningThreadCount counts the connector threads that have yet to call   *)
(* MarkThreadFinished.                                                     *)
RunningStates == {"connect", "loop", "read", "done"}
RunningThreads == {c \in Brokers : thread[c] \in RunningStates}
ThreadsCounted == RunningThreadCount = Cardinality(RunningThreads)

(* Only the connectors of the current dispatcher have threads, and while   *)
(* they are being joined only those not yet visited.                       *)
ThreadsOwned ==
  \A c \in Brokers :
    thread[c] # "absent" => c \in Connectors /\ (rpc = "join" => c \in todo)

(* A connector that is shutting down or has finished was told to, or the   *)
(* pause button is pressed; and a request comes with a command.            *)
ExitExplained ==
  \A c \in Brokers :
    /\ thread[c] # "absent" /\ (Finished(c) \/ OptInProgressShutdown[c] # "none")
         => PauseButton \/ OptShutdownCmd[c].cmd # "none"
    /\ ShutdownRequested[c] > 0 => OptShutdownCmd[c].cmd # "none"

(* The announcement follows the count; without connectors it is made by    *)
(* the shutdown itself.                                                    *)
AnnouncedAtZero ==
  /\ State # "Stopped" /\ Connectors # {} =>
       (ShutdownFinished > 0 <=> RunningThreadCount = 0)
  /\ rpc \in {"fetch", "join"} /\ Connectors = {} => ShutdownFinished > 0

(* A stopped dispatcher is as Start expects it, and where it is stopped.   *)
StoppedIsClean ==
  /\ State = "Stopped" =>
       /\ ~PauseButton /\ ShutdownFinished = 0
       /\ \A c \in Brokers : thread[c] = "absent"
  /\ rpc \in {"init", "restart"} => State = "Stopped"
  /\ rpc \in {"poll", "events", "send", "ack", "fetch", "join"} => State # "Stopped"

(* The router sees the announcement only when there is one.                *)
SeenIfAnnounced ==
  "ShutdownFinished" \in revents =>
    \/ rpc = "events" /\ ShutdownFinished > 0
    \/ rpc \in {"join", "restart", "end", "joined"} /\ task = "finish"

RouterInv ==
  /\ TypeOK
  /\ ReadHasRequest
  /\ ThreadsCounted
  /\ ThreadsOwned
  /\ ExitExplained
  /\ AnnouncedAtZero
  /\ StoppedIsClean
  /\ SeenIfAnnounced
  /\ PauseMeansFastShutdown

-----------------------------------------------------------------------------
(* The connector threads.                                                  *)

(* Running the handlers of a connector thread leaves every variable of the *)
(* dispatcher with its type.                                               *)
LEMMA ConnectorTypes ==
  ASSUME DispatcherTypeOK, ReadHasRequest, NEW c \in Brokers, ConnectorStep(c),
         thread[c] = "done" => RunningThreadCount > 0
  PROVE  DispatcherTypeOK'
<1>1. CASE ConnectToBroker(c)
  BY <1>1, ZenonT(60)
  DEF ConnectToBroker, DispatcherTypeOK, PauseAndLeave, connectorUnchanged, queueVars,
      msgVars, ThreadStates
<1>2. CASE FinishShutdown(c)
  BY <1>2 DEF FinishShutdown, DispatcherTypeOK, sharedVars, queueVars, msgVars, ThreadStates
<1>3. CASE SocketTimeout(c)
  BY <1>3 DEF SocketTimeout, DispatcherTypeOK, PauseAndLeave, connectorUnchanged, queueVars, msgVars, ThreadStates
<1>4. CASE HandleShutdownRequest(c)
  <2>1. /\ RequestFactory' \in [Brokers -> SUBSET Msgs]
        /\ InputQueue' \in [Brokers -> SUBSET Msgs]
        /\ msgState' \in [Msgs -> MsgStates]
        /\ OptInProgressShutdown' \in [Brokers -> ShutdownKinds]
    <3>1. CASE OptShutdownCmd[c].cmd = "fast"
      BY <1>4, <3>1, ZenonT(60) DEF HandleShutdownRequest, DispatcherTypeOK, ShutdownKinds
    <3>2. CASE OptShutdownCmd[c].cmd # "fast"
      <4>1. RequestFactory[c] \cup InputQueue[c] \in SUBSET Msgs
        BY DEF DispatcherTypeOK
      <4>2. RequestFactory' \in [Brokers -> SUBSET Msgs]
        BY <1>4, <3>2, <4>1, ZenonT(60) DEF HandleShutdownRequest, DispatcherTypeOK
      <4>3. SlowShutdownState(OptInProgressShutdown[c]) \in ShutdownKinds
        BY DEF SlowShutdownState, DispatcherTypeOK, ShutdownKinds
      <4>4. OptInProgressShutdown' \in [Brokers -> ShutdownKinds]
        <5>1. OptInProgressShutdown' =
                [OptInProgressShutdown EXCEPT ![c] = SlowShutdownState(@)]
          BY <1>4, <3>2, ZenonT(60) DEF HandleShutdownRequest
        <5>2. OptInProgressShutdown \in [Brokers -> ShutdownKinds]
          BY DEF DispatcherTypeOK
        <5> QED
          BY <4>3, <5>1, <5>2, ZenonT(60)
      <4>5. InputQueue' \in [Brokers -> SUBSET Msgs]
        BY <1>4, <3>2, ZenonT(60) DEF HandleShutdownRequest, DispatcherTypeOK
      <4>6. msgState' \in [Msgs -> MsgStates]
        <5>1. msgState \in [Msgs -> MsgStates]
          BY DEF DispatcherTypeOK
        <5>2. msgState' = Enter(InputQueue[c], "SendWait")
          BY <1>4, <3>2 DEF HandleShutdownRequest
        <5> QED
          BY <5>1, <5>2 DEF Enter, MsgStates
      <4> QED
        BY <4>2, <4>4, <4>5, <4>6
    <3> QED
      BY <3>1, <3>2
  <2>2. ShutdownRequested' \in [Brokers -> Nat] /\ ShutdownAck' \in [Brokers -> Nat]
    BY <1>4 DEF HandleShutdownRequest, DispatcherTypeOK
  <2> QED
    BY <1>4, <2>1, <2>2, SMTT(60) DEF HandleShutdownRequest, DispatcherTypeOK, sharedVars
<1>5. CASE HandlePauseDetected(c)
  BY <1>5 DEF HandlePauseDetected, DispatcherTypeOK, sharedVars, queueVars, msgVars, ShutdownKinds
<1>6. CASE CheckInputQueue(c)
  BY <1>6, SMTT(60)
  DEF CheckInputQueue, DispatcherTypeOK, sharedVars, controlVars, Enter, MsgStates
<1>7. CASE HandleSockWriteReady(c)
  <2>1. PICK R \in IF SendInProgress(c) THEN {CurrentRequest[c]}
                   ELSE SUBSET RequestFactory[c] \ {{}} :
               HandleSockWriteReady(c)!3!(R)
    BY <1>7, ZenonT(60) DEF HandleSockWriteReady
  <2>2. R \in SUBSET Msgs
    BY <2>1 DEF DispatcherTypeOK
  <2>3. /\ RequestFactory' \in [Brokers -> SUBSET Msgs]
        /\ CurrentRequest' \in [Brokers -> SUBSET Msgs]
    BY <2>1, <2>2, ZenonT(60) DEF DispatcherTypeOK
  <2>4. AckWaitQueue' \in [Brokers -> Seq(SUBSET Msgs)]
    <3>1. Append(AckWaitQueue[c], R) \in Seq(SUBSET Msgs)
      BY <2>2 DEF DispatcherTypeOK
    <3> QED
      BY <2>1, <3>1, ZenonT(60) DEF DispatcherTypeOK
  <2>5. msgState' \in [Msgs -> MsgStates] /\ unacked' \subseteq Msgs
    BY <2>1, <2>2 DEF DispatcherTypeOK, Enter, MsgStates
  <2>6. thread' \in [Brokers -> ThreadStates] /\ PauseButton' \in BOOLEAN
    BY <2>1, ZenonT(60) DEF DispatcherTypeOK, PauseAndLeave, ThreadStates
  <2> QED
    BY <1>7, <2>3, <2>4, <2>5, <2>6, SMTT(60)
    DEF HandleSockWriteReady, DispatcherTypeOK, connectorUnchanged
<1>8. CASE HandleSockReadReady(c)
  BY <1>8, ZenonT(60)
  DEF HandleSockReadReady, DispatcherTypeOK, PauseAndLeave, connectorUnchanged, queueVars,
      msgVars, ThreadStates
<1>9. CASE ProcessSingleProduceResponse(c)
  <2>1. PICK A \in SUBSET Head(AckWaitQueue[c]), kind \in {"complete", "mismatch", "bad"} :
        \E ack \in [A -> AckActions] : ProcessSingleProduceResponse(c)!2!(A, kind)!(ack)
    BY <1>9, ZenonT(60) DEF ProcessSingleProduceResponse
  <2>2. PICK ack \in [A -> AckActions] : ProcessSingleProduceResponse(c)!2!(A, kind)!(ack)
    BY <2>1
  <2>3. AckWaitQueue[c] # <<>>
    BY <1>9 DEF ReadHasRequest, ProcessSingleProduceResponse
  <2>4. Head(AckWaitQueue[c]) \in SUBSET Msgs /\ Tail(AckWaitQueue[c]) \in Seq(SUBSET Msgs)
    BY <2>3 DEF DispatcherTypeOK
  <2>5. /\ thread' \in [Brokers -> ThreadStates] /\ PauseButton' \in BOOLEAN
        /\ PauseInProgress' \in [Brokers -> BOOLEAN]
        /\ OptInProgressShutdown' \in [Brokers -> ShutdownKinds]
    <3>1. PauseAck(A, ack) \in BOOLEAN
      BY DEF PauseAck
    <3>2. CASE kind = "complete"
      <4>1. (PauseInProgress[c] \/ PauseAck(A, ack)) \in BOOLEAN
        BY DEF DispatcherTypeOK
      <4>2. (IF PauseAck(A, ack) THEN "fast" ELSE OptInProgressShutdown[c]) \in ShutdownKinds
        BY DEF DispatcherTypeOK, ShutdownKinds
      <4>3. PauseInProgress' \in [Brokers -> BOOLEAN]
        BY <2>2, <3>2, <4>1, ZenonT(60) DEF DispatcherTypeOK
      <4>4. OptInProgressShutdown' \in [Brokers -> ShutdownKinds]
        BY <2>2, <3>2, <4>2, ZenonT(60) DEF DispatcherTypeOK
      <4>5. thread' \in [Brokers -> ThreadStates]
        BY <2>2, <3>2, ZenonT(60) DEF DispatcherTypeOK, PauseAndLeave, ThreadStates
      <4>6. PauseButton' \in BOOLEAN
        BY <2>2, <3>2, ZenonT(60) DEF PauseAndLeave
      <4> QED
        BY <4>3, <4>4, <4>5, <4>6
    <3>3. CASE kind # "complete"
      BY <2>2, <3>3, ZenonT(60) DEF DispatcherTypeOK, PauseAndLeave, ThreadStates
    <3> QED
      BY <3>2, <3>3
  <2>6. ProcessResponse(c, A, ack, kind)
    BY <2>2
  <2>7. A \subseteq Msgs /\ Head(AckWaitQueue[c]) \ A \subseteq Msgs
    BY <2>4
  <2>8. /\ Resendable(A, ack) \subseteq Msgs /\ PauseResendable(A, ack) \subseteq Msgs
        /\ DiscardedByAck(A, ack) \subseteq Msgs /\ Acked(A, ack, "Ok") \subseteq Msgs
        /\ NoAckMsgs(Head(AckWaitQueue[c]) \ A, kind) \subseteq Msgs
        /\ DestroyedMsgs(Head(AckWaitQueue[c]) \ A, kind) \subseteq Msgs
    BY <2>7 DEF Resendable, PauseResendable, DiscardedByAck, Acked, BelowAttemptLimit,
                NoAckMsgs, DestroyedMsgs
  <2>9. /\ AckWaitQueue' \in [Brokers -> Seq(SUBSET Msgs)]
        /\ RequestFactory' \in [Brokers -> SUBSET Msgs]
        /\ GotAckAfterPause' \in [Brokers -> SUBSET Msgs]
        /\ NoAckAfterPause' \in [Brokers -> SUBSET Msgs]
    BY <2>4, <2>6, <2>8, ZenonT(60) DEF DispatcherTypeOK, ProcessResponse
  <2>10. /\ msgState' \in [Msgs -> MsgStates] /\ attempts' \in [Msgs -> Nat]
         /\ delivered' \subseteq Msgs /\ discarded' \subseteq Msgs
         /\ destroyed' \subseteq Msgs /\ unacked' \subseteq Msgs
    <3>1. /\ msgState \in [Msgs -> MsgStates] /\ attempts \in [Msgs -> Nat]
          /\ delivered \subseteq Msgs /\ discarded \subseteq Msgs
          /\ destroyed \subseteq Msgs /\ unacked \subseteq Msgs
      BY DEF DispatcherTypeOK
    <3>2. attempts' \in [Msgs -> Nat]
      BY <2>6, <3>1 DEF ProcessResponse
    <3>3. msgState' \in [Msgs -> MsgStates]
      BY <2>6, <3>1 DEF ProcessResponse, MsgStates
    <3> QED
      BY <2>6, <2>8, <3>1, <3>2, <3>3, ZenonT(60) DEF ProcessResponse
  <2> QED
    BY <1>9, <2>5, <2>9, <2>10, SMTT(60)
    DEF ProcessSingleProduceResponse, DispatcherTypeOK, connectorUnchanged
<1>10. CASE MarkThreadFinished(c)
  BY <1>10 DEF MarkThreadFinished, DispatcherTypeOK, queueVars, msgVars, ThreadStates
<1>11. CASE Terminate(c)
  BY <1>11, SMTT(60)
  DEF Terminate, DispatcherTypeOK, sharedVars, queueVars, msgVars, ThreadStates
<1> QED
  BY <1>1, <1>2, <1>3, <1>4, <1>5, <1>6, <1>7, <1>8, <1>9, <1>10, <1>11, ZenonT(60)
  DEF ConnectorStep

(* What a step of connector c does to the control state: it changes only   *)
(* c's own, it starts a shutdown or finishes only with a reason, and it    *)
(* leaves the counting to MarkThreadFinished.                              *)
OnlyOwnControl(c) ==
  /\ UNCHANGED <<State, Connectors, OptShutdownCmd>>
  /\ PauseMeansFastShutdown => PauseMeansFastShutdown'
  /\ PauseButton => PauseButton'
  /\ thread[c] \notin {"absent", "exit"} /\ thread'[c] # "absent"
  /\ \A d \in Brokers \ {c} :
       /\ thread'[d] = thread[d]
       /\ OptInProgressShutdown'[d] = OptInProgressShutdown[d]
       /\ ShutdownRequested'[d] = ShutdownRequested[d]
  /\ ShutdownRequested'[c] > 0 => ShutdownRequested[c] > 0

ExitHasReason(c) ==
  thread'[c] \in {"done", "marked", "exit"} \/ OptInProgressShutdown'[c] # "none" =>
    \/ PauseButton'
    \/ Finished(c) \/ OptInProgressShutdown[c] # "none"
    \/ ShutdownRequested[c] > 0

CountsOnlyAtEnd(c) ==
  \/ MarkThreadFinished(c)
  \/ /\ UNCHANGED <<RunningThreadCount, ShutdownFinished>>
     /\ thread'[c] \in RunningStates <=> thread[c] \in RunningStates

LEMMA ConnectorControl ==
  ASSUME DispatcherTypeOK, NEW c \in Brokers, ConnectorStep(c)
  PROVE  OnlyOwnControl(c) /\ ExitHasReason(c) /\ CountsOnlyAtEnd(c)
<1> USE DEF OnlyOwnControl, ExitHasReason, CountsOnlyAtEnd, RunningStates, Finished,
            PauseMeansFastShutdown
<1>0. /\ thread \in [Brokers -> ThreadStates] /\ ShutdownRequested \in [Brokers -> Nat]
      /\ OptInProgressShutdown \in [Brokers -> ShutdownKinds]
      /\ PauseInProgress \in [Brokers -> BOOLEAN]
  BY DEF DispatcherTypeOK
<1>1. CASE ConnectToBroker(c)
  BY <1>0, <1>1 DEF ConnectToBroker, PauseAndLeave, connectorUnchanged
<1>2. CASE FinishShutdown(c)
  BY <1>0, <1>2 DEF FinishShutdown, sharedVars, PrepareForPoll, NothingUrgent, Polling
<1>3. CASE SocketTimeout(c)
  BY <1>0, <1>3, SMTT(60)
  DEF SocketTimeout, NothingUrgent, Polling, PauseAndLeave, connectorUnchanged
<1>4. CASE HandleShutdownRequest(c)
  BY <1>0, <1>4 DEF HandleShutdownRequest, SlowShutdownState, Polling, sharedVars, ShutdownKinds
<1>5. CASE HandlePauseDetected(c)
  BY <1>0, <1>5 DEF HandlePauseDetected, Polling, PauseDetected, sharedVars
<1>6. CASE CheckInputQueue(c)
  BY <1>0, <1>6 DEF CheckInputQueue, NothingUrgent, Polling, sharedVars, controlVars
<1>7. CASE HandleSockWriteReady(c)
  BY <1>0, <1>7 DEF HandleSockWriteReady, NothingUrgent, Polling, PauseAndLeave, connectorUnchanged
<1>8. CASE HandleSockReadReady(c)
  BY <1>0, <1>8 DEF HandleSockReadReady, NothingUrgent, Polling, PauseAndLeave, connectorUnchanged
<1>9. CASE ProcessSingleProduceResponse(c)
  <2>1. /\ thread[c] = "read"
        /\ UNCHANGED <<connectorUnchanged, ShutdownRequested, OptShutdownCmd>>
        /\ \/ /\ thread' \in {[thread EXCEPT ![c] = "loop"], thread}
              /\ PauseButton => PauseButton'
           \/ PauseAndLeave(c)
    BY <1>9, ZenonT(60) DEF ProcessSingleProduceResponse
  <2>2. \/ UNCHANGED <<PauseInProgress, OptInProgressShutdown>>
        \/ \E paused \in BOOLEAN :
             /\ PauseInProgress' = [PauseInProgress EXCEPT ![c] = @ \/ paused]
             /\ OptInProgressShutdown' =
                  [OptInProgressShutdown EXCEPT ![c] = IF paused THEN "fast" ELSE @]
             /\ paused => PauseButton'
    BY <1>9, ZenonT(60) DEF ProcessSingleProduceResponse, PauseAndLeave, PauseAck
  <2>3. /\ \A d \in Brokers \ {c} : OptInProgressShutdown'[d] = OptInProgressShutdown[d]
        /\ \/ OptInProgressShutdown'[c] = OptInProgressShutdown[c]
           \/ PauseButton'
    BY <1>0, <2>2
  <2>4. PauseMeansFastShutdown => PauseMeansFastShutdown'
    BY <1>0, <2>2
  <2>5. /\ thread'[c] \in {"loop", "read", "done"}
        /\ thread'[c] = "done" => PauseButton'
        /\ \A d \in Brokers \ {c} : thread'[d] = thread[d]
    BY <1>0, <2>1 DEF PauseAndLeave
  <2>6. PauseButton => PauseButton'
    BY <2>1 DEF PauseAndLeave
  <2> HIDE DEF PauseMeansFastShutdown
  <2> QED
    BY <2>1, <2>3, <2>4, <2>5, <2>6 DEF connectorUnchanged
<1>10. CASE MarkThreadFinished(c)
  BY <1>0, <1>10 DEF MarkThreadFinished
<1>11. CASE Terminate(c)
  BY <1>0, <1>11 DEF Terminate, sharedVars
<1> QED
  BY <1>1, <1>2, <1>3, <1>4, <1>5, <1>6, <1>7, <1>8, <1>9, <1>10, <1>11, ZenonT(60)
  DEF ConnectorStep

(* The same for what the connectors wait for: a thread reads responses     *)
(* only while a request waits for one.                                     *)
LEMMA ConnectorReads ==
  ASSUME DispatcherTypeOK, ReadHasRequest, NEW c \in Brokers, ConnectorStep(c)
  PROVE  ReadHasRequest'
<1> USE DEF ReadHasRequest
<1>0. /\ thread \in [Brokers -> ThreadStates]
      /\ AckWaitQueue \in [Brokers -> Seq(SUBSET Msgs)]
  BY DEF DispatcherTypeOK
<1>1. CASE ConnectToBroker(c)
  BY <1>0, <1>1 DEF ConnectToBroker, PauseAndLeave, queueVars
<1>2. CASE FinishShutdown(c)
  BY <1>0, <1>2 DEF FinishShutdown, queueVars
<1>3. CASE SocketTimeout(c)
  BY <1>0, <1>3, SMTT(60) DEF SocketTimeout, PauseAndLeave, queueVars
<1>4. CASE HandleShutdownRequest(c)
  BY <1>0, <1>4 DEF HandleShutdownRequest
<1>5. CASE HandlePauseDetected(c)
  BY <1>0, <1>5 DEF HandlePauseDetected, queueVars
<1>6. CASE CheckInputQueue(c)
  BY <1>0, <1>6 DEF CheckInputQueue, controlVars
<1>7. CASE HandleSockWriteReady(c)
  BY <1>0, <1>7 DEF HandleSockWriteReady, PauseAndLeave, NothingUrgent, Polling
<1>8. CASE HandleSockReadReady(c)
  BY <1>0, <1>8 DEF HandleSockReadReady, PauseAndLeave, queueVars, NeedSockRead
<1>9. CASE ProcessSingleProduceResponse(c)
  BY <1>0, <1>9 DEF ProcessSingleProduceResponse, PauseAndLeave, ProcessResponse
<1>10. CASE MarkThreadFinished(c)
  BY <1>0, <1>10 DEF MarkThreadFinished, queueVars
<1>11. CASE Terminate(c)
  BY <1>0, <1>11 DEF Terminate, queueVars
<1> QED
  BY <1>1, <1>2, <1>3, <1>4, <1>5, <1>6, <1>7, <1>8, <1>9, <1>10, <1>11, ZenonT(60)
  DEF ConnectorStep

(* The set of running threads is finite, and what finishing does to it.    *)
LEMMA RunningFinite == IsFiniteSet(RunningThreads)
<1>1. IsFiniteSet(Brokers)
  BY BoundsAssumption, FS_Interval DEF Brokers
<1> QED
  BY <1>1, FS_Subset DEF RunningThreads

LEMMA ConnectorCounts ==
  ASSUME DispatcherTypeOK, ThreadsCounted, NEW c \in Brokers, ConnectorStep(c)
  PROVE  /\ ThreadsCounted'
         /\ thread[c] = "done" => RunningThreadCount > 0
<1>0. thread \in [Brokers -> ThreadStates]
  BY DEF DispatcherTypeOK
<1>1. OnlyOwnControl(c) /\ CountsOnlyAtEnd(c)
  BY ConnectorControl
<1>2. ASSUME thread[c] = "done" PROVE RunningThreadCount > 0
  <2>1. c \in RunningThreads
    BY <1>2 DEF RunningThreads, RunningStates
  <2>2. Cardinality(RunningThreads) \in Nat /\ Cardinality(RunningThreads) # 0
    BY <2>1, RunningFinite, FS_CardinalityType, FS_EmptySet
  <2> QED
    BY <2>2 DEF ThreadsCounted
<1>3. CASE MarkThreadFinished(c)
  <2>1. c \in RunningThreads /\ RunningThreads' = RunningThreads \ {c}
    BY <1>0, <1>3 DEF MarkThreadFinished, RunningThreads, RunningStates
  <2>2. Cardinality(RunningThreads') = Cardinality(RunningThreads) - 1
    BY <2>1, RunningFinite, FS_RemoveElement
  <2> QED
    BY <1>2, <1>3, <2>2 DEF ThreadsCounted, MarkThreadFinished
<1>4. CASE ~MarkThreadFinished(c)
  <2>1. RunningThreads' = RunningThreads
    BY <1>1, <1>4 DEF CountsOnlyAtEnd, OnlyOwnControl, RunningThreads
  <2> QED
    BY <1>1, <1>2, <1>4, <2>1, SMTT(60) DEF CountsOnlyAtEnd, ThreadsCounted
<1> QED
  BY <1>2, <1>3, <1>4

LEMMA ConnectorInv ==
  ASSUME RouterInv, NEW c \in Brokers, ConnectorStep(c),
         UNCHANGED <<routerVars, serverVars>>
  PROVE  RouterInv'
<1> USE DEF RouterInv, TypeOK
<1>1. OnlyOwnControl(c) /\ ExitHasReason(c) /\ CountsOnlyAtEnd(c)
  BY ConnectorControl
<1>2. ThreadsCounted' /\ (thread[c] = "done" => RunningThreadCount > 0)
  BY ConnectorCounts
<1>3. TypeOK'
  BY <1>2, ConnectorTypes DEF RouterTypeOK, routerVars, serverVars
<1>4. ReadHasRequest'
  BY ConnectorReads, SMTT(60)
<1>5. ThreadsOwned'
  BY <1>1, SMTT(60) DEF ThreadsOwned, OnlyOwnControl, routerVars
<1>6. ExitExplained'
  BY <1>1, SMTT(60) DEF ExitExplained, OnlyOwnControl, ExitHasReason, Finished
<1>7. State # "Stopped"
  BY <1>1 DEF StoppedIsClean, OnlyOwnControl
<1>8. AnnouncedAtZero' /\ (ShutdownFinished > 0 => ShutdownFinished' > 0)
  <2>0. RunningThreadCount \in Nat /\ ShutdownFinished \in Nat
    BY DEF DispatcherTypeOK
  <2>1. CASE MarkThreadFinished(c)
    <3>1. /\ RunningThreadCount > 0 /\ RunningThreadCount' = RunningThreadCount - 1
          /\ ShutdownFinished' = IF RunningThreadCount = 1 THEN ShutdownFinished + 1
                                 ELSE ShutdownFinished
      BY <1>2, <2>1, SMTT(60) DEF MarkThreadFinished, FinishesLast
    <3>2. UNCHANGED <<State, Connectors, rpc>>
      BY <1>1, ZenonT(60) DEF OnlyOwnControl, routerVars
    <3>3. CASE RunningThreadCount = 1
      <4>1. ShutdownFinished' > 0 /\ RunningThreadCount' = 0
        BY <2>0, <3>1, <3>3
      <4> QED
        BY <4>1 DEF AnnouncedAtZero
    <3>4. CASE RunningThreadCount # 1
      <4>1. RunningThreadCount # 0 /\ RunningThreadCount' # 0
        BY <2>0, <3>1, <3>4
      <4>2. ShutdownFinished' = ShutdownFinished
        BY <3>1, <3>4, SMTT(60)
      <4> QED
        BY <3>2, <4>1, <4>2 DEF AnnouncedAtZero
    <3> QED
      BY <3>3, <3>4
  <2>2. CASE ~MarkThreadFinished(c)
    BY <1>1, <2>2, SMTT(60)
    DEF AnnouncedAtZero, CountsOnlyAtEnd, OnlyOwnControl, routerVars
  <2> QED
    BY <2>1, <2>2
<1>9. StoppedIsClean'
  BY <1>1, <1>7, SMTT(60) DEF StoppedIsClean, OnlyOwnControl, routerVars
<1>10. SeenIfAnnounced' /\ PauseMeansFastShutdown'
  BY <1>1, <1>8, SMTT(60) DEF SeenIfAnnounced, routerVars, OnlyOwnControl
<1> QED
  BY <1>2, <1>3, <1>4, <1>5, <1>6, <1>8, <1>9, <1>10

-----------------------------------------------------------------------------
(* The types of the router's variables.                                    *)

LEMMA ConnectorsAreBrokers ==
  ASSUME DispatcherTypeOK
  PROVE  Connectors \subseteq Brokers
BY BoundsAssumption, SMTT(60) DEF DispatcherTypeOK, Brokers

LEMMA LeftTypes ==
  ASSUME DispatcherTypeOK
  PROVE  LeftInDispatcher \subseteq Msgs /\ PossibleDuplicates \subseteq Msgs
BY ConnectorsAreBrokers, SMTT(60)
DEF DispatcherTypeOK, LeftInDispatcher, PossibleDuplicates

LEMMA EnterType ==
  ASSUME msgState \in [Msgs -> MsgStates], NEW S, NEW s \in MsgStates
  PROVE  Enter(S, s) \in [Msgs -> MsgStates]
BY DEF Enter

LEMMA RouteNowType ==
  ASSUME msgState \in [Msgs -> MsgStates], NEW S, NEW D
  PROVE  RouteNow(S, D) \in [Msgs -> MsgStates]
BY DEF RouteNow, MsgStates

LEMMA DiscardAndEndTypes ==
  ASSUME TypeOK, DiscardAndEnd
  PROVE  DispatcherTypeOK' /\ PerTopicBatcher' \subseteq Msgs
                          /\ MsgChannel' \subseteq Msgs /\ rpc' = "end"
<1>1. LeftInDispatcher \subseteq Msgs /\ PossibleDuplicates \subseteq Msgs
  BY LeftTypes DEF TypeOK
<1>2. msgState' \in [Msgs -> MsgStates]
  BY EnterType DEF DiscardAndEnd, TypeOK, DispatcherTypeOK, MsgStates
<1>3. SendWaitAfterShutdown' \in [Brokers -> SUBSET Msgs]
      /\ NoAckAfterShutdown' \in [Brokers -> SUBSET Msgs]
  BY DEF DiscardAndEnd, NoMsgs
<1>4. discarded' \subseteq Msgs /\ duplicates' \subseteq Msgs
  BY <1>1 DEF DiscardAndEnd, TypeOK, DispatcherTypeOK, RouterTypeOK
<1> QED
  BY <1>2, <1>3, <1>4, ZenonT(60)
  DEF DiscardAndEnd, TypeOK, DispatcherTypeOK, RouterTypeOK, sharedVars, controlVars,
      fateVars

LEMMA StartTypes ==
  ASSUME DispatcherTypeOK, NEW n \in 0 .. MaxBrokers,
         NEW routed \in [Brokers -> SUBSET Msgs], StartDispatcher(n, routed),
         msgState' \in [Msgs -> MsgStates], attempts' = attempts,
         delivered' = delivered, discarded' \subseteq Msgs,
         destroyed' = destroyed, unacked' = unacked, duplicates' \subseteq Msgs
  PROVE  DispatcherTypeOK'
<1>1. /\ OptShutdownCmd' \in [Brokers -> [known : BOOLEAN, cmd : ShutdownKinds]]
      /\ OptInProgressShutdown' \in [Brokers -> ShutdownKinds]
      /\ PauseInProgress' \in [Brokers -> BOOLEAN]
      /\ thread' \in [Brokers -> ThreadStates]
      /\ ShutdownRequested' \in [Brokers -> Nat] /\ ShutdownAck' \in [Brokers -> Nat]
  BY DEF StartDispatcher, ShutdownKinds, ThreadStates
<1>2. /\ RequestFactory' \in [Brokers -> SUBSET Msgs]
      /\ InputQueue' \in [Brokers -> SUBSET Msgs]
      /\ CurrentRequest' \in [Brokers -> SUBSET Msgs]
      /\ GotAckAfterPause' \in [Brokers -> SUBSET Msgs]
      /\ NoAckAfterPause' \in [Brokers -> SUBSET Msgs]
      /\ SendWaitAfterShutdown' \in [Brokers -> SUBSET Msgs]
      /\ NoAckAfterShutdown' \in [Brokers -> SUBSET Msgs]
      /\ AckWaitQueue' \in [Brokers -> Seq(SUBSET Msgs)]
  BY DEF StartDispatcher, NoMsgs
<1>3. /\ State' \in {"Stopped", "Started", "ShuttingDown"}
      /\ RunningThreadCount' \in Nat /\ starts' \in Nat /\ ShutdownFinished' \in Nat
  BY BoundsAssumption, SMTT(60)
  DEF StartDispatcher, MarkAllThreadsRunning, DispatcherTypeOK
<1>4. Connectors' \in {1 .. k : k \in 0 .. MaxBrokers}
  BY SMTT(60) DEF StartDispatcher
<1>5. PauseButton' \in BOOLEAN
  BY SMTT(60) DEF StartDispatcher, DispatcherTypeOK
<1> QED
  BY <1>1, <1>2, <1>3, <1>4, <1>5, SMTT(60) DEF DispatcherTypeOK

LEMMA RestartTypes ==
  ASSUME TypeOK, NEW final \in BOOLEAN, Restart(final)
  PROVE  DispatcherTypeOK' /\ PerTopicBatcher' \subseteq Msgs /\ MsgChannel' \subseteq Msgs
<1>1. PICK n \in 0 .. MaxBrokers, D \in SUBSET PerTopicBatcher :
        Restart(final)!(n, D)
  BY ZenonT(60) DEF Restart
<1> DEFINE kept == PerTopicBatcher \ D
<1>2. PICK route \in [LeftInDispatcher -> 0 .. n],
           routeFinal \in (IF final THEN FinalRoutes(kept, MsgChannel, 1 .. n) ELSE {<<>>}) :
        LET gone == D \cup Invalid(route) \cup Invalid(routeFinal) IN
        /\ StartDispatcher(n, [c \in Brokers |-> Routed(route)[c] \cup Routed(routeFinal)[c]])
        /\ discarded' = discarded \cup gone
        /\ msgState' = RouteNow(DOMAIN route \cup DOMAIN routeFinal, gone)
  BY <1>1, ZenonT(60)
<1> DEFINE gone == D \cup Invalid(route) \cup Invalid(routeFinal)
           routed == [c \in Brokers |-> Routed(route)[c] \cup Routed(routeFinal)[c]]
<1>3. LeftInDispatcher \subseteq Msgs /\ PossibleDuplicates \subseteq Msgs
      /\ PerTopicBatcher \subseteq Msgs /\ MsgChannel \subseteq Msgs
  BY LeftTypes DEF TypeOK, RouterTypeOK
<1>4. DOMAIN route \subseteq Msgs /\ DOMAIN routeFinal \subseteq Msgs
  BY <1>3 DEF FinalRoutes
<1>5. routed \in [Brokers -> SUBSET Msgs] /\ gone \subseteq Msgs
  BY <1>3, <1>4 DEF Routed, Invalid
<1>6. msgState' \in [Msgs -> MsgStates]
  BY <1>2, RouteNowType, ZenonT(60) DEF TypeOK, DispatcherTypeOK
<1>7. discarded' \subseteq Msgs /\ duplicates' \subseteq Msgs
  BY <1>1, <1>2, <1>3, <1>5, ZenonT(60) DEF TypeOK, DispatcherTypeOK
<1>8. DispatcherTypeOK'
  <2> HIDE DEF routed
  <2>1. StartDispatcher(n, routed) /\ UNCHANGED fateVars
    BY <1>1, <1>2 DEF routed
  <2> QED
    BY <1>5, <1>6, <1>7, <2>1, StartTypes, SMTT(60) DEF TypeOK, fateVars
<1> QED
  BY <1>1, <1>3, <1>8, SMTT(60)

(* The router's own steps and the threads around it keep the types.        *)
LEMMA RouterTypes ==
  ASSUME TypeOK, RouterStep
  PROVE  TypeOK'
<1> USE DEF TypeOK
<1>0. Connectors \subseteq Brokers
  BY ConnectorsAreBrokers
<1>1. CASE StartUp
  <2>1. CASE \E n \in 0 .. MaxBrokers : StartDispatcher(n, NoMsgs) /\ rpc' = "poll"
                 /\ UNCHANGED <<MsgChannel, msgVars>>
    <3>1. PICK n \in 0 .. MaxBrokers : StartDispatcher(n, NoMsgs)
      BY <2>1
    <3>2. NoMsgs \in [Brokers -> SUBSET Msgs]
      BY DEF NoMsgs
    <3>3. DispatcherTypeOK'
      <4>1. /\ msgState' \in [Msgs -> MsgStates] /\ attempts' = attempts
            /\ delivered' = delivered /\ discarded' \subseteq Msgs
            /\ destroyed' = destroyed /\ unacked' = unacked /\ duplicates' \subseteq Msgs
        BY <2>1, SMTT(60) DEF msgVars, DispatcherTypeOK
      <4> QED
        BY <3>1, <3>2, <4>1, StartTypes, SMTT(60)
    <3> QED
      BY <1>1, <2>1, <3>3
      DEF StartUp, RouterTypeOK, RouterStates, localVars, shutdownVars, serverVars
  <2>2. CASE /\ rpc' = "end" /\ discarded' = discarded \cup MsgChannel
             /\ msgState' = Enter(MsgChannel, "Processed") /\ MsgChannel' = {}
             /\ UNCHANGED <<sharedVars, controlVars, queueVars, fateVars, duplicates>>
    <3>1. msgState' \in [Msgs -> MsgStates]
      BY <2>2, EnterType, SMTT(60) DEF DispatcherTypeOK, MsgStates
    <3>2. DispatcherTypeOK'
      BY <2>2, <3>1, SMTT(60)
      DEF DispatcherTypeOK, RouterTypeOK, sharedVars, controlVars, queueVars, fateVars
    <3> QED
      BY <1>1, <2>2, <3>2, SMTT(60)
      DEF StartUp, RouterTypeOK, RouterStates, localVars, shutdownVars, serverVars
  <2> QED
    BY <1>1, <2>1, <2>2, SMTT(60) DEF StartUp
<1>2. CASE Poll
  <2>1. DispatcherTypeOK'
    BY <1>2 DEF Poll, dispatcherVars, DispatcherTypeOK, sharedVars, controlVars, queueVars, msgVars
  <2>2. revents' \in SUBSET Events
    BY <1>2, SMTT(60) DEF Poll, Events
  <2> QED
    BY <1>2, <2>1, <2>2, ZenonT(60)
    DEF Poll, RouterTypeOK, RouterStates, localVars, shutdownVars, serverVars, StartShutdown
<1>3. CASE ContinueShutdown
  <2>1. PICK route \in FinalRoutes(PerTopicBatcher, MsgChannel, Connectors) :
          ContinueShutdown!3!(route)
    BY <1>3 DEF ContinueShutdown
  <2>2. DOMAIN route \subseteq Msgs
    BY <2>1, ZenonT(60) DEF FinalRoutes, RouterTypeOK
  <2>3. InputQueue' \in [Brokers -> SUBSET Msgs] /\ discarded' \subseteq Msgs
    BY <2>1, <2>2, SMTT(60) DEF DispatcherTypeOK, Routed, Invalid
  <2>4. msgState' \in [Msgs -> MsgStates]
    BY <2>1, RouteNowType, ZenonT(60) DEF DispatcherTypeOK
  <2>5. DispatcherTypeOK'
    BY <1>3, <2>3, <2>4, ZenonT(60)
    DEF ContinueShutdown, DispatcherTypeOK, sharedVars, controlVars, fateVars
  <2> QED
    BY <1>0, <1>3, <2>5, ZenonT(60)
    DEF ContinueShutdown, BeginShutdown, RouterTypeOK, RouterStates, Tasks, serverVars
<1>4. ASSUME NEW c \in Brokers, SendShutdown(c) PROVE TypeOK'
  <2>1. /\ OptShutdownCmd' \in [Brokers -> [known : BOOLEAN, cmd : ShutdownKinds]]
        /\ ShutdownRequested' \in [Brokers -> Nat]
    <3>1. /\ OptShutdownCmd' =
               [OptShutdownCmd EXCEPT ![c] = [known |-> TRUE, cmd |-> Kind]]
          /\ ShutdownRequested' = [ShutdownRequested EXCEPT ![c] = @ + 1]
      BY <1>4, ZenonT(60) DEF SendShutdown, StartShutdownOf
    <3>2. /\ OptShutdownCmd \in [Brokers -> [known : BOOLEAN, cmd : ShutdownKinds]]
          /\ ShutdownRequested \in [Brokers -> Nat]
      BY DEF DispatcherTypeOK
    <3>3. [known |-> TRUE, cmd |-> Kind] \in [known : BOOLEAN, cmd : ShutdownKinds]
      BY DEF Kind, ShutdownKinds
    <3>4. OptShutdownCmd' \in [Brokers -> [known : BOOLEAN, cmd : ShutdownKinds]]
      BY <3>1, <3>2, <3>3, ZenonT(60)
    <3>5. ShutdownRequested' \in [Brokers -> Nat]
      BY <3>1, <3>2, SMTT(60)
    <3> QED
      BY <3>4, <3>5
  <2>2. DispatcherTypeOK'
    BY <1>4, <2>1, ZenonT(60)
    DEF SendShutdown, StartShutdownOf, DispatcherTypeOK, sharedVars, queueVars, msgVars
  <2> QED
    BY <1>0, <1>4, <2>2, SMTT(60)
    DEF SendShutdown, RouterTypeOK, RouterStates, shutdownVars, serverVars
<1>5. ASSUME NEW c \in Brokers, AwaitAck(c) PROVE TypeOK'
  <2>1. OptShutdownCmd' \in [Brokers -> [known : BOOLEAN, cmd : ShutdownKinds]]
    <3>1. OptShutdownCmd \in [Brokers -> [known : BOOLEAN, cmd : ShutdownKinds]]
      BY DEF DispatcherTypeOK
    <3>2. [OptShutdownCmd[c] EXCEPT !.known = FALSE] \in [known : BOOLEAN, cmd : ShutdownKinds]
      BY <3>1, ZenonT(60)
    <3> QED
      BY <1>5, <3>1, <3>2 DEF AwaitAck, WaitForShutdownAck
  <2>2. DispatcherTypeOK'
    BY <1>5, <2>1
    DEF AwaitAck, WaitForShutdownAck, DispatcherTypeOK, sharedVars, queueVars, msgVars
  <2> QED
    BY <1>5, <2>2 DEF AwaitAck, RouterTypeOK, shutdownVars, serverVars
<1>6. CASE ShutdownBegun
  <2>1. DispatcherTypeOK'
    BY <1>6, SMTT(60) DEF ShutdownBegun, DispatcherTypeOK, controlVars, queueVars, msgVars
  <2>2. rpc' \in RouterStates
    BY <1>6 DEF ShutdownBegun, RouterStates
  <2>3. todo' \in SUBSET Brokers /\ task' \in Tasks
    BY <1>0, <1>6 DEF ShutdownBegun, RouterTypeOK, Tasks
  <2> QED
    BY <1>6, <2>1, <2>2, <2>3 DEF ShutdownBegun, RouterTypeOK, shutdownVars, serverVars
<1>7. CASE FetchMetadata
  <2>1. DispatcherTypeOK'
    BY <1>7, SMTT(60)
    DEF FetchMetadata, DispatcherTypeOK, dispatcherVars, sharedVars, controlVars, queueVars,
        msgVars
  <2>2. /\ ShutdownStartTime' \in BOOLEAN /\ NeedToContinueShutdown' \in BOOLEAN
        /\ ShutdownRequest' \in BOOLEAN /\ gotMetadata' \in BOOLEAN
    BY <1>7, ZenonT(60)
    DEF FetchMetadata, GetMetadata, StartShutdown, shutdownVars, RouterTypeOK
  <2> QED
    BY <1>0, <1>7, <2>1, <2>2, SMTT(60)
    DEF FetchMetadata, RouterTypeOK, RouterStates, serverVars
<1>8. ASSUME NEW c \in Brokers, JoinNext(c) PROVE TypeOK'
  <2>1. Flatten(AckWaitQueue[c]) \subseteq Msgs
    BY SMTT(60) DEF Flatten, DispatcherTypeOK
  <2>2. /\ SendWaitAfterShutdown' \in [Brokers -> SUBSET Msgs]
        /\ NoAckAfterShutdown' \in [Brokers -> SUBSET Msgs]
    <3>1. /\ CurrentRequest[c] \cup GotAckAfterPause[c] \cup RequestFactory[c]
               \cup InputQueue[c] \in SUBSET Msgs
          /\ NoAckAfterPause[c] \cup Flatten(AckWaitQueue[c]) \in SUBSET Msgs
      BY <2>1 DEF DispatcherTypeOK
    <3> QED
      BY <1>8, <3>1, ZenonT(60)
      DEF JoinNext, JoinConnector, LeftToSend, LeftWithoutAck, DispatcherTypeOK
  <2>3. /\ RequestFactory' \in [Brokers -> SUBSET Msgs]
        /\ InputQueue' \in [Brokers -> SUBSET Msgs]
        /\ CurrentRequest' \in [Brokers -> SUBSET Msgs]
        /\ GotAckAfterPause' \in [Brokers -> SUBSET Msgs]
        /\ NoAckAfterPause' \in [Brokers -> SUBSET Msgs]
    BY <1>8, SMTT(60) DEF JoinNext, JoinConnector, DispatcherTypeOK
  <2>4. AckWaitQueue' \in [Brokers -> Seq(SUBSET Msgs)]
    BY <1>8, SMTT(60) DEF JoinNext, JoinConnector, DispatcherTypeOK
  <2>5. /\ thread' \in [Brokers -> ThreadStates] /\ ShutdownRequested' \in [Brokers -> Nat]
        /\ msgState' \in [Msgs -> MsgStates]
    BY <1>8, EnterType, ZenonT(60)
    DEF JoinNext, JoinConnector, DispatcherTypeOK, ThreadStates, MsgStates
  <2>6. DispatcherTypeOK'
    BY <1>8, <2>2, <2>3, <2>4, <2>5, ZenonT(60)
    DEF JoinNext, JoinConnector, DispatcherTypeOK, sharedVars
  <2> QED
    BY <1>8, <2>6 DEF JoinNext, RouterTypeOK, shutdownVars, serverVars
<1>9. CASE JoinedAll
  <2>1. DispatcherTypeOK'
    BY <1>9, ZenonT(60)
    DEF JoinedAll, FinishJoinAll, DispatcherTypeOK, controlVars, queueVars, msgVars
  <2> QED
    BY <1>9, <2>1, SMTT(60)
    DEF JoinedAll, RouterTypeOK, RouterStates, localVars, shutdownVars, serverVars
<1>10. CASE FinishPause
  <2>0. /\ ShutdownStartTime' \in BOOLEAN /\ NeedToContinueShutdown' \in BOOLEAN
        /\ ShutdownRequest' \in BOOLEAN
    BY <1>10, ZenonT(60)
    DEF FinishPause, GetMetadata, StartShutdown, shutdownVars, RouterTypeOK
  <2>1. CASE DiscardAndEnd /\ UNCHANGED <<task, todo>>
    <3>1. /\ DispatcherTypeOK' /\ PerTopicBatcher' \subseteq Msgs
          /\ MsgChannel' \subseteq Msgs /\ rpc' = "end"
      BY <2>1, DiscardAndEndTypes
    <3> QED
      BY <1>10, <2>0, <2>1, <3>1 DEF FinishPause, RouterTypeOK, RouterStates, serverVars
  <2>2. CASE /\ Restart(ShutdownStartTime' /\ ~ShutdownStartTime)
             /\ FinishPause!2!2!3
    <3>1. DispatcherTypeOK' /\ PerTopicBatcher' \subseteq Msgs /\ MsgChannel' \subseteq Msgs
      BY <2>2, RestartTypes, ZenonT(60)
    <3>2. Connectors' \subseteq Brokers
      <4>1. Connectors' \in {1 .. k : k \in 0 .. MaxBrokers}
        BY <3>1 DEF DispatcherTypeOK
      <4> QED
        BY <4>1, BoundsAssumption DEF Brokers
    <3> QED
      BY <1>10, <2>0, <2>2, <3>1, <3>2
      DEF FinishPause, RouterTypeOK, RouterStates, Tasks, serverVars
  <2> QED
    BY <1>10, <2>1, <2>2, ZenonT(60) DEF FinishPause
<1>11. CASE FinishRefresh
  <2>1. /\ DispatcherTypeOK' /\ PerTopicBatcher' \subseteq Msgs
        /\ MsgChannel' \subseteq Msgs /\ rpc' \in RouterStates
    BY <1>11, RestartTypes, DiscardAndEndTypes, ZenonT(60) DEF FinishRefresh, RouterStates
  <2> QED
    BY <1>11, <2>1, ZenonT(60)
    DEF FinishRefresh, RouterTypeOK, Tasks, shutdownVars, serverVars
<1>12. CASE FinishRouter
  <2>1. /\ DispatcherTypeOK' /\ PerTopicBatcher' \subseteq Msgs
        /\ MsgChannel' \subseteq Msgs /\ rpc' = "end"
    BY <1>12, DiscardAndEndTypes, SMTT(60) DEF FinishRouter
  <2> QED
    BY <1>12, <2>1
    DEF FinishRouter, RouterTypeOK, RouterStates, localVars, shutdownVars, serverVars
<1>13. CASE HandleShutdownFinished \/ HandlePause
  <2>1. DispatcherTypeOK'
    BY <1>13 DEF HandleShutdownFinished, HandlePause, DispatcherTypeOK, dispatcherVars,
                 sharedVars, controlVars, queueVars, msgVars
  <2> QED
    BY <1>0, <1>13, <2>1, SMTT(60)
    DEF HandleShutdownFinished, HandlePause, BeginShutdown, RouterTypeOK, RouterStates, Tasks,
        shutdownVars, serverVars
<1>14. CASE HandleMetadataUpdate
  <2>1. /\ ShutdownStartTime' \in BOOLEAN /\ NeedToContinueShutdown' \in BOOLEAN
        /\ ShutdownRequest' \in BOOLEAN
    BY <1>14, ZenonT(60)
    DEF HandleMetadataUpdate, GetMetadata, StartShutdown, shutdownVars, RouterTypeOK
  <2>2. MetadataUpdateRequestSem' \in Nat /\ revents' \in SUBSET Events
    BY <1>14 DEF HandleMetadataUpdate, RouterTypeOK
  <2>3. CASE DiscardAndEnd /\ UNCHANGED localVars
    <3>1. /\ DispatcherTypeOK' /\ PerTopicBatcher' \subseteq Msgs
          /\ MsgChannel' \subseteq Msgs /\ rpc' = "end"
      BY <2>3, DiscardAndEndTypes, SMTT(60)
    <3> QED
      BY <1>14, <2>1, <2>2, <2>3, <3>1
      DEF HandleMetadataUpdate, RouterTypeOK, RouterStates, localVars, serverVars
  <2>4. CASE /\ BeginShutdown("refresh") \/ UNCHANGED <<rpc, task, todo>>
             /\ gotMetadata' \in BOOLEAN
             /\ UNCHANGED <<dispatcherVars, MsgChannel, PerTopicBatcher>>
    <3>1. DispatcherTypeOK'
      BY <2>4 DEF DispatcherTypeOK, dispatcherVars, sharedVars, controlVars, queueVars, msgVars
    <3>2. rpc' \in RouterStates /\ task' \in Tasks /\ todo' \in SUBSET Brokers
      BY <1>0, <2>4 DEF BeginShutdown, RouterTypeOK, RouterStates, Tasks
    <3> QED
      BY <1>14, <2>1, <2>2, <2>4, <3>1, <3>2, SMTT(60)
      DEF HandleMetadataUpdate, RouterTypeOK, serverVars
  <2>5. gotMetadata \in BOOLEAN
    BY SMTT(60) DEF RouterTypeOK
  <2> QED
    BY <1>14, <2>3, <2>4, <2>5, ZenonT(60) DEF HandleMetadataUpdate, localVars
<1>15. CASE HandleMessages
  <2>0. PICK complete \in SUBSET PerTopicBatcher, batched \in SUBSET NewMsgs :
        \E routeBatch \in [complete -> Connectors], route \in [NewMsgs -> Choices] :
          RouteNewMsgs(complete, routeBatch, batched, route)
    BY <1>15 DEF HandleMessages
  <2>1. PICK routeBatch \in [complete -> Connectors], route \in [NewMsgs -> Choices] :
          RouteNewMsgs(complete, routeBatch, batched, route)
    BY <2>0
  <2>2. NewMsgs \subseteq Msgs /\ complete \subseteq Msgs
    BY DEF RouterTypeOK, NewMsgs
  <2>3. DOMAIN route \subseteq Msgs /\ DOMAIN routeBatch \subseteq Msgs
    BY <2>2, SMTT(60)
  <2>4. InputQueue' \in [Brokers -> SUBSET Msgs]
    BY <2>1, <2>3, ZenonT(60) DEF RouteNewMsgs, DispatcherTypeOK, Routed
  <2>5. PerTopicBatcher' \in SUBSET Msgs /\ MsgChannel' \in SUBSET Msgs
    BY <2>1, <2>2, ZenonT(60) DEF RouteNewMsgs, RouterTypeOK
  <2>6. discarded' \subseteq Msgs
    BY <2>1, <2>3, ZenonT(60) DEF RouteNewMsgs, DispatcherTypeOK, Invalid
  <2>7. msgState' \in [Msgs -> MsgStates]
    <3>1. RouteNow(complete \cup NewMsgs, Invalid(route)) \in [Msgs -> MsgStates]
      BY RouteNowType, ZenonT(60) DEF DispatcherTypeOK
    <3> QED
      BY <2>1, <3>1, ZenonT(60) DEF RouteNewMsgs, MsgStates
  <2>8. DispatcherTypeOK'
    BY <1>15, <2>4, <2>6, <2>7, ZenonT(60)
    DEF HandleMessages, DispatcherTypeOK, sharedVars, controlVars, fateVars
  <2> QED
    BY <1>15, <2>5, <2>8, SMTT(60)
    DEF HandleMessages, RouterTypeOK, RouterStates, localVars, shutdownVars, serverVars
<1> QED
  BY <1>1, <1>2, <1>3, <1>4, <1>5, <1>6, <1>7, <1>8, <1>9, <1>10, <1>11, <1>12, <1>13,
     <1>14, <1>15, ZenonT(60)
  DEF RouterStep

LEMMA EnvironmentTypes ==
  ASSUME TypeOK, \/ \E m \in Msgs : NewMsg(m)
                 \/ RequestShutdown \/ RequestMetadataUpdate \/ JoinRouter
  PROVE  TypeOK'
<1> USE DEF TypeOK, RouterTypeOK, serverVars
<1>1. ASSUME NEW m \in Msgs, NewMsg(m) PROVE TypeOK'
  <2>1. msgState' \in [Msgs -> MsgStates]
    BY <1>1, EnterType, ZenonT(60) DEF NewMsg, DispatcherTypeOK, MsgStates
  <2>2. DispatcherTypeOK'
    BY <1>1, <2>1, ZenonT(60)
    DEF NewMsg, DispatcherTypeOK, sharedVars, controlVars, queueVars
  <2> QED
    BY <1>1, <2>2, SMTT(60) DEF NewMsg
<1>2. CASE RequestShutdown \/ RequestMetadataUpdate
  <2>1. DispatcherTypeOK'
    BY <1>2, ZenonT(60)
    DEF RequestShutdown, RequestMetadataUpdate, DispatcherTypeOK, dispatcherVars, sharedVars,
        controlVars, queueVars, msgVars
  <2>2. CASE RequestShutdown
    BY <2>1, <2>2, SMTT(60) DEF RequestShutdown
  <2>3. CASE RequestMetadataUpdate
    BY <2>1, <2>3, SMTT(60) DEF RequestMetadataUpdate
  <2> QED
    BY <1>2, <2>2, <2>3, SMTT(60)
<1>3. CASE JoinRouter
  <2>1. msgState' \in [Msgs -> MsgStates]
    BY <1>3, EnterType, ZenonT(60) DEF JoinRouter, DispatcherTypeOK, MsgStates
  <2>2. DispatcherTypeOK'
    BY <1>3, <2>1, ZenonT(60)
    DEF JoinRouter, DispatcherTypeOK, sharedVars, controlVars, queueVars
  <2> QED
    BY <1>3, <2>2, SMTT(60) DEF JoinRouter, RouterStates
<1> QED
  BY <1>1, <1>2, <1>3, SMTT(60)

-----------------------------------------------------------------------------
(* The rest of the invariant.  Most steps of the router leave the control  *)
(* state of the dispatcher alone, or start the dispatcher anew.            *)

ControlInv ==
  /\ ReadHasRequest /\ ThreadsCounted /\ ThreadsOwned /\ ExitExplained
  /\ AnnouncedAtZero /\ StoppedIsClean /\ SeenIfAnnounced /\ PauseMeansFastShutdown

controlState ==
  <<State, Connectors, PauseButton, RunningThreadCount, ShutdownFinished, thread,
    ShutdownRequested, OptShutdownCmd, OptInProgressShutdown, PauseInProgress,
    AckWaitQueue>>

LEMMA ControlKept ==
  ASSUME RouterInv, UNCHANGED controlState,
         rpc' = "join" => todo' = Connectors \/ UNCHANGED <<rpc, todo>>,
         rpc' \in {"fetch", "join"} /\ Connectors = {} => ShutdownFinished > 0,
         rpc' \in {"init", "restart"} => rpc' = rpc,
         rpc' \in {"poll", "events", "send", "ack", "fetch", "join"} =>
           rpc \in {"poll", "events", "send", "ack", "fetch", "join"},
         SeenIfAnnounced'
  PROVE  ControlInv'
<1> USE DEF RouterInv, controlState
<1>1. ReadHasRequest' /\ ThreadsCounted'
  BY ZenonT(60) DEF ReadHasRequest, ThreadsCounted, RunningThreads
<1>2. ThreadsOwned'
  BY SMTT(60) DEF ThreadsOwned
<1>3. ExitExplained'
  BY SMTT(60) DEF ExitExplained, Finished
<1>4. AnnouncedAtZero'
  BY SMTT(60) DEF AnnouncedAtZero
<1>5. StoppedIsClean' /\ PauseMeansFastShutdown'
  BY DEF StoppedIsClean, PauseMeansFastShutdown
<1> QED
  BY <1>1, <1>2, <1>3, <1>4, <1>5, SMTT(60) DEF ControlInv

LEMMA ControlStarted ==
  ASSUME RouterInv, rpc \in {"init", "restart"}, "ShutdownFinished" \notin revents,
         NEW n \in 0 .. MaxBrokers, NEW routed, StartDispatcher(n, routed),
         rpc' \in {"poll", "events", "send", "ack"}, revents' = revents
  PROVE  ControlInv'
<1> USE DEF RouterInv
<1>0. State = "Stopped" /\ ~PauseButton /\ ShutdownFinished = 0
  BY SMTT(60) DEF StoppedIsClean
<1>1. /\ thread' = [c \in Brokers |-> IF c <= n THEN "connect" ELSE "absent"]
      /\ State' = "Started" /\ Connectors' = 1 .. n /\ RunningThreadCount' = n
      /\ OptInProgressShutdown' = [c \in Brokers |-> "none"]
      /\ ShutdownRequested' = [c \in Brokers |-> 0]
      /\ UNCHANGED <<PauseButton, ShutdownFinished>>
  BY SMTT(60) DEF StartDispatcher, MarkAllThreadsRunning
<1>2. ReadHasRequest'
  BY <1>1 DEF ReadHasRequest
<1>3. ThreadsCounted'
  <2>1. RunningThreads' = 1 .. n
    BY <1>1, BoundsAssumption DEF RunningThreads, RunningStates, Brokers
  <2>2. Cardinality(1 .. n) = n
    BY FS_Interval
  <2> QED
    BY <1>1, <2>1, <2>2, SMTT(60) DEF ThreadsCounted
<1>4. ThreadsOwned'
  BY <1>1, SMTT(60) DEF ThreadsOwned, Brokers
<1>5. ExitExplained'
  BY <1>1, SMTT(60) DEF ExitExplained, Finished
<1>6. AnnouncedAtZero'
  <2>1. n # 0 \/ Connectors' = {}
    BY <1>1, SMTT(60)
  <2> QED
    BY <1>0, <1>1, <2>1 DEF AnnouncedAtZero
<1>7. StoppedIsClean'
  BY <1>1, SMTT(60) DEF StoppedIsClean
<1>8. SeenIfAnnounced' /\ PauseMeansFastShutdown'
  BY DEF SeenIfAnnounced, PauseMeansFastShutdown, StartDispatcher
<1> QED
  BY <1>2, <1>3, <1>4, <1>5, <1>6, <1>7, <1>8, SMTT(60) DEF ControlInv

LEMMA ControlDiscarded ==
  ASSUME RouterInv, DiscardAndEnd, "ShutdownFinished" \in revents' => task' = "finish"
  PROVE  ControlInv'
<1>1. UNCHANGED controlState /\ rpc' = "end"
  BY DEF DiscardAndEnd, sharedVars, controlVars, controlState
<1>2. SeenIfAnnounced'
  BY <1>1, SMTT(60) DEF SeenIfAnnounced
<1> QED
  BY <1>1, <1>2, ControlKept, SMTT(60)

LEMMA RestartStarts ==
  ASSUME NEW final \in BOOLEAN, Restart(final)
  PROVE  \E n \in 0 .. MaxBrokers : \E routed : StartDispatcher(n, routed)
BY ZenonT(60) DEF Restart

LEMMA RouterControl ==
  ASSUME RouterInv, RouterStep
  PROVE  ControlInv'
<1> USE DEF RouterInv
<1>0. TypeOK
  OBVIOUS
<1>1. ASSUME NEW c \in Brokers, SendShutdown(c) PROVE ControlInv'
  <2>1. /\ OptShutdownCmd' = [OptShutdownCmd EXCEPT ![c] = [known |-> TRUE, cmd |-> Kind]]
        /\ ShutdownRequested' = [ShutdownRequested EXCEPT ![c] = @ + 1]
        /\ rpc = "send" /\ rpc' \in {"send", "ack"} /\ UNCHANGED <<task, revents>>
        /\ UNCHANGED <<State, Connectors, PauseButton, RunningThreadCount, ShutdownFinished,
                       thread, OptInProgressShutdown, PauseInProgress, AckWaitQueue>>
    BY <1>1, SMTT(60) DEF SendShutdown, StartShutdownOf, sharedVars, queueVars
  <2>2. ExitExplained'
    <3>1. /\ OptShutdownCmd \in [Brokers -> [known : BOOLEAN, cmd : ShutdownKinds]]
          /\ ShutdownRequested \in [Brokers -> Nat]
      BY DEF TypeOK, DispatcherTypeOK
    <3>2. Kind # "none"
      BY SMTT(60) DEF Kind
    <3>3. \A d \in Brokers : OptShutdownCmd[d].cmd # "none" => OptShutdownCmd'[d].cmd # "none"
      BY <2>1, <3>1, <3>2, SMTT(60)
    <3>4. OptShutdownCmd'[c].cmd # "none"
      BY <2>1, <3>1, <3>2, SMTT(60)
    <3>5. \A d \in Brokers \ {c} : ShutdownRequested'[d] = ShutdownRequested[d]
      BY <2>1, <3>1, ZenonT(60)
    <3> QED
      BY <2>1, <3>3, <3>4, <3>5, ZenonT(60) DEF ExitExplained, Finished
  <2>3. ReadHasRequest' /\ ThreadsCounted' /\ ThreadsOwned'
    BY <2>1, ZenonT(60) DEF ReadHasRequest, ThreadsCounted, RunningThreads, ThreadsOwned
  <2>4. AnnouncedAtZero' /\ StoppedIsClean' /\ SeenIfAnnounced' /\ PauseMeansFastShutdown'
    BY <2>1, ZenonT(60)
    DEF AnnouncedAtZero, StoppedIsClean, SeenIfAnnounced, PauseMeansFastShutdown
  <2> QED
    BY <2>2, <2>3, <2>4, SMTT(60) DEF ControlInv
<1>2. ASSUME NEW c \in Brokers, AwaitAck(c) PROVE ControlInv'
  <2>1. /\ OptShutdownCmd' = [OptShutdownCmd EXCEPT ![c].known = FALSE]
        /\ rpc = "ack" /\ rpc' = rpc /\ UNCHANGED <<task, revents>>
        /\ UNCHANGED <<State, Connectors, PauseButton, RunningThreadCount, ShutdownFinished,
                       thread, OptInProgressShutdown, PauseInProgress, ShutdownRequested,
                       AckWaitQueue>>
    BY <1>2 DEF AwaitAck, WaitForShutdownAck, sharedVars, queueVars
  <2>2. ExitExplained'
    <3>1. OptShutdownCmd \in [Brokers -> [known : BOOLEAN, cmd : ShutdownKinds]]
      BY DEF TypeOK, DispatcherTypeOK
    <3>2. \A d \in Brokers : OptShutdownCmd'[d].cmd = OptShutdownCmd[d].cmd
      BY <2>1, <3>1
    <3> QED
      BY <2>1, <3>2, SMTT(60) DEF ExitExplained, Finished
  <2>3. ReadHasRequest' /\ ThreadsCounted' /\ ThreadsOwned'
    BY <2>1 DEF ReadHasRequest, ThreadsCounted, RunningThreads, ThreadsOwned
  <2>4. AnnouncedAtZero' /\ StoppedIsClean' /\ SeenIfAnnounced' /\ PauseMeansFastShutdown'
    BY <2>1 DEF AnnouncedAtZero, StoppedIsClean, SeenIfAnnounced, PauseMeansFastShutdown
  <2> QED
    BY <2>2, <2>3, <2>4 DEF ControlInv
<1>3. CASE ShutdownBegun
  <2>1. /\ rpc = "ack" /\ State' = "ShuttingDown"
        /\ ShutdownFinished' = IF Connectors = {} THEN ShutdownFinished + 1
                               ELSE ShutdownFinished
        /\ rpc' \in {"poll", "events", "fetch", "join"}
        /\ rpc' = "join" => todo' = Connectors
        /\ UNCHANGED <<Connectors, PauseButton, RunningThreadCount, thread, revents,
                       ShutdownRequested, OptShutdownCmd, OptInProgressShutdown,
                       PauseInProgress, AckWaitQueue>>
    BY <1>3 DEF ShutdownBegun, controlVars, queueVars
  <2>2. State # "Stopped" /\ "ShutdownFinished" \notin revents
    BY <2>1, SMTT(60) DEF StoppedIsClean, SeenIfAnnounced
  <2>3. ReadHasRequest' /\ ThreadsCounted' /\ ThreadsOwned' /\ ExitExplained'
    BY <2>1, ZenonT(60)
    DEF ReadHasRequest, ThreadsCounted, RunningThreads, ThreadsOwned, ExitExplained, Finished
  <2>4. AnnouncedAtZero'
    <3>1. ShutdownFinished \in Nat
      BY SMTT(60) DEF TypeOK, DispatcherTypeOK
    <3> QED
      BY <2>1, <2>2, <3>1, SMTT(60) DEF AnnouncedAtZero
  <2>5. StoppedIsClean' /\ SeenIfAnnounced' /\ PauseMeansFastShutdown'
    BY <2>1, <2>2 DEF StoppedIsClean, SeenIfAnnounced, PauseMeansFastShutdown
  <2> QED
    BY <2>3, <2>4, <2>5 DEF ControlInv
<1>4. ASSUME NEW c \in Brokers, JoinNext(c) PROVE ControlInv'
  <2>1. /\ rpc = "join" /\ rpc' = rpc /\ todo' = todo \ {c} /\ thread[c] = "exit"
        /\ thread' = [thread EXCEPT ![c] = "absent"]
        /\ ShutdownRequested' = [ShutdownRequested EXCEPT ![c] = 0]
        /\ AckWaitQueue' = [AckWaitQueue EXCEPT ![c] = <<>>]
        /\ UNCHANGED <<State, Connectors, PauseButton, RunningThreadCount, ShutdownFinished,
                       OptShutdownCmd, OptInProgressShutdown, PauseInProgress, task, revents>>
    BY <1>4, SMTT(60) DEF JoinNext, JoinConnector, sharedVars
  <2>2. /\ thread \in [Brokers -> ThreadStates] /\ ShutdownRequested \in [Brokers -> Nat]
        /\ AckWaitQueue \in [Brokers -> Seq(SUBSET Msgs)]
    BY DEF TypeOK, DispatcherTypeOK
  <2>3. /\ thread'[c] = "absent" /\ ShutdownRequested'[c] = 0
        /\ \A d \in Brokers \ {c} : /\ thread'[d] = thread[d]
                                     /\ ShutdownRequested'[d] = ShutdownRequested[d]
                                     /\ AckWaitQueue'[d] = AckWaitQueue[d]
    BY <2>1, <2>2, SMTT(60)
  <2>4. ReadHasRequest' /\ ThreadsOwned' /\ ExitExplained'
    <3>1. \A d \in Brokers : thread'[d] # "absent" =>
            /\ d # c /\ thread'[d] = thread[d] /\ AckWaitQueue'[d] = AckWaitQueue[d]
      BY <2>3, ZenonT(60)
    <3>2. ReadHasRequest'
      BY <3>1 DEF ReadHasRequest
    <3>3. ThreadsOwned'
      BY <2>1, <3>1 DEF ThreadsOwned
    <3>4. ExitExplained'
      <4>1. ASSUME NEW d \in Brokers, thread'[d] # "absent",
                   Finished(d)' \/ OptInProgressShutdown'[d] # "none"
            PROVE  PauseButton' \/ OptShutdownCmd'[d].cmd # "none"
        <5>1. thread[d] # "absent" /\ (Finished(d) \/ OptInProgressShutdown[d] # "none")
          BY <2>1, <3>1, <4>1, ZenonT(60) DEF Finished
        <5>2. PauseButton \/ OptShutdownCmd[d].cmd # "none"
          BY <5>1, ZenonT(60) DEF ExitExplained
        <5> QED
          BY <2>1, <5>2, ZenonT(60)
      <4>2. ASSUME NEW d \in Brokers, ShutdownRequested'[d] > 0
            PROVE  OptShutdownCmd'[d].cmd # "none"
        <5>1. ShutdownRequested[d] > 0
          BY <2>3, <4>2
        <5> QED
          BY <2>1, <5>1 DEF ExitExplained
      <4> QED
        BY <4>1, <4>2, ZenonT(60) DEF ExitExplained
    <3> QED
      BY <3>2, <3>3, <3>4
  <2>5. ThreadsCounted'
    <3>1. RunningThreads' = RunningThreads
      BY <2>1, <2>3 DEF RunningThreads, RunningStates
    <3> QED
      BY <2>1, <3>1 DEF ThreadsCounted
  <2>6. AnnouncedAtZero' /\ StoppedIsClean' /\ SeenIfAnnounced' /\ PauseMeansFastShutdown'
    BY <2>1, <2>3 DEF AnnouncedAtZero, StoppedIsClean, SeenIfAnnounced, PauseMeansFastShutdown
  <2> QED
    BY <2>4, <2>5, <2>6, SMTT(60) DEF ControlInv
<1>5. CASE JoinedAll
  <2>1. /\ rpc = "join" /\ todo = {} /\ rpc' = "restart" /\ State' = "Stopped"
        /\ PauseButton' = FALSE /\ ShutdownFinished' = 0
        /\ UNCHANGED <<Connectors, RunningThreadCount, thread, ShutdownRequested,
                       OptShutdownCmd, OptInProgressShutdown, PauseInProgress, AckWaitQueue,
                       task, revents>>
    BY <1>5 DEF JoinedAll, FinishJoinAll, controlVars, queueVars, localVars
  <2>2. \A c \in Brokers : thread[c] = "absent"
    BY <2>1, SMTT(60) DEF ThreadsOwned
  <2>3. ReadHasRequest' /\ ThreadsCounted' /\ ThreadsOwned' /\ ExitExplained'
    BY <2>1, <2>2, ZenonT(60)
    DEF ReadHasRequest, ThreadsCounted, RunningThreads, ThreadsOwned, ExitExplained, Finished
  <2>4. AnnouncedAtZero' /\ StoppedIsClean' /\ SeenIfAnnounced' /\ PauseMeansFastShutdown'
    BY <2>1, <2>2, SMTT(60)
    DEF AnnouncedAtZero, StoppedIsClean, SeenIfAnnounced, PauseMeansFastShutdown
  <2> QED
    BY <2>3, <2>4, SMTT(60) DEF ControlInv
<1>6. CASE StartUp
  <2>1. CASE \E n \in 0 .. MaxBrokers : StartDispatcher(n, NoMsgs) /\ rpc' = "poll"
    <3>1. "ShutdownFinished" \notin revents /\ rpc \in {"init", "restart"} /\ revents' = revents
      BY <1>6 DEF StartUp, SeenIfAnnounced
    <3> QED
      BY <2>1, <3>1, ControlStarted, SMTT(60)
  <2>2. CASE /\ rpc' = "end"
             /\ UNCHANGED <<sharedVars, controlVars, queueVars>>
    <3>1. UNCHANGED controlState
      BY <2>2, SMTT(60) DEF sharedVars, controlVars, queueVars, controlState
    <3>2. SeenIfAnnounced'
      BY <1>6, <2>2, SMTT(60) DEF StartUp, SeenIfAnnounced
    <3> QED
      BY <2>2, <3>1, <3>2, ControlKept, SMTT(60)
  <2> QED
    BY <1>6, <2>1, <2>2 DEF StartUp
<1>7. CASE FinishPause
  <2>1. rpc = "restart" /\ task = "pause" /\ revents' = revents
    BY <1>7 DEF FinishPause
  <2>2. "ShutdownFinished" \notin revents
    BY <2>1 DEF SeenIfAnnounced
  <2>3. CASE DiscardAndEnd
    BY <2>1, <2>2, <2>3, ControlDiscarded
  <2>4. CASE Restart(ShutdownStartTime' /\ ~ShutdownStartTime) /\ rpc' \in {"send", "ack", "events"}
    BY <2>1, <2>2, <2>4, RestartStarts, ControlStarted, ZenonT(60)
  <2> QED
    BY <1>7, <2>3, <2>4, ZenonT(60) DEF FinishPause
<1>8. CASE FinishRefresh
  <2>1. rpc = "restart" /\ task = "refresh" /\ revents' = revents
    BY <1>8 DEF FinishRefresh
  <2>2. "ShutdownFinished" \notin revents
    BY <2>1 DEF SeenIfAnnounced
  <2>3. CASE DiscardAndEnd
    BY <2>1, <2>2, <2>3, ControlDiscarded
  <2>4. CASE Restart(FALSE) /\ rpc' = "events"
    BY <2>1, <2>2, <2>4, RestartStarts, ControlStarted, ZenonT(60)
  <2> QED
    BY <1>8, <2>3, <2>4, ZenonT(60) DEF FinishRefresh
<1>9. CASE FinishRouter
  BY <1>9, ControlDiscarded DEF FinishRouter, localVars
<1>10. CASE Poll
  <2>1. UNCHANGED controlState /\ rpc = "poll" /\ rpc' = "events"
    BY <1>10 DEF Poll, dispatcherVars, sharedVars, controlVars, queueVars, controlState
  <2>2. SeenIfAnnounced'
    BY <1>10, <2>1 DEF Poll, SeenIfAnnounced, controlState
  <2> QED
    BY <2>1, <2>2, ControlKept
<1>11. CASE ContinueShutdown
  <2>1. /\ UNCHANGED controlState /\ rpc = "poll" /\ rpc' \in {"send", "ack"}
        /\ revents' = revents
    BY <1>11, ZenonT(60)
    DEF ContinueShutdown, BeginShutdown, sharedVars, controlVars, controlState
  <2>2. SeenIfAnnounced'
    BY <2>1 DEF SeenIfAnnounced
  <2> QED
    BY <2>1, <2>2, ControlKept, SMTT(60)
<1>12. CASE FetchMetadata
  <2>1. /\ UNCHANGED controlState /\ rpc = "fetch" /\ rpc' = "join"
        /\ todo' = Connectors /\ revents' = revents
    BY <1>12 DEF FetchMetadata, dispatcherVars, sharedVars, controlVars, queueVars, controlState
  <2>2. SeenIfAnnounced' /\ (Connectors = {} => ShutdownFinished > 0)
    BY <2>1 DEF SeenIfAnnounced, AnnouncedAtZero
  <2> QED
    BY <2>1, <2>2, ControlKept, SMTT(60)
<1>13. CASE HandleShutdownFinished
  <2>1. /\ UNCHANGED controlState /\ rpc = "events" /\ "ShutdownFinished" \in revents
        /\ rpc' = "join" /\ todo' = Connectors /\ task' = "finish"
    BY <1>13 DEF HandleShutdownFinished, dispatcherVars, sharedVars, controlVars, queueVars,
                 controlState
  <2>2. SeenIfAnnounced' /\ ShutdownFinished > 0
    BY <2>1 DEF SeenIfAnnounced
  <2> QED
    BY <2>1, <2>2, ControlKept, SMTT(60)
<1>14. CASE HandlePause
  <2>1. /\ UNCHANGED controlState /\ rpc = "events" /\ "ShutdownFinished" \notin revents'
        /\ rpc' \in {"send", "ack"}
    BY <1>14 DEF HandlePause, BeginShutdown, dispatcherVars, sharedVars, controlVars, queueVars,
                 controlState
  <2>2. SeenIfAnnounced'
    BY <2>1 DEF SeenIfAnnounced
  <2> QED
    BY <2>1, <2>2, ControlKept, SMTT(60)
<1>15. CASE HandleMetadataUpdate
  <2>1. rpc = "events" /\ "ShutdownFinished" \notin revents'
    BY <1>15 DEF HandleMetadataUpdate
  <2>2. CASE DiscardAndEnd
    BY <2>1, <2>2, ControlDiscarded
  <2>3. CASE UNCHANGED dispatcherVars /\ rpc' \in {"send", "ack", "events"}
    <3>1. UNCHANGED controlState
      BY <2>3 DEF dispatcherVars, sharedVars, controlVars, queueVars, controlState
    <3>2. SeenIfAnnounced'
      BY <2>1 DEF SeenIfAnnounced
    <3> QED
      BY <2>1, <2>3, <3>1, <3>2, ControlKept
  <2> QED
    BY <1>15, <2>1, <2>2, <2>3, ZenonT(60) DEF HandleMetadataUpdate, BeginShutdown
<1>16. CASE HandleMessages
  <2>1. UNCHANGED controlState /\ rpc = "events" /\ rpc' = "poll" /\ revents' = {}
    BY <1>16 DEF HandleMessages, sharedVars, controlVars, controlState
  <2>2. SeenIfAnnounced'
    BY <2>1 DEF SeenIfAnnounced
  <2> QED
    BY <2>1, <2>2, ControlKept, SMTT(60)
<1> QED
  BY <1>1, <1>2, <1>3, <1>4, <1>5, <1>6, <1>7, <1>8, <1>9, <1>10, <1>11, <1>12, <1>13,
     <1>14, <1>15, <1>16, ZenonT(60)
  DEF RouterStep

LEMMA EnvironmentControl ==
  ASSUME RouterInv, \/ \E m \in Msgs : NewMsg(m)
                    \/ RequestShutdown \/ RequestMetadataUpdate \/ JoinRouter
  PROVE  ControlInv'
<1>1. UNCHANGED controlState
  BY ZenonT(60)
  DEF NewMsg, RequestShutdown, RequestMetadataUpdate, JoinRouter, dispatcherVars,
      sharedVars, controlVars, queueVars, controlState
<1>2. /\ UNCHANGED <<todo, revents, task>>
      /\ rpc' = rpc \/ (rpc = "end" /\ rpc' = "joined")
  BY ZenonT(60) DEF NewMsg, RequestShutdown, RequestMetadataUpdate, JoinRouter
<1>3. SeenIfAnnounced'
  BY <1>1, <1>2 DEF RouterInv, SeenIfAnnounced, controlState
<1>4. rpc' \in {"fetch", "join"} /\ Connectors = {} => ShutdownFinished > 0
  BY <1>2 DEF RouterInv, AnnouncedAtZero
<1> QED
  BY <1>1, <1>2, <1>3, <1>4, ControlKept, SMTT(60)

-----------------------------------------------------------------------------
(* The theorems.                                                           *)

LEMMA InitInv == Init => RouterInv
<1> SUFFICES ASSUME Init PROVE RouterInv
  BY SMTT(60)
<1> USE DEF Init, DispatcherInit
<1>1. DispatcherTypeOK
  <2>1. 0 \in 0 .. MaxBrokers /\ Connectors = 1 .. 0
    BY BoundsAssumption, SMTT(60)
  <2>2. Connectors \in {1 .. n : n \in 0 .. MaxBrokers}
    BY <2>1, SMTT(60)
  <2>3. AckWaitQueue \in [Brokers -> Seq(SUBSET Msgs)]
    BY SMTT(60)
  <2> QED
    BY <2>2, <2>3, ZenonT(60)
    DEF DispatcherTypeOK, NoMsgs, ThreadStates, ShutdownKinds, MsgStates
<1>2. RouterTypeOK
  BY ZenonT(60) DEF RouterTypeOK, RouterStates, Tasks, Events
<1>3. ThreadsCounted
  <2>1. RunningThreads = {}
    BY DEF RunningThreads, RunningStates
  <2> QED
    BY <2>1, FS_EmptySet DEF ThreadsCounted
<1>4. ReadHasRequest /\ ThreadsOwned /\ ExitExplained
  BY SMTT(60) DEF ReadHasRequest, ThreadsOwned, ExitExplained
<1>5. AnnouncedAtZero /\ StoppedIsClean /\ SeenIfAnnounced /\ PauseMeansFastShutdown
  BY DEF AnnouncedAtZero, StoppedIsClean, SeenIfAnnounced, PauseMeansFastShutdown
<1> QED
  BY <1>1, <1>2, <1>3, <1>4, <1>5 DEF RouterInv, TypeOK

LEMMA NextInv == RouterInv /\ [Next]_vars => RouterInv'
<1> SUFFICES ASSUME RouterInv, [Next]_vars PROVE RouterInv'
  OBVIOUS
<1>1. CASE \/ \E m \in Msgs : NewMsg(m)
           \/ RequestShutdown \/ RequestMetadataUpdate \/ JoinRouter
  <2>1. TypeOK'
    BY <1>1, EnvironmentTypes DEF RouterInv
  <2>2. ControlInv'
    BY <1>1, EnvironmentControl
  <2> QED
    BY <2>1, <2>2 DEF RouterInv, ControlInv
<1>2. CASE \E c \in Brokers : ConnectorStep(c) /\ UNCHANGED <<routerVars, serverVars>>
  BY <1>2, ConnectorInv
<1>3. CASE RouterStep
  <2>1. TypeOK'
    BY <1>3, RouterTypes DEF RouterInv
  <2>2. ControlInv'
    BY <1>3, RouterControl, SMTT(60)
  <2> QED
    BY <2>1, <2>2 DEF RouterInv, ControlInv
<1>4. CASE UNCHANGED vars
  <2>1. TypeOK'
    BY <1>4, ZenonT(60)
    DEF RouterInv, TypeOK, DispatcherTypeOK, RouterTypeOK, vars, dispatcherVars, sharedVars,
        controlVars, queueVars, msgVars, routerVars, serverVars
  <2>2. UNCHANGED controlState /\ UNCHANGED <<rpc, todo, revents, task>>
    BY <1>4 DEF vars, dispatcherVars, sharedVars, controlVars, queueVars, routerVars,
                controlState
  <2>3. SeenIfAnnounced' /\ (rpc' \in {"fetch", "join"} /\ Connectors = {} => ShutdownFinished > 0)
    BY <2>2 DEF RouterInv, SeenIfAnnounced, AnnouncedAtZero, controlState
  <2>4. ControlInv'
    BY <2>2, <2>3, ControlKept
  <2> QED
    BY <2>1, <2>4 DEF RouterInv, ControlInv
<1> QED
  BY <1>1, <1>2, <1>3, <1>4 DEF Next, Exited

LEMMA Invariance == Spec => []RouterInv
BY InitInv, NextInv, PTL DEF Spec

(* In every behaviour, for any number of brokers, messages and dispatcher  *)
(* restarts, the variables keep their types; in particular the count of    *)
(* running threads never goes below zero (MarkThreadFinished).             *)
THEOREM TypeCorrect == Spec => []TypeOK
<1>1. RouterInv => TypeOK
  BY DEF RouterInv
<1> QED
  BY <1>1, Invariance, PTL

(* No connector ends unless it was told to or the pause button is pressed  *)
(* (DoConnect, DoRun and HandlePauseDetected in connector.cc, JoinAll).    *)
THEOREM NoSilentExitHolds == Spec => []NoSilentExit
<1>1. RouterInv => NoSilentExit
  BY ConnectorsAreBrokers
  DEF RouterInv, TypeOK, ExitExplained, NoSilentExit, Finished
<1> QED
  BY <1>1, Invariance, PTL

(* The assertions that JoinAll, ResetThreadFinishedState, Start and        *)
(* MarkAllThreadsRunning make about the announcement, the count, the pause *)
(* button and the dispatcher state hold.                                   *)
THEOREM JoinAndStartAssertionsHold == Spec => []JoinAndStartAssertions
<1>1. ASSUME RouterInv, \A c \in Brokers : thread[c] = "absent"
      PROVE  RunningThreadCount = 0
  <2>1. RunningThreads = {}
    BY <1>1 DEF RunningThreads, RunningStates
  <2> QED
    BY <1>1, <2>1, FS_EmptySet DEF RouterInv, ThreadsCounted
<1>2. ASSUME RouterInv PROVE JoinAndStartAssertions
  <2>1. ASSUME rpc = "join", todo = {}
        PROVE  ShutdownFinished > 0 /\ RunningThreadCount = 0
    <3>1. \A c \in Brokers : thread[c] = "absent"
      BY <1>2, <2>1 DEF RouterInv, ThreadsOwned
    <3>2. RunningThreadCount = 0
      BY <1>1, <1>2, <3>1
    <3> QED
      BY <1>2, <2>1, <3>2 DEF RouterInv, AnnouncedAtZero, StoppedIsClean
  <2>2. ASSUME rpc \in {"init", "restart"}
        PROVE  /\ State = "Stopped" /\ ~PauseButton
               /\ ShutdownFinished = 0 /\ RunningThreadCount = 0
    BY <1>1, <1>2, <2>2 DEF RouterInv, StoppedIsClean
  <2> QED
    BY <2>1, <2>2 DEF JoinAndStartAssertions
<1> QED
  BY <1>2, Invariance, PTL

(* A connector that has noticed a pause stays in fast shutdown.            *)
THEOREM PauseMeansFastShutdownHolds == Spec => []PauseMeansFastShutdown
<1>1. RouterInv => PauseMeansFastShutdown
  BY DEF RouterInv
<1> QED
  BY <1>1, Invariance, PTL

(* The router sees "shutdown finished" exactly when every connector has    *)
(* called MarkThreadFinished.                                              *)
THEOREM ShutdownFinishedIsExactHolds == Spec => []ShutdownFinishedIsExact
<1>1. ASSUME RouterInv, State # "Stopped", Connectors # {}
      PROVE  ShutdownFinished > 0 <=>
               \A c \in Connectors : thread[c] \in {"marked", "exit", "absent"}
  <2>1. ShutdownFinished > 0 <=> Cardinality(RunningThreads) = 0
    BY <1>1 DEF RouterInv, AnnouncedAtZero, ThreadsCounted
  <2>2. Cardinality(RunningThreads) = 0 <=> RunningThreads = {}
    BY RunningFinite, FS_EmptySet
  <2>3. RunningThreads = {} <=>
          \A c \in Connectors : thread[c] \in {"marked", "exit", "absent"}
    <3>1. thread \in [Brokers -> ThreadStates] /\ Connectors \subseteq Brokers
      BY <1>1, ConnectorsAreBrokers, ZenonT(60) DEF RouterInv, TypeOK, DispatcherTypeOK
    <3>2. \A c \in Brokers : thread[c] # "absent" => c \in Connectors
      BY <1>1 DEF RouterInv, ThreadsOwned
    <3> QED
      BY <3>1, <3>2, SMTT(60) DEF RunningThreads, RunningStates, ThreadStates
  <2> QED
    BY <2>1, <2>2, <2>3
<1>2. RouterInv => ShutdownFinishedIsExact
  BY <1>1 DEF ShutdownFinishedIsExact
<1> QED
  BY <1>2, Invariance, PTL
==============================================================================
