--------------------------- MODULE KafkaDispatcher ---------------------------
(***************************************************************************)
(* The Kafka dispatcher (kafka_dispatcher.cc): one connector thread per    *)
(* in-service broker (connector.cc), the state the connectors share        *)
(* (dispatcher_shared_state.cc, pause_button.cc), and the treatment of     *)
(* produce responses (produce_response_processor.cc).  The operations that *)
(* the router thread calls are operators here; RouterThread composes them  *)
(* with the connectors' own steps.                                         *)
(*                                                                         *)
(* One step of a connector is one iteration of its poll loop.  The event   *)
(* that an iteration handles is the first one in the order of the code:    *)
(* shutdown request, pause, then input queue and socket.  A socket or      *)
(* clock event may happen whenever the connector waits for it.  A queue is *)
(* the set of the messages it holds; BrokerMsgQueue models its inside.     *)
(***************************************************************************)
EXTENDS Naturals, Sequences, FiniteSets

CONSTANTS
  MaxBrokers,                \* bound: the number of in-service brokers
  Msgs,                      \* the messages clients send
  MaxFailedDeliveryAttempts, \* configuration: resends allowed after error ACKs
  MaxStarts                  \* bound: the number of times the dispatcher starts

ASSUME BoundsAssumption ==
  MaxBrokers \in Nat /\ MaxFailedDeliveryAttempts \in Nat /\ MaxStarts \in Nat

Brokers == 1 .. MaxBrokers

VARIABLES
  (* TKafkaDispatcher and TDispatcherSharedState *)
  State,              \* "Stopped", "Started" or "ShuttingDown"
  Connectors,         \* the broker indexes that have a connector
  PauseButton,        \* whether the pause button is pressed
  RunningThreadCount,
  ShutdownFinished,   \* semaphore: pushed when the last connector has finished
  starts,             \* how many times Start was called
  (* TConnector, control *)
  thread,             \* where each connector's thread is
  ShutdownRequested,  \* semaphore
  ShutdownAck,        \* semaphore
  OptShutdownCmd,     \* whether it is known, and the value last put in it
  OptInProgressShutdown,
  PauseInProgress,
  (* TConnector, messages *)
  InputQueue, RequestFactory, CurrentRequest, AckWaitQueue,
  GotAckAfterPause, NoAckAfterPause, SendWaitAfterShutdown, NoAckAfterShutdown,
  (* TMsg, and what became of the messages *)
  msgState,           \* TMsg::TState, or "Absent" before the message arrives
  attempts,           \* TMsg::FailedDeliveryAttemptCount
  delivered,          \* successfully acknowledged
  discarded,          \* discarded, with a discard recorded
  destroyed,          \* deleted while it was still unprocessed
  unacked,            \* sent in full with no ACK received since
  duplicates          \* recorded as possible duplicates

sharedVars  == <<State, Connectors, PauseButton, RunningThreadCount,
                 ShutdownFinished, starts>>
controlVars == <<thread, ShutdownRequested, ShutdownAck, OptShutdownCmd,
                 OptInProgressShutdown, PauseInProgress>>
queueVars   == <<InputQueue, RequestFactory, CurrentRequest, AckWaitQueue,
                 GotAckAfterPause, NoAckAfterPause, SendWaitAfterShutdown,
                 NoAckAfterShutdown>>
msgVars     == <<msgState, attempts, delivered, discarded, destroyed, unacked,
                 duplicates>>
dispatcherVars == <<sharedVars, controlVars, queueVars, msgVars>>

(* A thread connects, loops, may be in the middle of a run of responses    *)
(* ("read"), leaves DoRun ("done"), has called MarkThreadFinished          *)
(* ("marked"), and has announced its end ("exit").                         *)
ThreadStates == {"absent", "connect", "loop", "read", "done", "marked", "exit"}
ShutdownKinds == {"none", "slow", "fast"}
MsgStates == {"Absent", "New", "Batching", "SendWait", "AckWait", "Processed"}

(* Produce request processing makes one of these of an ACK.                *)
AckActions == {"Ok", "Resend", "Discard", "Pause", "DiscardAndPause"}

DispatcherTypeOK ==
  /\ State \in {"Stopped", "Started", "ShuttingDown"}
  /\ Connectors \in {1 .. n : n \in 0 .. MaxBrokers}
  /\ PauseButton \in BOOLEAN
  /\ RunningThreadCount \in Nat
  /\ ShutdownFinished \in Nat
  /\ starts \in Nat
  /\ thread \in [Brokers -> ThreadStates]
  /\ ShutdownRequested \in [Brokers -> Nat]
  /\ ShutdownAck \in [Brokers -> Nat]
  /\ OptShutdownCmd \in [Brokers -> [known : BOOLEAN, cmd : ShutdownKinds]]
  /\ OptInProgressShutdown \in [Brokers -> ShutdownKinds]
  /\ PauseInProgress \in [Brokers -> BOOLEAN]
  /\ InputQueue \in [Brokers -> SUBSET Msgs]
  /\ RequestFactory \in [Brokers -> SUBSET Msgs]
  /\ CurrentRequest \in [Brokers -> SUBSET Msgs]
  /\ GotAckAfterPause \in [Brokers -> SUBSET Msgs]
  /\ NoAckAfterPause \in [Brokers -> SUBSET Msgs]
  /\ SendWaitAfterShutdown \in [Brokers -> SUBSET Msgs]
  /\ NoAckAfterShutdown \in [Brokers -> SUBSET Msgs]
  /\ AckWaitQueue \in [Brokers -> Seq(SUBSET Msgs)]
  /\ msgState \in [Msgs -> MsgStates]
  /\ attempts \in [Msgs -> Nat]
  /\ delivered \subseteq Msgs /\ discarded \subseteq Msgs
  /\ destroyed \subseteq Msgs /\ unacked \subseteq Msgs
  /\ duplicates \subseteq Msgs

NoMsgs == [c \in Brokers |-> {}]

(* A dispatcher that was never started.                                    *)
DispatcherInit ==
  /\ State = "Stopped" /\ Connectors = {} /\ starts = 0
  /\ PauseButton = FALSE /\ RunningThreadCount = 0 /\ ShutdownFinished = 0
  /\ thread = [c \in Brokers |-> "absent"]
  /\ ShutdownRequested = [c \in Brokers |-> 0]
  /\ ShutdownAck = [c \in Brokers |-> 0]
  /\ OptShutdownCmd = [c \in Brokers |-> [known |-> FALSE, cmd |-> "none"]]
  /\ OptInProgressShutdown = [c \in Brokers |-> "none"]
  /\ PauseInProgress = [c \in Brokers |-> FALSE]
  /\ InputQueue = NoMsgs /\ RequestFactory = NoMsgs /\ CurrentRequest = NoMsgs
  /\ AckWaitQueue = [c \in Brokers |-> <<>>]
  /\ GotAckAfterPause = NoMsgs /\ NoAckAfterPause = NoMsgs
  /\ SendWaitAfterShutdown = NoMsgs /\ NoAckAfterShutdown = NoMsgs
  /\ msgState = [m \in Msgs |-> "Absent"]
  /\ attempts = [m \in Msgs |-> 0]
  /\ delivered = {} /\ discarded = {} /\ destroyed = {}
  /\ unacked = {} /\ duplicates = {}

(* TMsgStateTracker: the messages of S enter state s.                      *)
Enter(S, s) == [m \in Msgs |-> IF m \in S THEN s ELSE msgState[m]]

-----------------------------------------------------------------------------
(* The connector thread.                                                   *)

SendInProgress(c) == CurrentRequest[c] # {}

NeedSockRead(c) == AckWaitQueue[c] # <<>>

NeedSockWrite(c) ==
  \/ SendInProgress(c)
  \/ RequestFactory[c] # {} /\ OptInProgressShutdown[c] # "fast"

(* Whether an iteration gets as far as the poll.  A connector that is      *)
(* shutting down and waits for nothing leaves its loop instead.            *)
PrepareForPoll(c) ==
  \/ OptInProgressShutdown[c] = "none"
  \/ NeedSockWrite(c)
  \/ NeedSockRead(c)

Polling(c) == thread[c] = "loop" /\ PrepareForPoll(c)

PauseDetected(c) == PauseButton /\ ~PauseInProgress[c]

(* Neither of the two events that come before socket and input queue.      *)
NothingUrgent(c) ==
  Polling(c) /\ ShutdownRequested[c] = 0 /\ ~PauseDetected(c)

(* Errors that lead to a pause do not happen in the last dispatcher the    *)
(* bound allows.                                                           *)
MayRestart == starts < MaxStarts

(* Mutant: the pause button is not pushed.                                 *)
LeaveQuietly(c) ==
  /\ MayRestart
  /\ thread' = [thread EXCEPT ![c] = "done"]
  /\ UNCHANGED PauseButton

(* A thread leaves DoRun after pushing the pause button.                   *)
PauseAndLeave(c) ==
  /\ MayRestart
  /\ PauseButton' = TRUE
  /\ thread' = [thread EXCEPT ![c] = "done"]

connectorUnchanged ==
  <<State, Connectors, RunningThreadCount, ShutdownFinished, starts>>

ConnectToBroker(c) ==
  /\ thread[c] = "connect"
  /\ \/ /\ thread' = [thread EXCEPT ![c] = "loop"]
        /\ UNCHANGED PauseButton
     \/ PauseAndLeave(c)
  /\ UNCHANGED <<connectorUnchanged, ShutdownRequested, ShutdownAck,
                 OptShutdownCmd, OptInProgressShutdown, PauseInProgress,
                 queueVars, msgVars>>

(* Nothing left to send or to wait for, or the shutdown time limit expired *)
(* while the poll waited.  (With a request partly sent the limit counts    *)
(* only if the clock was set back during the poll.)                        *)
FinishShutdown(c) ==
  /\ thread[c] = "loop"
  /\ \/ ~PrepareForPoll(c)
     \/ /\ NothingUrgent(c)
        /\ OptInProgressShutdown[c] # "none"
  /\ thread' = [thread EXCEPT ![c] = "done"]
  /\ UNCHANGED <<sharedVars, ShutdownRequested, ShutdownAck, OptShutdownCmd,
                 OptInProgressShutdown, PauseInProgress, queueVars, msgVars>>

SocketTimeout(c) ==
  /\ NothingUrgent(c)
  /\ NeedSockRead(c) \/ NeedSockWrite(c)
  /\ PauseAndLeave(c)
  /\ UNCHANGED <<connectorUnchanged, ShutdownRequested, ShutdownAck,
                 OptShutdownCmd, OptInProgressShutdown, PauseInProgress,
                 queueVars, msgVars>>

(* A slow shutdown does not undo a fast one.                               *)
SlowShutdownState(current) == IF current = "none" THEN "slow" ELSE current

(* The command is read through the optional whether or not it is known:    *)
(* without the assertion the code reads the value last stored there.       *)
HandleShutdownRequest(c) ==
  /\ Polling(c)
  /\ ShutdownRequested[c] > 0
  /\ IF OptShutdownCmd[c].cmd = "fast"
     THEN /\ OptInProgressShutdown' = [OptInProgressShutdown EXCEPT ![c] = "fast"]
          /\ UNCHANGED <<InputQueue, RequestFactory, msgState>>
     ELSE /\ RequestFactory' =
               [RequestFactory EXCEPT ![c] = @ \cup InputQueue[c]]
          /\ InputQueue' = [InputQueue EXCEPT ![c] = {}]
          /\ msgState' = Enter(InputQueue[c], "SendWait")
          /\ OptInProgressShutdown' =
               [OptInProgressShutdown EXCEPT ![c] = SlowShutdownState(@)]
  /\ ShutdownAck' = [ShutdownAck EXCEPT ![c] = @ + 1]
  /\ ShutdownRequested' = [ShutdownRequested EXCEPT ![c] = @ - 1]
  /\ UNCHANGED <<sharedVars, thread, OptShutdownCmd, PauseInProgress,
                 CurrentRequest, AckWaitQueue, GotAckAfterPause,
                 NoAckAfterPause, SendWaitAfterShutdown, NoAckAfterShutdown,
                 attempts, delivered, discarded, destroyed, unacked, duplicates>>

HandlePauseDetected(c) ==
  /\ Polling(c)
  /\ ShutdownRequested[c] = 0
  /\ PauseDetected(c)
  /\ PauseInProgress' = [PauseInProgress EXCEPT ![c] = TRUE]
  /\ OptInProgressShutdown' = [OptInProgressShutdown EXCEPT ![c] = "fast"]
  /\ UNCHANGED <<sharedVars, thread, ShutdownRequested, ShutdownAck,
                 OptShutdownCmd, queueVars, msgVars>>

(* The queue gives up some of its messages.  Its notification is watched   *)
(* until a shutdown starts; after that a poll that timed out (for a batch  *)
(* expiry, or because the clock was set back) still looks into the queue.  *)
CheckInputQueue(c) ==
  /\ NothingUrgent(c)
  /\ \E S \in SUBSET InputQueue[c] \ {{}} :
       /\ InputQueue' = [InputQueue EXCEPT ![c] = @ \ S]
       /\ RequestFactory' = [RequestFactory EXCEPT ![c] = @ \cup S]
       /\ msgState' = Enter(S, "SendWait")
  /\ UNCHANGED <<sharedVars, controlVars, CurrentRequest, AckWaitQueue,
                 GotAckAfterPause, NoAckAfterPause, SendWaitAfterShutdown,
                 NoAckAfterShutdown, attempts, delivered, discarded, destroyed,
                 unacked, duplicates>>

(* A request is built from messages of the factory unless one is partly    *)
(* sent, and is then sent in full, sent in part, or the connection is lost.*)
HandleSockWriteReady(c) ==
  /\ NothingUrgent(c)
  /\ NeedSockWrite(c)
  /\ \E R \in IF SendInProgress(c) THEN {CurrentRequest[c]}
              ELSE SUBSET RequestFactory[c] \ {{}} :
       /\ RequestFactory' = [RequestFactory EXCEPT ![c] = @ \ R]
       /\ \/ /\ CurrentRequest' = [CurrentRequest EXCEPT ![c] = R]
             /\ \/ PauseAndLeave(c)
                \/ UNCHANGED <<PauseButton, thread>>
             /\ UNCHANGED <<AckWaitQueue, msgState, unacked>>
          \/ /\ CurrentRequest' = [CurrentRequest EXCEPT ![c] = {}]
             /\ AckWaitQueue' = [AckWaitQueue EXCEPT ![c] = Append(@, R)]
             /\ msgState' = Enter(R, "AckWait")
             /\ unacked' = unacked \cup R
             /\ UNCHANGED <<PauseButton, thread>>
  /\ UNCHANGED <<connectorUnchanged, ShutdownRequested, ShutdownAck,
                 OptShutdownCmd, OptInProgressShutdown, PauseInProgress,
                 InputQueue, GotAckAfterPause, NoAckAfterPause,
                 SendWaitAfterShutdown, NoAckAfterShutdown, attempts,
                 delivered, discarded, destroyed, duplicates>>

(* A read brings a complete response, or the connection is lost, closed by *)
(* the broker, or carries an invalid size.  (A read that completes no      *)
(* response changes nothing here.)                                         *)
HandleSockReadReady(c) ==
  /\ NothingUrgent(c)
  /\ NeedSockRead(c)
  /\ \/ /\ thread' = [thread EXCEPT ![c] = "read"]
        /\ UNCHANGED PauseButton
     \/ PauseAndLeave(c)
  /\ UNCHANGED <<connectorUnchanged, ShutdownRequested, ShutdownAck,
                 OptShutdownCmd, OptInProgressShutdown, PauseInProgress,
                 queueVars, msgVars>>

(* What CountFailedDeliveryAttempt lets through of the messages in S.      *)
BelowAttemptLimit(S) ==
  {m \in S : attempts[m] + 1 <= MaxFailedDeliveryAttempts}

(* ProcessOneAck for the messages of A, where ack[m] is the action for m.  *)
Acked(A, ack, action) == {m \in A : ack[m] = action}
Resendable(A, ack) == BelowAttemptLimit(Acked(A, ack, "Resend"))
PauseResendable(A, ack) == BelowAttemptLimit(Acked(A, ack, "Pause"))
DiscardedByAck(A, ack) ==
  {m \in A : ack[m] \in {"Resend", "Discard", "Pause", "DiscardAndPause"}}
    \ (Resendable(A, ack) \cup PauseResendable(A, ack))

(* What is made of the rest of a request when its response ends early.  A  *)
(* response with the wrong correlation id, an unexpected topic or          *)
(* partition, or a list that is too short ("mismatch") leaves the messages *)
(* without an ACK to be resent.  A response that cannot be parsed further  *)
(* ("bad", the exception TBadProduceResponse) takes the request with it.   *)
NoAckMsgs(rest, kind) == IF kind = "mismatch" THEN rest ELSE {}
DestroyedMsgs(rest, kind) == IF kind = "bad" THEN rest ELSE {}

(* Mutant: messages without an ACK are not sent again.                     *)
RequeuedAcked(A, ack, rest, kind) ==
  Resendable(A, ack) \cup PauseResendable(A, ack)

(* The messages that will be sent again, now or after the pause.           *)
Requeued(A, ack, rest, kind) ==
  Resendable(A, ack) \cup PauseResendable(A, ack) \cup NoAckMsgs(rest, kind)

(* The response to the oldest request gives ACKs for the messages of A.    *)
(* kind = "complete": for all of them.                                     *)
ProcessResponse(c, A, ack, kind) ==
  LET rest == Head(AckWaitQueue[c]) \ A
      failed == Acked(A, ack, "Resend") \cup Acked(A, ack, "Pause")
      processed == Acked(A, ack, "Ok") \cup DiscardedByAck(A, ack)
  IN
  /\ AckWaitQueue' = [AckWaitQueue EXCEPT ![c] = Tail(@)]
  /\ RequestFactory' = [RequestFactory EXCEPT ![c] = @ \cup Resendable(A, ack)]
  /\ GotAckAfterPause' =
       [GotAckAfterPause EXCEPT ![c] = @ \cup PauseResendable(A, ack)]
  /\ NoAckAfterPause' = [NoAckAfterPause EXCEPT ![c] = @ \cup NoAckMsgs(rest, kind)]
  /\ msgState' = [m \in Msgs |-> CASE m \in processed -> "Processed"
                                   [] m \in Requeued(A, ack, rest, kind) -> "SendWait"
                                   [] OTHER -> msgState[m]]
  /\ attempts' = [m \in Msgs |-> IF m \in failed THEN attempts[m] + 1 ELSE attempts[m]]
  /\ delivered' = delivered \cup Acked(A, ack, "Ok")
  /\ discarded' = discarded \cup DiscardedByAck(A, ack)
  /\ destroyed' = destroyed \cup DestroyedMsgs(rest, kind)
  /\ unacked' = unacked \ A

PauseAck(A, ack) == \E m \in A : ack[m] \in {"Pause", "DiscardAndPause"}

(* A complete response may start a pause, after which the connector keeps  *)
(* processing responses; what comes after it in the buffer is nothing      *)
(* complete, the next response, or something that cannot be expected here. *)
(* Any other response ends the connector.                                  *)
ProcessSingleProduceResponse(c) ==
  /\ thread[c] = "read"
  /\ \E A \in SUBSET Head(AckWaitQueue[c]), kind \in {"complete", "mismatch", "bad"} :
     \E ack \in [A -> AckActions] :
       /\ ProcessResponse(c, A, ack, kind)
       /\ IF kind = "complete"
          THEN /\ A = Head(AckWaitQueue[c])
               /\ PauseAck(A, ack) => MayRestart
               /\ PauseInProgress' =
                    [PauseInProgress EXCEPT ![c] = @ \/ PauseAck(A, ack)]
               /\ OptInProgressShutdown' =
                    [OptInProgressShutdown EXCEPT ![c] =
                       IF PauseAck(A, ack) THEN "fast" ELSE @]
               /\ \/ /\ thread' = [thread EXCEPT ![c] = "loop"]
                     /\ PauseButton' = (PauseButton \/ PauseAck(A, ack))
                  \/ /\ Tail(AckWaitQueue[c]) # <<>>
                     /\ PauseButton' = (PauseButton \/ PauseAck(A, ack))
                     /\ UNCHANGED thread
                  \/ PauseAndLeave(c)
          ELSE /\ PauseAndLeave(c)
               /\ UNCHANGED <<PauseInProgress, OptInProgressShutdown>>
  /\ UNCHANGED <<connectorUnchanged, ShutdownRequested, ShutdownAck,
                 OptShutdownCmd, InputQueue, CurrentRequest,
                 SendWaitAfterShutdown, NoAckAfterShutdown, duplicates>>

(* Mutant: the test looks at the count before the decrement.               *)
FinishesLastTooLate == RunningThreadCount = 0

(* The decrement of the count yields 0.                                    *)
FinishesLast == RunningThreadCount = 1

MarkThreadFinished(c) ==
  /\ thread[c] = "done"
  /\ thread' = [thread EXCEPT ![c] = "marked"]
  /\ RunningThreadCount' = RunningThreadCount - 1
  /\ ShutdownFinished' = IF FinishesLast THEN ShutdownFinished + 1
                         ELSE ShutdownFinished
  /\ UNCHANGED <<State, Connectors, PauseButton, starts, ShutdownRequested,
                 ShutdownAck, OptShutdownCmd, OptInProgressShutdown,
                 PauseInProgress, queueVars, msgVars>>

(* RunAndTerminate announces the end of the thread.                        *)
Terminate(c) ==
  /\ thread[c] = "marked"
  /\ thread' = [thread EXCEPT ![c] = "exit"]
  /\ UNCHANGED <<sharedVars, ShutdownRequested, ShutdownAck, OptShutdownCmd,
                 OptInProgressShutdown, PauseInProgress, queueVars, msgVars>>

ConnectorStep(c) ==
  \/ ConnectToBroker(c)
  \/ FinishShutdown(c)
  \/ SocketTimeout(c)
  \/ HandleShutdownRequest(c)
  \/ HandlePauseDetected(c)
  \/ CheckInputQueue(c)
  \/ HandleSockWriteReady(c)
  \/ HandleSockReadReady(c)
  \/ ProcessSingleProduceResponse(c)
  \/ MarkThreadFinished(c)
  \/ Terminate(c)

-----------------------------------------------------------------------------
(* What the router thread calls.  Each leaves msgVars, and what it does    *)
(* not name, to its caller.                                                *)

StartShutdownOf(c, kind) ==
  /\ OptShutdownCmd' = [OptShutdownCmd EXCEPT ![c] = [known |-> TRUE, cmd |-> kind]]
  /\ ShutdownRequested' = [ShutdownRequested EXCEPT ![c] = @ + 1]
  /\ UNCHANGED <<thread, ShutdownAck, OptInProgressShutdown, PauseInProgress>>

(* Mutant: the end of the thread does not end the wait.                    *)
WaitForShutdownAckOnly(c) ==
  /\ ShutdownAck[c] > 0
  /\ OptShutdownCmd' = [OptShutdownCmd EXCEPT ![c].known = FALSE]
  /\ UNCHANGED <<thread, ShutdownRequested, ShutdownAck,
                 OptInProgressShutdown, PauseInProgress>>

(* The wait ends with an acknowledgement or with the end of the thread.    *)
WaitForShutdownAck(c) ==
  /\ ShutdownAck[c] > 0 \/ thread[c] = "exit"
  /\ OptShutdownCmd' = [OptShutdownCmd EXCEPT ![c].known = FALSE]
  /\ UNCHANGED <<thread, ShutdownRequested, ShutdownAck,
                 OptInProgressShutdown, PauseInProgress>>

Flatten(requests) == UNION {requests[i] : i \in DOMAIN requests}

(* Mutant: what was kept for after the pause is forgotten.                 *)
LeftToSendUnacked(c) == CurrentRequest[c] \cup RequestFactory[c] \cup InputQueue[c]
(* Mutant: likewise, for what had no ACK at the pause.                     *)
LeftWithoutAckSent(c) == Flatten(AckWaitQueue[c])

(* The two lists that CleanupAfterJoin leaves for the router.              *)
LeftToSend(c) ==
  CurrentRequest[c] \cup GotAckAfterPause[c] \cup RequestFactory[c] \cup InputQueue[c]
LeftWithoutAck(c) == NoAckAfterPause[c] \cup Flatten(AckWaitQueue[c])

(* Join and CleanupAfterJoin.                                              *)
JoinConnector(c) ==
  /\ thread[c] = "exit"
  /\ thread' = [thread EXCEPT ![c] = "absent"]
  /\ ShutdownRequested' = [ShutdownRequested EXCEPT ![c] = 0]
  /\ SendWaitAfterShutdown' = [SendWaitAfterShutdown EXCEPT ![c] = LeftToSend(c)]
  /\ NoAckAfterShutdown' = [NoAckAfterShutdown EXCEPT ![c] = LeftWithoutAck(c)]
  /\ CurrentRequest' = [CurrentRequest EXCEPT ![c] = {}]
  /\ GotAckAfterPause' = [GotAckAfterPause EXCEPT ![c] = {}]
  /\ RequestFactory' = [RequestFactory EXCEPT ![c] = {}]
  /\ InputQueue' = [InputQueue EXCEPT ![c] = {}]
  /\ NoAckAfterPause' = [NoAckAfterPause EXCEPT ![c] = {}]
  /\ AckWaitQueue' = [AckWaitQueue EXCEPT ![c] = <<>>]
  /\ msgState' = Enter(InputQueue[c], "SendWait")
  /\ UNCHANGED <<ShutdownAck, OptShutdownCmd, OptInProgressShutdown,
                 PauseInProgress>>

(* The end of JoinAll, when every connector has been joined.               *)
FinishJoinAll ==
  /\ PauseButton' = FALSE
  /\ ShutdownFinished' = 0
  /\ State' = "Stopped"
  /\ UNCHANGED <<Connectors, RunningThreadCount, starts>>

MarkAllThreadsRunning(n) == RunningThreadCount' = n

(* Start with n in-service brokers, followed by the dispatch of the        *)
(* messages that have a route to a connector.                              *)
StartDispatcher(n, routed) ==
  /\ State' = "Started"
  /\ Connectors' = 1 .. n
  /\ MarkAllThreadsRunning(n)
  /\ starts' = starts + 1
  /\ thread' = [c \in Brokers |-> IF c <= n THEN "connect" ELSE "absent"]
  /\ ShutdownRequested' = [c \in Brokers |-> 0]
  /\ ShutdownAck' = [c \in Brokers |-> 0]
  /\ OptShutdownCmd' = [c \in Brokers |-> [known |-> FALSE, cmd |-> "none"]]
  /\ OptInProgressShutdown' = [c \in Brokers |-> "none"]
  /\ PauseInProgress' = [c \in Brokers |-> FALSE]
  /\ InputQueue' = routed
  /\ RequestFactory' = NoMsgs /\ CurrentRequest' = NoMsgs
  /\ AckWaitQueue' = [c \in Brokers |-> <<>>]
  /\ GotAckAfterPause' = NoMsgs /\ NoAckAfterPause' = NoMsgs
  /\ SendWaitAfterShutdown' = NoMsgs /\ NoAckAfterShutdown' = NoMsgs
  /\ UNCHANGED <<PauseButton, ShutdownFinished>>
==============================================================================
