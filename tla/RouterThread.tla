---------------------------- MODULE RouterThread -----------------------------
(***************************************************************************)
(* The router thread (router_thread.cc) with the dispatcher it drives, the *)
(* parts of the main thread that stop it (dory_server.cc), and the HTTP    *)
(* request for a metadata update.                                          *)
(*                                                                         *)
(* An iteration of the main loop polls once and then handles the events    *)
(* of that poll in the order of the code, each from the state it finds.    *)
(* Shutting the dispatcher down is a command to every connector, a wait    *)
(* for every acknowledgement and a join of every thread, one connector at  *)
(* a time.  Which topics exist, and so which messages are valid and where  *)
(* they go, is a choice: a valid message has a route to a connector.       *)
(* Automatic topic creation is off.                                        *)
(***************************************************************************)
EXTENDS KafkaDispatcher, TLC

CONSTANTS
  CompareMetadataOnRefresh,  \* configuration: fetch and compare before a restart
  MaxUpdateRequests          \* bound: the number of HTTP metadata update requests

ASSUME RouterAssumption ==
  CompareMetadataOnRefresh \in BOOLEAN /\ MaxUpdateRequests \in Nat

VARIABLES
  rpc,        \* where the router thread is
  task,       \* why the dispatcher is being shut down
  todo,       \* the connectors that the loop of the current step has yet to visit
  revents,    \* the events of the last poll that are not handled yet
  gotMetadata,               \* whether the fetch of this task brought metadata
  ShutdownStartTime,         \* whether it is known
  NeedToContinueShutdown,
  ShutdownRequest,           \* the router thread's shutdown request semaphore
  MetadataUpdateRequestSem,
  MsgChannel,                \* messages from the input agents
  PerTopicBatcher,           \* messages the router batches
  stopping,                  \* whether the main thread has begun to shut down
  updateRequests             \* HTTP metadata update requests so far

routerVars == <<rpc, task, todo, revents, gotMetadata, ShutdownStartTime,
                NeedToContinueShutdown, ShutdownRequest,
                MetadataUpdateRequestSem, MsgChannel, PerTopicBatcher>>
serverVars == <<stopping, updateRequests>>
vars == <<dispatcherVars, routerVars, serverVars>>

(* "send" and "ack" are the two loops of a StartSlowShutdown or            *)
(* StartFastShutdown, "join" is JoinAll, "restart" what follows a join.    *)
RouterStates == {"init", "poll", "events", "send", "ack", "fetch", "join",
                 "restart", "end", "joined"}

(* "pause" and "refresh" stop the dispatcher to start it again, "continue" *)
(* and "resend" begin a slow shutdown, "finish" follows its end.           *)
Tasks == {"none", "pause", "refresh", "continue", "resend", "finish"}

Events == {"ShutdownRequest", "ShutdownFinished", "Pause", "MdUpdateRequest",
           "MdRefresh", "MsgAvailable"}

RouterTypeOK ==
  /\ rpc \in RouterStates /\ task \in Tasks
  /\ todo \in SUBSET Brokers /\ revents \in SUBSET Events
  /\ gotMetadata \in BOOLEAN
  /\ ShutdownStartTime \in BOOLEAN /\ NeedToContinueShutdown \in BOOLEAN
  /\ ShutdownRequest \in BOOLEAN /\ MetadataUpdateRequestSem \in Nat
  /\ MsgChannel \in SUBSET Msgs /\ PerTopicBatcher \in SUBSET Msgs
  /\ stopping \in BOOLEAN /\ updateRequests \in Nat

(* The variables have the types the code gives them.                       *)
TypeOK == DispatcherTypeOK /\ RouterTypeOK

Init ==
  /\ DispatcherInit
  /\ rpc = "init" /\ task = "none" /\ todo = {} /\ revents = {}
  /\ gotMetadata = FALSE
  /\ ShutdownStartTime = FALSE /\ NeedToContinueShutdown = FALSE
  /\ ShutdownRequest = FALSE /\ MetadataUpdateRequestSem = 0
  /\ MsgChannel = {} /\ PerTopicBatcher = {}
  /\ stopping = FALSE /\ updateRequests = 0

-----------------------------------------------------------------------------
(* The threads around the router.                                          *)

(* An input agent accepts a message.                                       *)
NewMsg(m) ==
  /\ ~stopping
  /\ msgState[m] = "Absent"
  /\ msgState' = Enter({m}, "New")
  /\ MsgChannel' = MsgChannel \cup {m}
  /\ UNCHANGED <<sharedVars, controlVars, queueVars, attempts, delivered,
                 discarded, destroyed, unacked, duplicates, rpc, task, todo,
                 revents, gotMetadata,
                 ShutdownStartTime, NeedToContinueShutdown, ShutdownRequest,
                 MetadataUpdateRequestSem, PerTopicBatcher, serverVars>>

(* The main thread has stopped the input agents and stops the router.      *)
RequestShutdown ==
  /\ ~stopping
  /\ stopping' = TRUE
  /\ ShutdownRequest' = TRUE
  /\ UNCHANGED <<dispatcherVars, rpc, task, todo, revents, gotMetadata, ShutdownStartTime,
                 NeedToContinueShutdown, MetadataUpdateRequestSem, MsgChannel,
                 PerTopicBatcher, updateRequests>>

(* The web interface runs until the router thread has been joined.         *)
RequestMetadataUpdate ==
  /\ rpc # "joined"
  /\ updateRequests < MaxUpdateRequests
  /\ updateRequests' = updateRequests + 1
  /\ MetadataUpdateRequestSem' = MetadataUpdateRequestSem + 1
  /\ UNCHANGED <<dispatcherVars, rpc, task, todo, revents, gotMetadata, ShutdownStartTime,
                 NeedToContinueShutdown, ShutdownRequest, MsgChannel,
                 PerTopicBatcher, stopping>>

(* The main thread joins the router and discards what is left for it.      *)
JoinRouter ==
  /\ rpc = "end"
  /\ stopping
  /\ rpc' = "joined"
  /\ MsgChannel' = {}
  /\ discarded' = discarded \cup MsgChannel
  /\ msgState' = Enter(MsgChannel, "Processed")
  /\ UNCHANGED <<sharedVars, controlVars, queueVars, attempts, delivered,
                 destroyed, unacked, duplicates, task, todo, revents,
                 gotMetadata, ShutdownStartTime,
                 NeedToContinueShutdown, ShutdownRequest,
                 MetadataUpdateRequestSem, PerTopicBatcher, serverVars>>

-----------------------------------------------------------------------------
(* Pieces of the router's steps.                                           *)

shutdownVars == <<ShutdownStartTime, NeedToContinueShutdown, ShutdownRequest>>
localVars == <<task, todo, gotMetadata>>
fateVars == <<attempts, delivered, destroyed, unacked>>

StartShutdown ==
  /\ ShutdownStartTime' = TRUE
  /\ NeedToContinueShutdown' = TRUE
  /\ ShutdownRequest' = FALSE

(* GetMetadata: it gives up only when the time limit of a slow shutdown    *)
(* expires, and that shutdown may be one it learns of between two tries.   *)
GetMetadata(ok) ==
  \/ ~ShutdownStartTime /\ ok /\ UNCHANGED shutdownVars
  \/ ~ShutdownStartTime /\ ShutdownRequest /\ StartShutdown
  \/ ShutdownStartTime /\ UNCHANGED shutdownVars

(* A route is a connector, 0 for a message that is discarded because its   *)
(* topic is unknown or unavailable, or Held for one that the router keeps  *)
(* in its own batcher.                                                     *)
Held == MaxBrokers + 1
Routed(route) == [c \in Brokers |-> {m \in DOMAIN route : route[m] = c}]
Invalid(route) == {m \in DOMAIN route : route[m] = 0}

(* RouteFinalMsgs: batched messages have valid topics, new ones may not.   *)
FinalRoutes(batched, new, conns) ==
  {route \in [batched \cup new -> conns \cup {0}] :
     \A m \in batched : route[m] # 0}

(* Discard the messages of D and dispatch the others of S with PutNow.     *)
RouteNow(S, D) == [m \in Msgs |-> CASE m \in D -> "Processed"
                                    [] m \in S \ D -> "SendWait"
                                    [] OTHER -> msgState[m]]

(* The beginning of Dispatcher.StartSlowShutdown or StartFastShutdown.     *)
BeginShutdown(why) ==
  /\ task' = why
  /\ todo' = Connectors
  /\ rpc' = IF Connectors = {} THEN "ack" ELSE "send"

Kind == IF task \in {"pause", "refresh"} THEN "fast" ELSE "slow"

(* The loops over the connectors go through them in order.                 *)
NextConnector(c) == c \in todo /\ \A d \in todo : c <= d

(* GetSendWaitQueueAfterShutdown and GetNoAckQueueAfterShutdown.           *)
LeftInDispatcher ==
  UNION {SendWaitAfterShutdown[c] \cup NoAckAfterShutdown[c] : c \in Connectors}
(* Mutant: the two lists are taken for each other.                         *)
PossibleDuplicatesSwapped == UNION {SendWaitAfterShutdown[c] : c \in Connectors}
PossibleDuplicates == UNION {NoAckAfterShutdown[c] : c \in Connectors}

-----------------------------------------------------------------------------
(* The router thread.                                                      *)

(* Init: the first metadata arrives and the dispatcher starts, or a        *)
(* shutdown request comes before it does.                                  *)
StartUp ==
  /\ rpc = "init"
  /\ \/ /\ \E n \in 0 .. MaxBrokers : StartDispatcher(n, NoMsgs)
        /\ rpc' = "poll"
        /\ UNCHANGED <<MsgChannel, msgVars>>
     \/ /\ ShutdownRequest
        /\ rpc' = "end"
        /\ discarded' = discarded \cup MsgChannel
        /\ msgState' = Enter(MsgChannel, "Processed")
        /\ MsgChannel' = {}
        /\ UNCHANGED <<sharedVars, controlVars, queueVars, fateVars, duplicates>>
  /\ UNCHANGED <<localVars, revents, shutdownVars,
                 MetadataUpdateRequestSem, PerTopicBatcher, serverVars>>

(* The poll of the main loop, with StartShutdown, which comes first.       *)
Poll ==
  /\ rpc = "poll" /\ ~NeedToContinueShutdown
  /\ \E refresh \in SUBSET (IF ShutdownStartTime \/ ~MayRestart THEN {} ELSE {"MdRefresh"}) :
     \E expired \in {PerTopicBatcher # {}, FALSE} :
       LET ready == refresh
             \cup (IF ShutdownRequest THEN {"ShutdownRequest"} ELSE {})
             \cup (IF ShutdownStartTime /\ ShutdownFinished > 0
                     THEN {"ShutdownFinished"} ELSE {})
             \cup (IF PauseButton THEN {"Pause"} ELSE {})
             \cup (IF MetadataUpdateRequestSem > 0 THEN {"MdUpdateRequest"} ELSE {})
             \cup (IF ~ShutdownStartTime /\ MsgChannel # {}
                     THEN {"MsgAvailable"} ELSE {})
       IN /\ ready # {} \/ expired
          /\ revents' = ready \ {"ShutdownRequest"}
  /\ IF ShutdownRequest THEN StartShutdown ELSE UNCHANGED shutdownVars
  /\ rpc' = "events"
  /\ UNCHANGED <<dispatcherVars, localVars, MetadataUpdateRequestSem,
                 MsgChannel, PerTopicBatcher, serverVars>>

(* What is left of a shutdown request when the next iteration begins.      *)
ContinueShutdown ==
  /\ rpc = "poll" /\ NeedToContinueShutdown
  /\ NeedToContinueShutdown' = FALSE
  /\ \E route \in FinalRoutes(PerTopicBatcher, MsgChannel, Connectors) :
       /\ InputQueue' = [c \in Brokers |-> InputQueue[c] \cup Routed(route)[c]]
       /\ discarded' = discarded \cup Invalid(route)
       /\ msgState' = RouteNow(DOMAIN route, Invalid(route))
  /\ PerTopicBatcher' = {} /\ MsgChannel' = {}
  /\ BeginShutdown("continue")
  /\ UNCHANGED <<sharedVars, controlVars, RequestFactory, CurrentRequest,
                 AckWaitQueue, GotAckAfterPause, NoAckAfterPause,
                 SendWaitAfterShutdown, NoAckAfterShutdown, fateVars,
                 duplicates, revents, gotMetadata,
                 ShutdownStartTime, ShutdownRequest, MetadataUpdateRequestSem,
                 serverVars>>

(* StartSlowShutdown and StartFastShutdown, first loop.                    *)
SendShutdown(c) ==
  /\ rpc = "send" /\ NextConnector(c)
  /\ StartShutdownOf(c, Kind)
  /\ IF todo = {c} THEN rpc' = "ack" /\ todo' = Connectors
     ELSE rpc' = rpc /\ todo' = todo \ {c}
  /\ UNCHANGED <<sharedVars, queueVars, msgVars, task, revents, gotMetadata, shutdownVars,
                 MetadataUpdateRequestSem, MsgChannel, PerTopicBatcher,
                 serverVars>>

(* Second loop.                                                            *)
AwaitAck(c) ==
  /\ rpc = "ack" /\ NextConnector(c)
  /\ WaitForShutdownAck(c)
  /\ todo' = todo \ {c}
  /\ UNCHANGED <<sharedVars, queueVars, msgVars, rpc, task, revents,
                 gotMetadata, shutdownVars,
                 MetadataUpdateRequestSem, MsgChannel, PerTopicBatcher,
                 serverVars>>

(* The dispatcher is shutting down; its caller goes on.                    *)
ShutdownBegun ==
  /\ rpc = "ack" /\ todo = {}
  /\ State' = "ShuttingDown"
  /\ ShutdownFinished' = IF Connectors = {} THEN ShutdownFinished + 1
                         ELSE ShutdownFinished
  /\ rpc' = CASE task = "continue" -> "poll"
              [] task = "resend" -> "events"
              [] task = "refresh" /\ ~gotMetadata -> "fetch"
              [] OTHER -> "join"
  /\ todo' = IF rpc' = "join" THEN Connectors ELSE {}
  /\ task' = IF rpc' \in {"poll", "events"} THEN "none" ELSE task
  /\ UNCHANGED <<Connectors, PauseButton, RunningThreadCount, starts,
                 controlVars, queueVars, msgVars, revents, gotMetadata, shutdownVars,
                 MetadataUpdateRequestSem, MsgChannel, PerTopicBatcher,
                 serverVars>>

(* ReplaceMetadataOnRefresh, "metadata fetch 2".                           *)
FetchMetadata ==
  /\ rpc = "fetch"
  /\ \E ok \in BOOLEAN : GetMetadata(ok) /\ gotMetadata' = ok
  /\ rpc' = "join" /\ todo' = Connectors
  /\ UNCHANGED <<dispatcherVars, task, revents,
                 MetadataUpdateRequestSem, MsgChannel, PerTopicBatcher,
                 serverVars>>

(* JoinAll, its loop and its end.                                          *)
JoinNext(c) ==
  /\ rpc = "join" /\ NextConnector(c)
  /\ JoinConnector(c)
  /\ todo' = todo \ {c}
  /\ UNCHANGED <<sharedVars, attempts, delivered, discarded, destroyed,
                 unacked, duplicates, rpc, task, revents, gotMetadata, shutdownVars,
                 MetadataUpdateRequestSem, MsgChannel, PerTopicBatcher,
                 serverVars>>

JoinedAll ==
  /\ rpc = "join" /\ todo = {}
  /\ FinishJoinAll
  /\ rpc' = "restart"
  /\ UNCHANGED <<controlVars, queueVars, msgVars, localVars, revents,
                 shutdownVars, MetadataUpdateRequestSem, MsgChannel,
                 PerTopicBatcher, serverVars>>

(* EmptyDispatcher, discard what it held, leave the main loop, discard     *)
(* what the router was batching.                                           *)
DiscardAndEnd ==
  /\ duplicates' = duplicates \cup PossibleDuplicates
  /\ discarded' = discarded \cup LeftInDispatcher \cup PerTopicBatcher
  /\ msgState' = Enter(LeftInDispatcher \cup PerTopicBatcher, "Processed")
  /\ SendWaitAfterShutdown' = NoMsgs /\ NoAckAfterShutdown' = NoMsgs
  /\ PerTopicBatcher' = {}
  /\ rpc' = "end"
  /\ UNCHANGED <<sharedVars, controlVars, InputQueue, RequestFactory,
                 CurrentRequest, AckWaitQueue, GotAckAfterPause,
                 NoAckAfterPause, fateVars, MsgChannel>>

(* SetMetadata (which discards the messages D the router batched for       *)
(* topics that are gone), EmptyDispatcher, Start and Reroute; then, with   *)
(* final, RouteFinalMsgs.                                                  *)
Restart(final) ==
  \E n \in 0 .. MaxBrokers, D \in SUBSET PerTopicBatcher :
    LET kept == PerTopicBatcher \ D IN
    /\ n = 0 => kept = {}
    /\ \E route \in [LeftInDispatcher -> 0 .. n] :
       \E routeFinal \in IF final THEN FinalRoutes(kept, MsgChannel, 1 .. n)
                         ELSE {<<>>} :
         LET gone == D \cup Invalid(route) \cup Invalid(routeFinal) IN
         /\ StartDispatcher(n, [c \in Brokers |-> Routed(route)[c]
                                                   \cup Routed(routeFinal)[c]])
         /\ discarded' = discarded \cup gone
         /\ msgState' = RouteNow(DOMAIN route \cup DOMAIN routeFinal, gone)
    /\ duplicates' = duplicates \cup PossibleDuplicates
    /\ PerTopicBatcher' = IF final THEN {} ELSE kept
    /\ MsgChannel' = IF final THEN {} ELSE MsgChannel
    /\ UNCHANGED fateVars

(* HandlePause after JoinAll.                                              *)
FinishPause ==
  /\ rpc = "restart" /\ task = "pause"
  /\ \/ GetMetadata(FALSE) /\ DiscardAndEnd /\ UNCHANGED <<task, todo>>
     \/ /\ GetMetadata(TRUE)
        /\ Restart(ShutdownStartTime' /\ ~ShutdownStartTime)
        /\ IF ShutdownStartTime'
           THEN /\ task' = "resend"
                /\ todo' = Connectors'
                /\ rpc' = IF Connectors' = {} THEN "ack" ELSE "send"
           ELSE rpc' = "events" /\ task' = "none" /\ UNCHANGED todo
  /\ UNCHANGED <<revents, gotMetadata, MetadataUpdateRequestSem, serverVars>>

(* ReplaceMetadataOnRefresh after JoinAll.                                 *)
FinishRefresh ==
  /\ rpc = "restart" /\ task = "refresh"
  /\ IF gotMetadata THEN Restart(FALSE) /\ rpc' = "events" ELSE DiscardAndEnd
  /\ task' = "none" /\ gotMetadata' = FALSE
  /\ UNCHANGED <<todo, revents, shutdownVars, MetadataUpdateRequestSem,
                 serverVars>>

(* HandleShutdownFinished after JoinAll, and the end of the router thread. *)
FinishRouter ==
  /\ rpc = "restart" /\ task = "finish"
  /\ DiscardAndEnd
  /\ UNCHANGED <<localVars, revents, shutdownVars, MetadataUpdateRequestSem,
                 serverVars>>

HandleShutdownFinished ==
  /\ rpc = "events" /\ "ShutdownFinished" \in revents
  /\ rpc' = "join" /\ todo' = Connectors /\ task' = "finish"
  /\ UNCHANGED <<dispatcherVars, revents, gotMetadata, shutdownVars,
                 MetadataUpdateRequestSem, MsgChannel, PerTopicBatcher,
                 serverVars>>

HandlePause ==
  /\ rpc = "events" /\ "ShutdownFinished" \notin revents /\ "Pause" \in revents
  /\ revents' = revents \ {"Pause"}
  /\ BeginShutdown("pause")
  /\ UNCHANGED <<dispatcherVars, gotMetadata,
                 shutdownVars, MetadataUpdateRequestSem, MsgChannel,
                 PerTopicBatcher, serverVars>>

(* HandleMetadataUpdate and RefreshMetadata up to the dispatcher shutdown. *)
(* With CompareMetadataOnRefresh, metadata is fetched first and the        *)
(* dispatcher is left alone when nothing changed.                          *)
HandleMetadataUpdate ==
  /\ rpc = "events" /\ revents \cap {"ShutdownFinished", "Pause"} = {}
  /\ revents \cap {"MdUpdateRequest", "MdRefresh"} # {}
  /\ revents' = revents \ {"MdUpdateRequest", "MdRefresh"}
  /\ MetadataUpdateRequestSem' =
       IF MetadataUpdateRequestSem > 0 THEN MetadataUpdateRequestSem - 1 ELSE 0
  /\ \/ /\ CompareMetadataOnRefresh /\ GetMetadata(FALSE)
        /\ DiscardAndEnd
        /\ UNCHANGED localVars
     \/ /\ CompareMetadataOnRefresh /\ GetMetadata(TRUE)
        /\ \/ BeginShutdown("refresh") /\ gotMetadata' = TRUE
           \/ UNCHANGED <<rpc, localVars>>
        /\ UNCHANGED <<dispatcherVars, MsgChannel, PerTopicBatcher>>
     \/ /\ ~CompareMetadataOnRefresh
        /\ gotMetadata' = FALSE
        /\ BeginShutdown("refresh")
        /\ UNCHANGED <<dispatcherVars, shutdownVars, MsgChannel,
                       PerTopicBatcher>>
  /\ UNCHANGED serverVars

(* HandleBatchExpiry and HandleMsgAvailable: batches that are complete are *)
(* dispatched, and each new message is discarded, batched by the router,   *)
(* or dispatched, in which case the connector's queue may batch it.        *)
NewMsgs == IF revents = {} THEN {} ELSE MsgChannel
Choices == IF Connectors = {} THEN {0} ELSE Connectors \cup {0, Held}

RouteNewMsgs(complete, routeBatch, batched, route) ==
  LET held == {m \in NewMsgs : route[m] = Held} IN
  /\ held \subseteq batched /\ Invalid(route) \cap batched = {}
  /\ InputQueue' = [c \in Brokers |-> InputQueue[c] \cup Routed(routeBatch)[c]
                                        \cup Routed(route)[c]]
  /\ PerTopicBatcher' = (PerTopicBatcher \ complete) \cup held
  /\ MsgChannel' = MsgChannel \ NewMsgs
  /\ discarded' = discarded \cup Invalid(route)
  /\ msgState' = [m \in Msgs |-> IF m \in batched THEN "Batching"
                                 ELSE RouteNow(complete \cup NewMsgs, Invalid(route))[m]]

HandleMessages ==
  /\ rpc = "events"
  /\ revents \subseteq {"MsgAvailable"}
  /\ \E complete \in SUBSET PerTopicBatcher, batched \in SUBSET NewMsgs :
     \E routeBatch \in [complete -> Connectors], route \in [NewMsgs -> Choices] :
       RouteNewMsgs(complete, routeBatch, batched, route)
  /\ revents' = {}
  /\ rpc' = "poll"
  /\ UNCHANGED <<sharedVars, controlVars, RequestFactory, CurrentRequest,
                 AckWaitQueue, GotAckAfterPause, NoAckAfterPause,
                 SendWaitAfterShutdown, NoAckAfterShutdown, fateVars,
                 duplicates, localVars, shutdownVars,
                 MetadataUpdateRequestSem, serverVars>>

RouterStep ==
  \/ StartUp
  \/ Poll
  \/ ContinueShutdown
  \/ \E c \in Brokers : SendShutdown(c)
  \/ \E c \in Brokers : AwaitAck(c)
  \/ ShutdownBegun
  \/ FetchMetadata
  \/ \E c \in Brokers : JoinNext(c)
  \/ JoinedAll
  \/ FinishPause
  \/ FinishRefresh
  \/ FinishRouter
  \/ HandleShutdownFinished
  \/ HandlePause
  \/ HandleMetadataUpdate
  \/ HandleMessages

(* The process ends after the router has been joined.                      *)
Exited == rpc = "joined" /\ UNCHANGED vars

Next ==
  \/ \E m \in Msgs : NewMsg(m)
  \/ RequestShutdown
  \/ RequestMetadataUpdate
  \/ JoinRouter
  \/ \E c \in Brokers : ConnectorStep(c) /\ UNCHANGED <<routerVars, serverVars>>
  \/ RouterStep
  \/ Exited

Spec == Init /\ [][Next]_vars

(* The threads are scheduled, and no wait of theirs is without an end: a   *)
(* connector waits on its socket no longer than the socket timeout and, in *)
(* a shutdown, the time limit; the router's fetches are retried or limited.*)
Fairness ==
  /\ WF_vars(RouterStep)
  /\ WF_vars(JoinRouter)
  /\ \A c \in Brokers :
       WF_vars(ConnectorStep(c) /\ UNCHANGED <<routerVars, serverVars>>)

FairSpec == Spec /\ Fairness

-----------------------------------------------------------------------------
(* Where a message can be: in a queue of a connector (one of them the      *)
(* requests that wait for ACKs), with the router, or at its end.           *)
QueuesOf(c) ==
  [input |-> InputQueue[c], factory |-> RequestFactory[c],
   current |-> CurrentRequest[c], sent |-> Flatten(AckWaitQueue[c]),
   gotAck |-> GotAckAfterPause[c], noAck |-> NoAckAfterPause[c],
   sendWaitAfter |-> SendWaitAfterShutdown[c], noAckAfter |-> NoAckAfterShutdown[c]]
HeldBy(c) ==
  InputQueue[c] \cup RequestFactory[c] \cup CurrentRequest[c] \cup Flatten(AckWaitQueue[c])
    \cup GotAckAfterPause[c] \cup NoAckAfterPause[c]
    \cup SendWaitAfterShutdown[c] \cup NoAckAfterShutdown[c]

Places ==
  [channel |-> MsgChannel, batcher |-> PerTopicBatcher,
   connectors |-> UNION {HeldBy(c) : c \in Brokers},
   delivered |-> delivered, discarded |-> discarded, destroyed |-> destroyed]

(* No two of the sets have a message in common.                            *)
Apart(sets) ==
  \A x \in DOMAIN sets : \A m \in sets[x] : \A y \in DOMAIN sets \ {x} : m \notin sets[y]

(* A message the server has accepted is in exactly one place, across       *)
(* queueing, sending, ACKs, pauses, dispatcher restarts and shutdown: it   *)
(* is never lost, kept twice, or both finished and still queued (the       *)
(* splicing of message lists in connector.cc, produce_response_processor.cc*)
(* and router_thread.cc).                                                  *)
ExactlyOnePlace ==
  /\ Apart(Places)
  /\ Apart([c \in Brokers |-> HeldBy(c)])
  /\ \A c \in Brokers : Apart(QueuesOf(c)) /\ Apart(AckWaitQueue[c])
  /\ {m \in Msgs : msgState[m] # "Absent"} = Flatten(Places)

(* TMsgStateTracker and the queues agree: a message is Processed exactly   *)
(* when it was delivered or discarded, and waits for an ACK exactly while  *)
(* a sent request, or the list kept for resending after a shutdown without *)
(* an ACK, holds it.  So when the router thread has been joined, each      *)
(* message was delivered or discarded, or lost with a malformed response.  *)
(* This last part is about servers without CompareMetadataOnRefresh: with  *)
(* it the router can end while connectors work (DispatcherStoppedAtEnd).   *)
StateMatchesPlace ==
  \A m \in Msgs :
    /\ rpc = "joined" => msgState[m] \in {"Absent", "Processed"} \/ m \in destroyed
    /\ msgState[m] = "Processed" <=> m \in delivered \cup discarded
    /\ \A c \in Brokers :
         /\ m \in Flatten(AckWaitQueue[c]) => msgState[m] = "AckWait"
         /\ m \in RequestFactory[c] \cup CurrentRequest[c] \cup GotAckAfterPause[c]
               => msgState[m] = "SendWait"
    /\ msgState[m] = "AckWait" =>
         \/ m \in destroyed
         \/ \E c \in Brokers :
              m \in Flatten(AckWaitQueue[c]) \cup NoAckAfterShutdown[c]

Finished(c) == thread[c] \in {"done", "marked", "exit"}

(* No connector dies unnoticed: one that has left its loop was told to     *)
(* shut down or has pressed the pause button, which stays pressed until    *)
(* every connector has been joined.  (Otherwise messages would be routed   *)
(* for ever to a queue that nobody reads.)                                 *)
NoSilentExit ==
  \A c \in Connectors :
    Finished(c) => PauseButton \/ OptShutdownCmd[c].cmd # "none"

(* A connector that has noticed a pause stays in fast shutdown, whatever   *)
(* shutdown commands the router sends it afterwards (assertion in          *)
(* PrepareForPoll).                                                        *)
PauseMeansFastShutdown ==
  \A c \in Brokers : PauseInProgress[c] => OptInProgressShutdown[c] = "fast"

(* The assertions of JoinAll, ResetThreadFinishedState, Start and          *)
(* MarkAllThreadsRunning: when every connector is joined the last one has  *)
(* announced it, and a dispatcher starts with the pause button and the     *)
(* announcement cleared and no thread running.                             *)
JoinAndStartAssertions ==
  /\ rpc = "join" /\ todo = {} => ShutdownFinished > 0 /\ RunningThreadCount = 0
  /\ rpc \in {"init", "restart"} =>
       /\ State = "Stopped"
       /\ ~PauseButton /\ ShutdownFinished = 0 /\ RunningThreadCount = 0

(* The end of the last connector is announced, and only that: the router   *)
(* leaves its loop on the announcement and joins every thread (counting in *)
(* MarkThreadFinished).                                                    *)
ShutdownFinishedIsExact ==
  State # "Stopped" /\ Connectors # {} =>
    (ShutdownFinished > 0 <=>
       \A c \in Connectors : thread[c] \in {"marked", "exit", "absent"})

(* A message that may already be at a broker is recorded as a possible     *)
(* duplicate before it is queued to be sent again (EmptyDispatcher).       *)
ResentIsRecorded ==
  \A m \in unacked \ duplicates, c \in Brokers :
    m \notin InputQueue[c] \cup RequestFactory[c] \cup CurrentRequest[c]

(* The server accepts, holds and ends messages as MsgDelivery describes,   *)
(* where what it holds is what its queues hold.                            *)
HeldMsgs == MsgChannel \cup PerTopicBatcher \cup UNION {HeldBy(c) : c \in Brokers}

Delivery == INSTANCE MsgDelivery WITH
  held <- HeldMsgs, acked <- delivered, reported <- discarded, lost <- destroyed

(* Every step of the router, the connectors and the main thread is a step  *)
(* of MsgDelivery: a message only leaves the queues by an end, and never   *)
(* comes back from one.                                                    *)
DeliverySpec == Delivery!Spec

(* Once the main thread stops the router, the router ends and is joined,   *)
(* whatever the connectors are doing (WaitForShutdownAck, JoinAll and the  *)
(* ShutdownFinished notification never wait for something that is over).   *)
ShutdownCompletes == stopping ~> rpc = "joined"

(* A pause that a connector starts is responded to: every connector stops, *)
(* is joined, and the button is released.                                  *)
PauseIsHandled == PauseButton ~> ~PauseButton

-----------------------------------------------------------------------------
(* What comments and assertions of the code say, and the code does not     *)
(* keep.                                                                   *)

(* HandleShutdownRequest asserts that a command is there for the request.  *)
ShutdownCmdIsKnown ==
  [][\A c \in Brokers :
       ShutdownAck'[c] > ShutdownAck[c] => OptShutdownCmd[c].known]_vars

(* Every discarded message is tracked and reported (design.md), so none is *)
(* destroyed unprocessed.                                                  *)
NoMsgDestroyed == destroyed = {}

(* When a metadata update fails because the shutdown delay has expired,    *)
(* the dispatcher is already shut down (comment in HandleMetadataUpdate).  *)
DispatcherStoppedAtEnd == rpc = "end" => State = "Stopped"

(* A message in state Batching is not moved to state Processed (the        *)
(* assertion and log message of CountProcessedEntered).                    *)
NoProcessedFromBatching ==
  [][\A m \in Msgs :
       ~(msgState[m] = "Batching" /\ msgState'[m] = "Processed")]_vars

(* Messages can be exchanged for one another.                              *)
Symmetry == Permutations(Msgs)
==============================================================================
