--------------------------- MODULE MockKafkaServer ---------------------------
(***************************************************************************)
(* The mock Kafka server (dory/mock_kafka_server): its main thread accepts   *)
(* connections, gives each a thread of its own and takes it back when it     *)
(* ends; a thread answers the produce and metadata requests of its client    *)
(* (TSingleClientHandlerBase, TV0ClientHandler), or takes error injection    *)
(* commands (TCmdWorker).  The threads share the bucket of commands: a       *)
(* thread copies the first command, sees whether it applies, and only then   *)
(* removes it.                                                              *)
(*                                                                         *)
(* A thread is a record: where it stands, the message sets of its request    *)
(* that it has not dealt with yet, its response, the command it has copied   *)
(* and its counts.  The bytes on their way to a thread and back are in       *)
(* toServer and toClient.                                                    *)
(***************************************************************************)
EXTENDS ProduceRequestReader, ProduceResponse, MockKafkaCmd, FiniteSets

Md == INSTANCE MetadataProto

CONSTANTS
    Clients,            \* connections to the Kafka ports
    CmdClients,         \* connections to the command port
    PortOffset,         \* of each client: the port it connects to
    PeerAddress,        \* of each client
    Setup,              \* what the setup file says (TSetup::TInfo), topics by name
    BodyContains(_, _),     \* whether a message's value contains a string
    HostName,
    PhysPort(_)         \* the port that the port map has for a virtual port

VARIABLES
    thread,             \* thread[c]: the thread of a connection
    bucket,             \* Ss.CmdBucket
    received,           \* Ss.ReceivedRequests
    toServer, toClient, \* bytes under way
    open,               \* clients that have not closed their socket
    stopRequests,       \* threads whose shutdown was requested
    server,             \* the main thread: "running", "stopping", "stopped"
    died                \* the process, from a Remove of no command

mockVars == <<thread, bucket, received, toServer, toClient, open, stopRequests, server, died>>

Connections == Clients \cup CmdClients

NoThread ==
    [at |-> "none", sets |-> <<>>, writer |-> ResponseOpened(0), item |-> NoItem,
     msg |-> 1, infos |-> <<>>, delay |-> FALSE, mdTopic |-> 0, mdCorr |-> 0, reply |-> 0,
     produceCount |-> 0, metadataCount |-> 0, setCount |-> 0]

\* PerConnectionMap.
HasThread == {c \in Connections : thread[c].at \notin {"none", "gone"}}

ShutdownRequested(c) == c \in stopRequests

\* The server has started, and commands may have come already.
MockInit(cmds) ==
    /\ thread = [c \in Connections |-> NoThread]
    /\ bucket = cmds
    /\ received = <<>>
    /\ toServer = [c \in Connections |-> <<>>]
    /\ toClient = [c \in Connections |-> <<>>]
    /\ open = Connections
    /\ stopRequests = {}
    /\ server = "running"
    /\ died = FALSE

----------------------------------------------------------------------------
\* Input and output of a thread (TMockKafkaWorker).

\* TryReadExactlyOrShutdown: how a read of n bytes that are not there in full
\* ends; "Blocked" while the client may still send them.
ReadResult(c, n) ==
    IF ShutdownRequested(c) THEN "GotShutdownRequest"
    ELSE IF Len(toServer[c]) >= n THEN "Success"
    ELSE IF c \in open THEN "Blocked"
    ELSE IF toServer[c] = <<>> THEN "Disconnected" ELSE "UnexpectedEnd"

\* TryWriteExactlyOrShutdown.
WriteResult(c) ==
    IF ShutdownRequested(c) THEN "GotShutdownRequest"
    ELSE IF c \in open THEN "Success" ELSE "UnexpectedEnd"

\* The thread of c stands at a, in a server that lives.
At(c, a) == ~ died /\ thread[c].at = a

\* The thread leaves DoRun; its socket is closed with it.
Finished(c) == thread' = [thread EXCEPT ![c] = [NoThread EXCEPT !.at = "done"]]

\* Remove, called by a thread.
RemoveCmd(seq) ==
    /\ bucket' = Removed(bucket, seq)
    /\ died' = RemoveDies(bucket)

----------------------------------------------------------------------------
\* The main thread.

\* OnEvent of a connect handler and RunThread: a thread for a new connection.
RunThread(c) ==
    /\ ~ died
    /\ server = "running"
    /\ thread[c].at = "none"
    /\ thread' = [thread EXCEPT ![c].at = IF c \in CmdClients THEN "cmd" ELSE "top"]
    /\ UNCHANGED <<bucket, received, toServer, toClient, open, stopRequests, server, died>>

\* The handler of the thread's end, and DeleteThreadState.
DeleteThreadState(c) ==
    /\ server = "running"
    /\ At(c, "done")
    /\ thread' = [thread EXCEPT ![c].at = "gone"]
    /\ UNCHANGED <<bucket, received, toServer, toClient, open, stopRequests, server, died>>

\* The shutdown signal ends the dispatcher; ShutDownWorkers asks every thread to
\* shut down ...
ShutdownSignal ==
    /\ ~ died
    /\ server = "running"
    /\ server' = "stopping"
    /\ UNCHANGED <<thread, bucket, received, toServer, toClient, open, stopRequests, died>>

RequestShutdown(c) ==
    /\ ~ died
    /\ server = "stopping"
    /\ c \in HasThread \ stopRequests
    /\ stopRequests' = stopRequests \cup {c}
    /\ UNCHANGED <<thread, bucket, received, toServer, toClient, open, server, died>>

\* ... and waits for each of them.
JoinWorkers ==
    /\ ~ died
    /\ server = "stopping"
    /\ HasThread \subseteq stopRequests
    /\ \A c \in HasThread : thread[c].at = "done"
    /\ thread' = [c \in Connections |->
                    IF c \in HasThread THEN [thread[c] EXCEPT !.at = "gone"] ELSE thread[c]]
    /\ server' = "stopped"
    /\ UNCHANGED <<bucket, received, toServer, toClient, open, stopRequests, died>>

----------------------------------------------------------------------------
\* TCmdWorker: GetCmd, Put and SendReply.

\* The two bytes of a command's size, then the rest.
CmdResult(c) ==
    IF ReadResult(c, BytesNeededToGetCmdSize) # "Success"
    THEN ReadResult(c, BytesNeededToGetCmdSize)
    ELSE ReadResult(c, GetCmdSize(toServer[c]))

\* A command arrives.
GetCmd(c) ==
    /\ At(c, "cmd")
    /\ LET size == GetCmdSize(toServer[c])
           result == CmdResult(c)
           cmd == DeserializeCmd(SubSeq(toServer[c], 1, size))
       IN  /\ result # "Blocked"
           /\ IF result = "Success"
              THEN /\ toServer' = [toServer EXCEPT ![c] = SubSeq(@, size + 1, Len(@))]
                   /\ bucket' = IF cmd.ok THEN PutCmd(bucket, cmd.cmd) ELSE bucket
                   /\ thread' = [thread EXCEPT ![c].at = "reply",
                                               ![c].reply = IF cmd.ok THEN 0 ELSE 1]
              ELSE /\ Finished(c)
                   /\ UNCHANGED <<toServer, bucket>>
    /\ UNCHANGED <<received, toClient, open, stopRequests, server, died>>

\* SendReply; after an invalid command the thread ends.
SendReply(c) ==
    /\ At(c, "reply")
    /\ LET sent == WriteResult(c) = "Success"
       IN  /\ toClient' = IF sent THEN [toClient EXCEPT ![c] = @ \o Field(1, thread[c].reply)]
                          ELSE toClient
           /\ IF sent /\ thread[c].reply = 0
              THEN thread' = [thread EXCEPT ![c].at = "cmd"] ELSE Finished(c)
    /\ UNCHANGED <<bucket, received, toServer, open, stopRequests, server, died>>

----------------------------------------------------------------------------
\* DoRun of a client's thread.

\* GetRequest: the first 6 bytes give the size.
RequestResult(c) ==
    LET size == Read(toServer[c], 0, 4)
    IN  IF ReadResult(c, 6) # "Success" THEN ReadResult(c, 6)
        ELSE IF size < 2 THEN "InvalidRequest"
        ELSE ReadResult(c, 4 + size)

\* GetRequestType.
RequestType(buf) ==
    CASE Read(buf, 4, 2) = 0 -> "Produce"
      [] Read(buf, 4, 2) = 3 -> "Metadata"
      [] OTHER -> "Unknown"

\* The message sets of a request, in order; each knows whether its topic begins
\* or ends with it.
SetsOf(req) ==
    LET OfGroup(g) == [i \in DOMAIN g.sets |->
            [topic |-> g.topic, set |-> g.sets[i], first |-> i = 1, last |-> i = Len(g.sets)]]
    IN  FoldLeft(LAMBDA s, g : s \o OfGroup(g), <<>>, req.groups)

\* HandleProduceRequest begins: the request is read as a whole.
ProduceRequestRead(c, buf) ==
    \E req \in {BuildProdReq(buf)} :
        IF req.err # "" THEN Finished(c)
        ELSE thread' = [thread EXCEPT ![c].at = "sets", ![c].sets = SetsOf(req),
                                      ![c].writer = ResponseOpened(req.corr),
                                      ![c].infos = <<>>, ![c].delay = FALSE,
                                      ![c].produceCount = @ + 1]

\* ValidateMetadataRequestHeader and ValidateMetadataRequest.
MetadataRequestRead(c, buf) ==
    IF Md!RequestError(buf) # "None" THEN Finished(c)
    ELSE thread' = [thread EXCEPT ![c].at = "metadata", ![c].mdTopic = Md!GetTopic(buf),
                                  ![c].mdCorr = Md!GetRequestCorrelationId(buf),
                                  ![c].delay = FALSE, ![c].metadataCount = @ + 1]

\* The delay before a read is over, or was not due: the port says how often.
ReadDelayDue(c) ==
    LET port == Setup.ports[PortOffset[c] + 1]
    IN  port.readDelay # 0
        /\ (thread[c].produceCount + thread[c].metadataCount + 1) % port.readDelayInterval = 0

StartRead(c) ==
    /\ At(c, "top")
    /\ IF ShutdownRequested(c) THEN Finished(c)
       ELSE thread' = [thread EXCEPT ![c].at = IF ReadDelayDue(c) THEN "readDelay" ELSE "read"]
    /\ UNCHANGED <<bucket, received, toServer, toClient, open, stopRequests, server, died>>

ReadDelayOver(c) ==
    /\ At(c, "readDelay")
    /\ IF ShutdownRequested(c) THEN Finished(c)
       ELSE thread' = [thread EXCEPT ![c].at = "read"]
    /\ UNCHANGED <<bucket, received, toServer, toClient, open, stopRequests, server, died>>

GetRequest(c) ==
    /\ At(c, "read")
    /\ LET n == 4 + Read(toServer[c], 0, 4)
           buf == SubSeq(toServer[c], 1, n)
       IN  /\ RequestResult(c) # "Blocked"
           /\ IF RequestResult(c) # "Success" THEN Finished(c) /\ UNCHANGED toServer
              ELSE /\ toServer' = [toServer EXCEPT ![c] = SubSeq(@, n + 1, Len(@))]
                   /\ CASE RequestType(buf) = "Produce" -> ProduceRequestRead(c, buf)
                        [] RequestType(buf) = "Metadata" -> MetadataRequestRead(c, buf)
                        [] RequestType(buf) = "Unknown" -> Finished(c)
    /\ UNCHANGED <<bucket, received, toClient, open, stopRequests, server, died>>

----------------------------------------------------------------------------
\* Produce requests.

\* FindPartition: the partition, if it lives on this port.
FindPartition(c, topic, partition) ==
    /\ topic \in DOMAIN Setup.topics
    /\ partition \in 0 .. Len(Setup.topics[topic].partitions) - 1
    /\ (Setup.topics[topic].firstPortOffset + partition) % Len(Setup.ports) = PortOffset[c]

\* CheckProduceRequestErrorInjectionCmd: the command, if it is for this client and
\* about produce requests.  Parameters that make no sense remove it.
ForProduce(c, item) ==
    /\ item # NoItem
    /\ item.cmd.addr \in {EmptyName, PeerAddress[c]}
    /\ item.cmd.type \in {SEND_PRODUCE_RESPONSE_ERROR, DISCONNECT_ON_READ_PRODUCE_REQUEST,
                          DELAY_BEFORE_SEND_PRODUCE_RESPONSE}

BadProduceParam(cmd) ==
    \/ cmd.type = SEND_PRODUCE_RESPONSE_ERROR /\ cmd.param1 \notin Int16
    \/ cmd.type = DELAY_BEFORE_SEND_PRODUCE_RESPONSE /\ cmd.param1 < 0

\* What a command that was taken does to a message set.
CmdEffect(cmd) ==
    [error |-> IF cmd.type = SEND_PRODUCE_RESPONSE_ERROR THEN cmd.param1 ELSE 0,
     disconnect |-> cmd.type = DISCONNECT_ON_READ_PRODUCE_REQUEST,
     delay |-> cmd.type = DELAY_BEFORE_SEND_PRODUCE_RESPONSE /\ cmd.param1 # 0]

NoEffect == [error |-> 0, disconnect |-> FALSE, delay |-> FALSE]

\* TReceivedRequestTracker::TProduceRequestInfo. Of the messages the code keeps how
\* many they are and the first one's key and value; here all values are kept.
ProduceRequestInfo(s, error) ==
    [topic |-> s.topic, partition |-> s.set.partition, type |-> s.set.type, error |-> error,
     values |-> {s.set.msgs[i].value : i \in DOMAIN s.set.msgs}]

\* The end of ChooseMsgSetAction: the error code of the ack.
AckErrorOf(c, t, s, effect) ==
    LET part == Setup.topics[s.topic].partitions[s.set.partition + 1]
    IN  IF ~ FindPartition(c, s.topic, s.set.partition) THEN 3
        ELSE IF effect.error # 0 THEN effect.error
        ELSE IF part.ackError # 0 /\ t.setCount % part.ackErrorInterval = 0
        THEN part.ackError ELSE 0

\* The rest of a turn of PrepareProduceResponse's inner loop, in the thread t.
SetAnswered(c, t, effect) ==
    LET s == Head(t.sets)
        error == AckErrorOf(c, t, s, effect)
        acked == AckAdded(t.writer, s.set.partition, error, 0)
    IN  IF effect.disconnect /\ FindPartition(c, s.topic, s.set.partition)
        THEN [NoThread EXCEPT !.at = "done"]
        ELSE [t EXCEPT !.at = "sets", !.sets = Tail(@), !.item = NoItem, !.msg = 1,
                       !.delay = @ \/ effect.delay,
                       !.writer = IF s.last THEN AckTopicClosed(acked) ELSE acked,
                       !.infos = Append(@, ProduceRequestInfo(s, error))]

\* A turn of the loop begins: the first command of the bucket is copied.
CheckProduceRequestErrorInjectionCmd(c) ==
    /\ At(c, "sets")
    /\ thread[c].sets # <<>>
    /\ LET s == Head(thread[c].sets)
           item == CopyOut(bucket)
           t == [thread[c] EXCEPT !.setCount = @ + 1,
                                  !.writer = IF s.first THEN AckTopicOpened(@, s.topic) ELSE @]
       IN  IF s.first /\ s.topic = EmptyName
           THEN Finished(c) /\ UNCHANGED <<bucket, died>>
           ELSE IF ~ ForProduce(c, item)
           THEN /\ thread' = [thread EXCEPT ![c] = SetAnswered(c, t, NoEffect)]
                /\ UNCHANGED <<bucket, died>>
           ELSE IF BadProduceParam(item.cmd)
           THEN /\ thread' = [thread EXCEPT ![c] = [t EXCEPT !.at = "drop", !.item = item]]
                /\ UNCHANGED <<bucket, died>>
           ELSE /\ thread' = [thread EXCEPT ![c] = [t EXCEPT !.at = "match", !.item = item]]
                /\ UNCHANGED <<bucket, died>>
    /\ UNCHANGED <<received, toServer, toClient, open, stopRequests, server>>

\* A command without sense is removed; the set is answered without one.
DropProduceCmd(c) ==
    /\ At(c, "drop")
    /\ RemoveCmd(thread[c].item.seq)
    /\ thread' = [thread EXCEPT ![c] = SetAnswered(c, thread[c], NoEffect)]
    /\ UNCHANGED <<received, toServer, toClient, open, stopRequests, server>>

\* The next message, from number i on, at which the loop of ChooseMsgSetAction
\* stops: its checksum is wrong, or it matches.
NextMatch(t, i) ==
    LET msgs == Head(t.sets).set.msgs
        Stops(k) == \/ ~ msgs[k].crcOk
                    \/ t.item.cmd.param2 # 0
                    \/ BodyContains(msgs[k].value, t.item.cmd.str)
        found == {k \in i .. Len(msgs) : Stops(k)}
    IN  IF found = {} THEN 0 ELSE CHOOSE k \in found : \A l \in found : k <= l


\* The loop itself, up to its next call of Remove.  When that fails, because
\* another thread was faster, the loop goes on with the next message.
MatchCmd(c) ==
    /\ At(c, "match")
    /\ LET t == thread[c]
           k == NextMatch(t, t.msg)
       IN  IF k = 0
           THEN /\ thread' = [thread EXCEPT ![c] = SetAnswered(c, t, NoEffect)]
                /\ UNCHANGED <<bucket, died>>
           ELSE IF ~ Head(t.sets).set.msgs[k].crcOk
           THEN Finished(c) /\ UNCHANGED <<bucket, died>>
           ELSE /\ RemoveCmd(t.item.seq)
                /\ thread' = [thread EXCEPT ![c] =
                        IF RemoveSucceeds(bucket, t.item.seq)
                        THEN SetAnswered(c, t, CmdEffect(t.item.cmd))
                        ELSE [t EXCEPT !.msg = k + 1]]
    /\ UNCHANGED <<received, toServer, toClient, open, stopRequests, server>>

\* The port's own delay before an ack.
AckDelayDue(c, count) ==
    LET port == Setup.ports[PortOffset[c] + 1]
    IN  port.ackDelay # 0 /\ count % port.ackDelayInterval = 0

\* All sets are answered; a delay may be due.
CloseProduceResponse(c) ==
    /\ At(c, "sets")
    /\ thread[c].sets = <<>>
    /\ thread' = [thread EXCEPT
            ![c].at = IF thread[c].delay \/ AckDelayDue(c, thread[c].produceCount)
                      THEN "ackDelay" ELSE "send",
            ![c].delay = FALSE]
    /\ UNCHANGED <<bucket, received, toServer, toClient, open, stopRequests, server, died>>

AckDelayOver(c) ==
    /\ At(c, "ackDelay")
    /\ IF ShutdownRequested(c) THEN Finished(c)
       ELSE thread' = [thread EXCEPT ![c].at = "send"]
    /\ UNCHANGED <<bucket, received, toServer, toClient, open, stopRequests, server, died>>

\* The response goes out; only then are the sets known to be received.
SendProduceResponse(c) ==
    /\ At(c, "send")
    /\ IF WriteResult(c) = "Success"
       THEN /\ toClient' = [toClient EXCEPT ![c] = @ \o ResponseClosed(thread[c].writer)]
            /\ received' = received \o thread[c].infos
            /\ thread' = [thread EXCEPT ![c] = [NoThread EXCEPT !.at = "top",
                    !.produceCount = thread[c].produceCount,
                    !.metadataCount = thread[c].metadataCount,
                    !.setCount = thread[c].setCount]]
       ELSE Finished(c) /\ UNCHANGED <<toClient, received>>
    /\ UNCHANGED <<bucket, toServer, open, stopRequests, server, died>>

----------------------------------------------------------------------------
\* Metadata requests.

MetadataRequestInfo(topic, error) ==
    [topic |-> topic, partition |-> -1, type |-> "metadata", error |-> error, values |-> {}]

\* CheckMetadataRequestErrorInjectionCmd: the client's address does not matter.
ForMetadata(item) ==
    /\ item # NoItem
    /\ item.cmd.type \in {SEND_METADATA_RESPONSE_ERROR, DISCONNECT_ON_READ_METADATA_REQUEST,
                          DELAY_BEFORE_SEND_METADATA_RESPONSE}

BadMetadataParam(cmd) ==
    \/ cmd.type = SEND_METADATA_RESPONSE_ERROR /\ cmd.param1 \notin Int16
    \/ cmd.type = DELAY_BEFORE_SEND_METADATA_RESPONSE /\ cmd.param1 < 0

\* A delay command is never for all topics.
AllTopicsCmd(cmd) == cmd.type # DELAY_BEFORE_SEND_METADATA_RESPONSE /\ cmd.param2 # 0

CheckMetadataRequestErrorInjectionCmd(c) ==
    /\ At(c, "metadata")
    /\ LET item == CopyOut(bucket)
           t == thread[c]
           matches == AllTopicsCmd(item.cmd) \/ item.cmd.str = t.mdTopic
       IN  thread' = [thread EXCEPT ![c] =
                IF ForMetadata(item) /\ BadMetadataParam(item.cmd)
                THEN [t EXCEPT !.at = "mdDrop", !.item = item]
                ELSE IF ForMetadata(item) /\ matches
                THEN [t EXCEPT !.at = "mdRemove", !.item = item]
                ELSE [t EXCEPT !.at = "mdDelay"]]
    /\ UNCHANGED <<bucket, received, toServer, toClient, open, stopRequests, server, died>>

DropMetadataCmd(c) ==
    /\ At(c, "mdDrop")
    /\ RemoveCmd(thread[c].item.seq)
    /\ thread' = [thread EXCEPT ![c].at = "mdDelay", ![c].item = NoItem]
    /\ UNCHANGED <<received, toServer, toClient, open, stopRequests, server>>

\* The command applies if Remove still finds it.
TakeMetadataCmd(c) ==
    /\ At(c, "mdRemove")
    /\ LET t == thread[c]
           taken == RemoveSucceeds(bucket, t.item.seq)
           disconnect == taken /\ t.item.cmd.type = DISCONNECT_ON_READ_METADATA_REQUEST
       IN  /\ RemoveCmd(t.item.seq)
           /\ received' = IF disconnect THEN Append(received, MetadataRequestInfo(t.mdTopic, 0))
                          ELSE received
           /\ IF disconnect THEN Finished(c)
              ELSE thread' = [thread EXCEPT ![c].at = "mdDelay",
                                            ![c].item = IF taken THEN @ ELSE NoItem]
    /\ UNCHANGED <<toServer, toClient, open, stopRequests, server>>

\* The delay of the command or of the port.
MetadataDelayOver(c) ==
    /\ At(c, "mdDelay")
    /\ LET cmd == thread[c].item.cmd
           due == \/ cmd.type = DELAY_BEFORE_SEND_METADATA_RESPONSE /\ cmd.param1 # 0
                  \/ AckDelayDue(c, thread[c].metadataCount)
       IN  IF due /\ ShutdownRequested(c) THEN Finished(c)
           ELSE thread' = [thread EXCEPT ![c].at = "mdSend"]
    /\ UNCHANGED <<bucket, received, toServer, toClient, open, stopRequests, server, died>>

\* WriteSingleTopic: the partitions of a topic take turns with the ports.
PartitionInfoWritten(w, id, node) ==
    LET opened == Md!OpenReplicaList(Md!OpenPartition(w, 0, id, node))
        replicas == Md!CloseReplicaList(Md!AddReplica(opened, node))
        caughtUp == Md!AddCaughtUpReplica(Md!OpenCaughtUpReplicaList(replicas), node)
    IN  Md!ClosePartition(Md!CloseCaughtUpReplicaList(caughtUp))

WriteSingleTopic(w, name, topic, error) ==
    LET count == Len(Setup.ports)
        opened == Md!OpenPartitionList(Md!OpenTopic(w, error, name))
        node[n \in 0 .. Len(topic.partitions)] ==
            IF n = 0 THEN topic.firstPortOffset ELSE (node[n - 1] + 1) % count
        upTo[n \in 0 .. Len(topic.partitions)] ==
            IF n = 0 THEN opened ELSE PartitionInfoWritten(upTo[n - 1], n - 1, node[n - 1])
    IN  Md!CloseTopic(Md!ClosePartitionList(upTo[Len(topic.partitions)]))

\* The brokers of a metadata response: one for each port.
BrokersWritten(corr) ==
    LET opened == Md!OpenBrokerList(Md!OpenResponse(corr))
        upTo[n \in 0 .. Len(Setup.ports)] ==
            IF n = 0 THEN opened
            ELSE Md!AddBroker(upTo[n - 1], n - 1, HostName, PhysPort(Setup.basePort + n - 1))
    IN  Md!OpenTopicList(Md!CloseBrokerList(upTo[Len(Setup.ports)]))

\* SendMetadataResponse: all topics, or the one that was asked for.  The error
\* goes to the topic it was injected for.
MetadataResponse(corr, topic, error, errorTopic) ==
    LET ErrorOf(t) == IF t = errorTopic THEN error ELSE 0
        brokers == BrokersWritten(corr)
        order == SetToSortSeq(DOMAIN Setup.topics, LAMBDA a, b : a < b)
        all == FoldLeft(LAMBDA w, t : WriteSingleTopic(w, t, Setup.topics[t], ErrorOf(t)),
                        brokers, order)
        one == IF topic \in DOMAIN Setup.topics
               THEN WriteSingleTopic(brokers, topic, Setup.topics[topic], ErrorOf(topic))
               ELSE Md!CloseTopic(Md!OpenTopic(brokers, 3, topic))
    IN  Md!CloseResponse(Md!CloseTopicList(IF topic = EmptyName THEN all ELSE one))

SendMetadataResponse(c) ==
    /\ At(c, "mdSend")
    /\ LET t == thread[c]
           cmd == t.item.cmd
           error == IF cmd.type = SEND_METADATA_RESPONSE_ERROR THEN cmd.param1 ELSE 0
       IN  IF WriteResult(c) = "Success"
           THEN /\ toClient' = [toClient EXCEPT ![c] =
                        @ \o MetadataResponse(t.mdCorr, t.mdTopic, error, cmd.str)]
                /\ received' = Append(received, MetadataRequestInfo(t.mdTopic, error))
                /\ thread' = [thread EXCEPT ![c].at = "top", ![c].item = NoItem]
           ELSE Finished(c) /\ UNCHANGED <<toClient, received>>
    /\ UNCHANGED <<bucket, toServer, open, stopRequests, server, died>>

----------------------------------------------------------------------------
\* A step of a thread, and of the server.

ThreadStep(c) ==
    \/ StartRead(c) \/ ReadDelayOver(c) \/ GetRequest(c)
    \/ CheckProduceRequestErrorInjectionCmd(c) \/ DropProduceCmd(c) \/ MatchCmd(c)
    \/ CloseProduceResponse(c) \/ AckDelayOver(c) \/ SendProduceResponse(c)
    \/ CheckMetadataRequestErrorInjectionCmd(c) \/ DropMetadataCmd(c) \/ TakeMetadataCmd(c)
    \/ MetadataDelayOver(c) \/ SendMetadataResponse(c)

CmdThreadStep(c) == GetCmd(c) \/ SendReply(c)

\* A step of the main thread when the clients in C connect.
MainStep(C) ==
    \/ \E c \in C : RunThread(c) \/ DeleteThreadState(c) \/ RequestShutdown(c)
    \/ JoinWorkers

\* A client closes its socket.
ClientCloses(c) ==
    /\ c \in open
    /\ open' = open \ {c}
    /\ UNCHANGED <<thread, bucket, received, toServer, toClient, stopRequests, server, died>>

\* A client sends bytes; a socket that the server has closed takes no more.
ClientSends(c, bytes) ==
    /\ c \in open
    /\ thread[c].at \notin {"done", "gone"}
    /\ toServer' = [toServer EXCEPT ![c] = @ \o bytes]
    /\ UNCHANGED <<thread, bucket, received, toClient, open, stopRequests, server, died>>
=============================================================================
