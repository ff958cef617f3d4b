------------------------------ MODULE ProduceMC ------------------------------
(***************************************************************************)
(* Produce requests and responses, model-checked.  A behaviour is about one  *)
(* of: the request factory alone ("build"); one request and one response to  *)
(* it, of any shape ("acks"); a connector and the mock server ("exchange");  *)
(* the mock server with several clients and error injection commands         *)
(* ("cmds"); the server's setup and command files ("files").                 *)
(***************************************************************************)
EXTENDS ProduceRequestFactory, MockKafkaServer

------------------------------------------------------------------------------
(***************************************************************************)
(* A connector and the mock Kafka server, composed over bytes: batches go    *)
(* into the connector's request factory, requests leave it as bytes, the     *)
(* server reads them and answers, the response processor deals with the      *)
(* answer (connector.cc: TrySendProduceRequest, ProcessSingleProduceResponse,*)
(* and what becomes of the messages after a pause).  A pause takes the       *)
(* connector to its next connection.                                         *)
(***************************************************************************)

CONSTANTS
    NextClient(_),      \* the connection after this one
    FirstClient,
    MaxInFlight,        \* bound on requests that wait for their acks
    PartitionChoices    \* the metadata's partition choices for each topic

VARIABLES
    factory,            \* RequestFactory
    ackWait,            \* AckWaitQueue
    gotAck, noAck,      \* GotAckAfterPause, NoAckAfterPause
    pause,              \* "no", "deferred": other responses may come in first, "now"
    client,             \* the connection in use
    outcome             \* what became of messages: ids processed, discarded, lost

connectorVars == <<factory, ackWait, gotAck, noAck, pause, client, outcome>>

ExchangeInit ==
    /\ factory = FactoryInit(<<>>, PartitionChoices)
    /\ ackWait = <<>>
    /\ gotAck = <<>>
    /\ noAck = <<>>
    /\ pause = "no"
    /\ client = FirstClient
    /\ outcome = [processed |-> {}, discarded |-> {}, lost |-> {}]

Ids(msgs) == {msgs[i].id : i \in DOMAIN msgs}

IdsOfBatches(batches) == UNION {Ids(batches[i]) : i \in DOMAIN batches}

IdsOfContents(contents) ==
    UNION {Ids(contents[t][p].msgs) : <<t, p>> \in
            {x \in (DOMAIN contents) \X (UNION {DOMAIN contents[u] : u \in DOMAIN contents}) :
                x[2] \in DOMAIN contents[x[1]]}}

IdsOfSet(msgs) == {m.id : m \in msgs}

\* A batch arrives from the router thread.
PutBatch(batch) ==
    /\ pause = "no"
    /\ factory' = Put(factory, <<batch>>)
    /\ UNCHANGED <<ackWait, gotAck, noAck, pause, client, outcome, mockVars>>

\* A request is built and sent; it waits for its response.
SendProduceRequest(libs) ==
    /\ pause = "no"
    /\ ~ IsEmpty(factory)
    /\ Len(ackWait) < MaxInFlight
    /\ \E built \in {BuildRequest(factory, libs)} :
           /\ factory' = built.f
           /\ ackWait' = Append(ackWait, built.request)
           /\ ClientSends(client, built.buf)
    /\ UNCHANGED <<gotAck, noAck, pause, client, outcome>>

\* Mutant: the size field is counted twice.
WaitsForMore ==
    /\ Len(toClient[client]) >= 4
    /\ Len(toClient[client]) >= 8 + Read(toClient[client], 0, 4)

\* A whole response is there.
ResponseReady ==
    /\ Len(toClient[client]) >= 4
    /\ Len(toClient[client]) >= 4 + Read(toClient[client], 0, 4)

\* ProcessSingleProduceResponse: an exception loses what is left of the request.
ProcessSingleProduceResponse ==
    /\ pause # "now"
    /\ ackWait # <<>>
    /\ ResponseReady
    /\ \E n \in {4 + Read(toClient[client], 0, 4)} :
       \E p \in {ProcessResponse(Head(ackWait), SubSeq(toClient[client], 1, n))} :
           /\ ackWait' = Tail(ackWait)
           /\ toClient' = [toClient EXCEPT ![client] = SubSeq(@, n + 1, Len(@))]
           /\ pause' = IF p.err # "" \/ p.action = "PauseAndFinishNow" THEN "now"
                        ELSE IF p.action = "PauseAndDeferFinish" THEN "deferred" ELSE pause
           /\ noAck' = noAck \o p.withoutAcks
           /\ gotAck' = gotAck \o p.pauseAndResend
           /\ factory' = PutFront(factory, p.immediateResend)
           /\ outcome' = [processed |-> outcome.processed \cup IdsOfSet(p.processed),
                          discarded |-> outcome.discarded \cup IdsOfSet(p.discarded),
                          lost |-> outcome.lost \cup
                                IF p.err = "" THEN {} ELSE IdsOfContents(p.left)]
    /\ UNCHANGED <<client, thread, bucket, received, toServer, open, stopRequests, server, died>>

\* The server has closed the connection, and everything it sent was read.
ConnectionLost ==
    /\ pause # "now"
    /\ thread[client].at \in {"done", "gone"}
    /\ ~ ResponseReady
    /\ pause' = "now"
    /\ UNCHANGED <<factory, ackWait, gotAck, noAck, client, outcome, mockVars>>

\* The dispatcher has stopped and is started again: the connector's socket is
\* closed, and whatever it still has is routed again, to the factory of the new
\* connection: messages whose acks asked for it, messages without acks, messages
\* that were never sent.
Restart ==
    /\ pause # "no"
    /\ LET unanswered == FoldLeft(
                LAMBDA b, r : b \o ProcessNoAckMsgs(Processor(r.contents)).withoutAcks,
                <<>>, ackWait)
       IN  factory' = FactoryInit(gotAck \o noAck \o unanswered \o factory.queue, PartitionChoices)
    /\ ackWait' = <<>>
    /\ gotAck' = <<>>
    /\ noAck' = <<>>
    /\ pause' = "no"
    /\ client' = NextClient(client)
    /\ open' = open \ {client}
    /\ UNCHANGED <<outcome, thread, bucket, received, toServer, toClient, stopRequests, server, died>>

Settled == outcome.processed \cup outcome.discarded \cup outcome.lost

------------------------------------------------------------------------------
\* What is checked.

CONSTANTS
    MaxResends,         \* bound on batches that are put back in front
    InjectedCmds        \* the commands that the injector sends

VARIABLES
    focus,
    last,               \* "build": the last request, its bytes, the choices it used
    turn,               \* bound: how far the environment has got
    probe               \* "acks", "files": the input and what came of it

allVars == <<mockVars, connectorVars, focus, last, turn, probe>>

----------------------------------------------------------------------------
\* The instance.  A name's last digit is its length.

NameLengthHere(v) == v % 10

ContainsHere(value, str) == str = 0 \/ str = value

PhysPortHere(p) == p + 1000

NextClientHere(c) == c + 1

SetupHere ==
    [basePort |-> 10,
     ports |-> <<TPort, [TPort EXCEPT !.readDelay = 5, !.readDelayInterval = 2,
                                      !.ackDelay = 7, !.ackDelayInterval = 2]>>,
     topics |-> [t \in {11, 21} |->
        IF t = 11 THEN [partitions |-> [i \in 1 .. 3 |-> TPartition], firstPortOffset |-> 0]
        ELSE [partitions |-> <<TPartition, [ackError |-> 2, ackErrorInterval |-> 2]>>,
              firstPortOffset |-> 1]]]

PortOffsetHere == [c \in 1 .. 6 |-> IF c = 2 THEN 1 ELSE 0]

PeerAddressHere == [c \in 1 .. 6 |-> IF c = 2 THEN 52 ELSE 42]

ChoicesHere == [t \in {11, 21, 31} |-> IF t = 11 THEN <<0, 2>> ELSE <<1>>]

TopicConfigsHere ==
    (11 :> [type |-> "Lz4", minSize |-> 50, level |-> 99])
    @@ (21 :> [type |-> "Gzip", minSize |-> 20, level |-> 5])

DefaultTopicConfigHere == [type |-> "Snappy", minSize |-> 29, level |-> NoLevel]

M(id, topic, any, partition, key, value) ==
    [id |-> id, topic |-> topic, any |-> any, partition |-> partition, key |-> key,
     value |-> value, attempts |-> 0]

AnyMsg(id, topic, value) == M(id, topic, TRUE, -1, 0, value)

KeyedMsg(id, topic, partition, value) == M(id, topic, FALSE, partition, 12, value)

\* What the factory gets in "build", in this order.
BuildBatches ==
    << <<AnyMsg(1, 11, 103), KeyedMsg(2, 11, 0, 203)>>, <<AnyMsg(3, 21, 302)>>,
       <<AnyMsg(4, 11, 405), AnyMsg(5, 11, 502)>>, <<AnyMsg(8, 31, 805)>>,
       <<KeyedMsg(6, 11, 2, 600)>>, <<AnyMsg(7, 11, 703)>>, <<AnyMsg(9, 31, 902)>> >>

\* What the connector gets in "exchange".
ExchangeBatches == << <<AnyMsg(1, 11, 103), KeyedMsg(2, 11, 0, 203)>>, <<AnyMsg(3, 21, 302)>>,
                      <<AnyMsg(4, 21, 402)>> >>

\* The commands that wait for the connector's requests.
ExchangeCmds ==
    { <<MakeCmdAckError(77, 103, NoName), MakeCmdAckError(2, 302, NoName)>>,
      <<MakeCmdDisconnectBeforeAck(203, NoName), MakeCmdAckError(5, NoName, NoName)>>,
      <<MakeCmdAckError(5, 302, NoName), MakeCmdDisconnectBeforeAck(NoName, NoName)>>,
      <<MakeCmdAckError(41, NoName, NoName), MakeCmdAckError(5, 402, NoName)>> }

Lib(fails, shrinks) == [fails |-> fails, shrinks |-> shrinks]

Libs == {[t \in {11, 21, 31} |-> lib] :
            lib \in {Lib("", TRUE), Lib("", FALSE), Lib("run", TRUE), Lib("bound", TRUE)}}

GoodLibs == [t \in {11, 21, 31} |-> Lib("", TRUE)]

----------------------------------------------------------------------------
\* "build".

NoLast == [contents |-> EmptyFunction, corr |-> 0, buf |-> <<>>, lib |-> Lib("", TRUE),
           used |-> [t \in {11, 21, 31} |-> 0], resends |-> 0]

\* Whether a request has messages of a topic that any partition would do for,
\* and the partitions that they got.
AnyPartitions(contents, t) ==
    IF t \notin DOMAIN contents THEN {}
    ELSE {p \in DOMAIN contents[t] : \E i \in DOMAIN contents[t][p].msgs :
                                        contents[t][p].msgs[i].any}

BuildStep ==
    \/ /\ turn[1] < Len(BuildBatches)
       /\ turn' = [turn EXCEPT ![1] = @ + 1]
       /\ factory' = Put(factory, <<BuildBatches[turn[1] + 1]>>)
       /\ UNCHANGED last
    \/ /\ ~ IsEmpty(factory)
       /\ \E libs \in Libs :
            \E built \in {BuildRequest(factory, libs)} :
                /\ factory' = built.f
                /\ last' = [contents |-> built.request.contents, corr |-> built.request.corr,
                            buf |-> built.buf, lib |-> libs[11], resends |-> last.resends,
                            used |-> [t \in {11, 21, 31} |-> last.used[t] +
                                IF AnyPartitions(built.request.contents, t) # {} THEN 1 ELSE 0]]
       /\ UNCHANGED turn
    \/ /\ last.resends < MaxResends
       /\ last.contents # EmptyFunction
       /\ LET p == ProcessNoAckMsgs(Processor(last.contents))
          IN  factory' = PutFront(factory, p.withoutAcks)
       /\ last' = [NoLast EXCEPT !.resends = last.resends + 1, !.used = last.used]
       /\ UNCHANGED turn

\* What the server should find in the bytes of the last request.
Expected(contents) ==
    LET topics == SetToSortSeq(DOMAIN contents, LAMBDA a, b : a < b)
        Partitions(t) == SetToSortSeq(DOMAIN contents[t], LAMBDA a, b : a < b)
        Msgs(t, p) == [i \in DOMAIN contents[t][p].msgs |->
                        GoodMsg(contents[t][p].msgs[i].key,
                                IF NameLength(contents[t][p].msgs[i].value) = 0 THEN 0
                                ELSE contents[t][p].msgs[i].value)]
    IN  [i \in DOMAIN topics |->
            [topic |-> topics[i],
             sets |-> [j \in DOMAIN Partitions(topics[i]) |->
                [partition |-> Partitions(topics[i])[j],
                 msgs |-> Msgs(topics[i], Partitions(topics[i])[j])]]]]

Content(groups) ==
    [i \in DOMAIN groups |->
        [topic |-> groups[i].topic,
         sets |-> [j \in DOMAIN groups[i].sets |->
            [partition |-> groups[i].sets[j].partition, msgs |-> groups[i].sets[j].msgs]]]]

\* No change of one field of a message gets past the message's checksum
\* (CloseMsg, InitCurrentMsg).
DamageIsDetected ==
    \A i \in {k \in DOMAIN last.buf : last.buf[k].value > 100 /\ last.buf[k].width \in 1 .. 9} :
        \E r \in {BuildProdReq([last.buf EXCEPT ![i].value = @ + 10])} :
            \/ r.err # ""
            \/ \E g \in ToSet(r.groups) : \E s \in ToSet(g.sets) : \E m \in ToSet(s.msgs) : ~ m.crcOk
            \/ Content(r.groups) = Expected(last.contents)

\* The server reads from a request's bytes exactly the messages that the factory
\* put into it, under their topics and partitions and in their order, whether a
\* set was compressed, or compression failed half way, or did not pay and was
\* rolled back (WriteOneMsgSet, TMsgSetWriter, TProdReqBuilder); and no change of
\* one field of a message gets past the message's checksum (CloseMsg,
\* InitCurrentMsg).
ServerReadsWhatWasSent ==
    /\ DamageIsDetected
    /\ last.buf # <<>> =>
        \E r \in {BuildProdReq(last.buf)} :
            /\ r.err = ""
            /\ r.corr = last.corr
            /\ Content(r.groups) = Expected(last.contents)

AllMsgs(contents) ==
    UNION {ToSet(contents[t][p].msgs) : <<t, p>> \in
            {x \in (DOMAIN contents) \X (0 .. 3) : x[2] \in DOMAIN contents[x[1]]}}

DataBytes(contents) ==
    FoldLeft(LAMBDA n, m : n + DataSize(m), 0, SetToSeq(AllMsgs(contents)))

\* A request has no more bytes of keys and values than its limit, unless it is
\* one message; a set that may get compressed is no larger than a broker takes
\* (TryConsumeFrontMsg).
RequestsWithinLimits ==
    /\ DataBytes(last.contents) <= ProduceRequestDataLimit
        \/ Cardinality(AllMsgs(last.contents)) = 1
    /\ \A t \in DOMAIN last.contents : \A p \in DOMAIN last.contents[t] :
        LET set == last.contents[t][p]
        IN  /\ set.size <= MessageMaxBytes
            /\ set.size = Len(SerializeToCompressionBuf(set.msgs))

\* A compressed set is what the broker gets only if compression saved what the
\* configuration asks for, and only sets above the topic's minimum are
\* compressed (WriteOneMsgSet).
CompressionPays ==
    last.buf # <<>> =>
        \A group \in ToSet(BuildProdReq(last.buf).groups) :
            \A set \in {s \in ToSet(group.sets) : s.type # "None"} :
                LET sent == last.contents[group.topic][set.partition]
                    plain == Len(SerializeToCompressionBuf(sent.msgs))
                IN  /\ sent.size >= factory.data[group.topic].info.minSize
                    /\ 100 * LibResult(last.lib, plain).size <= SizeThresholdPercent * plain

\* The messages of a topic that any partition will do for go to one partition in
\* a request, and from request to request to the topic's partitions in turn
\* (TAnyPartitionChooser).
PartitionsTakeTurns ==
    \A t \in DOMAIN last.contents :
        LET ps == AnyPartitions(last.contents, t)
        IN  ps # {} => ps = {PartitionChoices[t][((last.used[t] - 1) % Len(PartitionChoices[t])) + 1]}

\* Requests are what the configuration allows and the broker can take: within the
\* limits, compressed where that pays, and with the messages of a topic spread over
\* its partitions, although messages come back after a pause and are sent again
\* (TProduceRequestFactory).
RequestsObeyLimits == RequestsWithinLimits /\ CompressionPays /\ PartitionsTakeTurns

----------------------------------------------------------------------------
\* "acks": a request of three sets, and any response to it of up to three acks.

AckRequest ==
    [corr |-> 5, contents |->
        (11 :> (0 :> [size |-> 0, msgs |-> <<AnyMsg(1, 11, 103), [AnyMsg(2, 11, 203) EXCEPT !.attempts = 1]>>]
             @@ 2 :> [size |-> 0, msgs |-> <<KeyedMsg(3, 11, 2, 303)>>]))
        @@ (21 :> (1 :> [size |-> 0, msgs |-> <<AnyMsg(4, 21, 402)>>]))]

Acks == {<<11, 0>>, <<11, 2>>, <<21, 1>>, <<21, 0>>, <<31, 0>>}

AckErrors == {0, 2, 5, 1, 77}

\* The acks of a response: places in any order, topic by topic.
AckLists == UNION {[1 .. n -> Acks] : n \in 0 .. 3}

\* A response with the acks, each with the error of its place; a topic is opened
\* again when the acks come back to it.
Answer(corr, acks, errors) ==
    LET upTo[n \in 0 .. Len(acks)] ==
            IF n = 0 THEN ResponseOpened(corr)
            ELSE LET w == IF n > 1 /\ acks[n - 1][1] # acks[n][1]
                          THEN AckTopicClosed(upTo[n - 1]) ELSE upTo[n - 1]
                     v == IF n > 1 /\ acks[n - 1][1] = acks[n][1] THEN w
                          ELSE AckTopicOpened(w, acks[n][1])
                 IN  AckAdded(v, acks[n][2], errors[n], 0)
    IN  ResponseClosed(IF acks = <<>> THEN upTo[0] ELSE AckTopicClosed(upTo[Len(acks)]))

NoProbe == [acks |-> <<>>, errors |-> <<>>, corr |-> 0, cut |-> 0, result |-> Processor(EmptyFunction)]

AcksStep ==
    /\ probe = NoProbe
    /\ \E acks \in AckLists :
        \E errors \in [1 .. Len(acks) -> AckErrors], corr \in {5, 6} :
            \E cut \in IF corr = 5 /\ Len(acks) = 3 /\ errors[1] = 2 THEN {0, 9} ELSE {0} :
                LET buf == Answer(corr, acks, errors)
                    bytes == SubSeq(buf, 1, Len(buf) - cut)
                    sized == IF cut = 0 THEN buf ELSE Write(bytes, 0, 4, Len(bytes) - 4)
                IN  /\ corr = 6 => Len(acks) = 1
                    /\ probe' = [acks |-> acks, errors |-> errors, corr |-> corr, cut |-> cut,
                                 result |-> ProcessResponse(AckRequest, sized)]

\* Where each message of the request is afterwards.
PlacesOf(id) ==
    LET r == probe.result
    IN  <<id \in IdsOfSet(r.processed), id \in IdsOfSet(r.discarded),
          id \in IdsOfBatches(r.immediateResend), id \in IdsOfBatches(r.pauseAndResend),
          id \in IdsOfBatches(r.withoutAcks), id \in IdsOfContents(r.left)>>

PlaceCount(id) == Len(SelectSeq(PlacesOf(id), LAMBDA b : b))

\* Whatever the acks of a response, every message of the request ends in exactly
\* one place; what is left over when ProcessResponse returns is nothing, and only
\* an exception of the reader leaves messages in the request that its caller
\* drops (ProcessResponseAcks, ProcessNoAckMsgs).
AckedOnce ==
    (focus = "acks" /\ probe # NoProbe) =>
        /\ \A id \in 1 .. 4 : PlaceCount(id) = 1
        /\ probe.result.err = "" => probe.result.left = EmptyFunction
        /\ probe.result.err # "" => probe.cut > 0

\* A message counts as delivered only if the first ack for its set says so, and it
\* is sent again only as long as it has attempts left (ProcessOneAck,
\* CountFailedDeliveryAttempt).
FirstAckCounts ==
    (focus = "acks" /\ probe # NoProbe) =>
        LET FirstAck(t, p) == SelectInSeq(probe.acks, LAMBDA a : a = <<t, p>>)
            Error(t, p) == IF FirstAck(t, p) = 0 THEN -99 ELSE probe.errors[FirstAck(t, p)]
            r == probe.result
        IN  /\ \A m \in r.processed : Error(m.topic, IF m.any THEN IF m.topic = 11 THEN 0 ELSE 1
                                                     ELSE m.partition) = 0
            /\ \A b \in ToSet(r.immediateResend \o r.pauseAndResend) : \A m \in ToSet(b) :
                    m.attempts <= MaxFailedDeliveryAttempts
            /\ r.action = "KeepRunning" => probe.corr = AckRequest.corr
                /\ ToSet(probe.acks) = {<<11, 0>>, <<11, 2>>, <<21, 1>>}

----------------------------------------------------------------------------
\* "exchange".

ExchangeStep ==
    \/ /\ turn[1] < Len(ExchangeBatches)
       /\ turn' = [turn EXCEPT ![1] = @ + 1]
       /\ PutBatch(ExchangeBatches[turn[1] + 1])
    \/ /\ UNCHANGED turn
       /\ \/ SendProduceRequest(GoodLibs)
          \/ ProcessSingleProduceResponse \/ ConnectionLost \/ Restart
          \/ (\E c \in {3, 4, 5} : ThreadStep(c)) /\ UNCHANGED connectorVars
          \/ RunThread(client) /\ UNCHANGED connectorVars

\* The messages that were put and that the connector still has, in its factory,
\* in requests without answer, or kept for the time after a pause.
Held == [factory |-> IdsOfBatches(factory.queue),
         unanswered |-> UNION {IdsOfContents(ackWait[i].contents) : i \in DOMAIN ackWait},
         gotAck |-> IdsOfBatches(gotAck), noAck |-> IdsOfBatches(noAck),
         processed |-> outcome.processed, discarded |-> outcome.discarded]

\* Between connector and server every message is in exactly one place, and none is
\* lost: the server's answers are never malformed, also when it disconnects or
\* answers with an error (ProcessSingleProduceResponse, PrepareProduceResponse).
NoMsgLost ==
    focus = "exchange" =>
        LET put == UNION {Ids(ExchangeBatches[i]) : i \in 1 .. turn[1]}
        IN  \A id \in put : Cardinality({k \in DOMAIN Held : id \in Held[k]}) = 1

ValueOf(id) == CHOOSE v \in {103, 203, 302, 402} : v \div 100 = id

\* A message counts as delivered only if a set that has it was received and was
\* answered with success: no answer to one set of a connection is taken for that to
\* another, whatever requests were built again after a reconnect
\* (SendProduceResponse, ProcessSingleProduceResponse).
DeliveredIsReceived ==
    focus = "exchange" =>
        \A id \in outcome.processed :
            \E i \in DOMAIN received : received[i].error = 0 /\ ValueOf(id) \in received[i].values

\* What becomes of a message is what the acks for it say, for a response of any acks
\* and in an exchange with the server: it is in one place, delivered only if a broker
\* has said so, sent again only as long as it may be (TProduceResponseProcessor).
AcksAreObeyed == AckedOnce /\ FirstAckCounts /\ NoMsgLost /\ DeliveredIsReceived

\* Every message is delivered or discarded in the end, in spite of the injected
\* errors and of the reconnects that follow from them.
AllSettled == (focus = "exchange") => <>(died \/ Settled = 1 .. 4)

----------------------------------------------------------------------------
\* "cmds".

ProduceBytes(corr, batches) ==
    BuildRequest([FactoryInit(batches, ChoicesHere) EXCEPT !.corr = corr - 1], GoodLibs).buf

\* What the clients send: client 1 two sets of topic 11; client 2, on the other
\* port, a set of topic 21, one for a partition that it does not have, and a
\* metadata request.
ScriptLength == <<1, 2>>

Script(c, i) ==
    IF i = 2 THEN Md!WriteAllTopicsRequest(7)
    ELSE ProduceBytes(1, IF c = 1 THEN << <<KeyedMsg(1, 11, 0, 103)>>, <<KeyedMsg(2, 11, 2, 203)>> >>
                         ELSE << <<KeyedMsg(3, 11, 0, 303)>>, <<KeyedMsg(4, 21, 0, 103)>> >>)

\* The injector's commands: of each kind, some for one client, some without sense.
CmdsHere ==
    { <<MakeCmdAckError(41, NoName, NoName), MakeCmdAckError(42, 103, NoName)>>,
      <<MakeCmdDisconnectBeforeAck(NoName, 52), MakeCmdAckError(41, NoName, NoName)>>,
      <<MakeCmdAllTopicsMetadataResponseError(5, 11, NoName), MakeCmdAckError(41, 303, 42)>>,
      <<TCmd(SEND_PRODUCE_RESPONSE_ERROR, 70000, 1, 0, 0), MakeCmdAckError(41, NoName, NoName)>>,
      <<TCmd(DELAY_BEFORE_SEND_PRODUCE_RESPONSE, 4, 1, 0, 0),
        MakeCmdDisconnectBeforeAllTopicsMetadataResponse(NoName)>>,
      <<TCmd(DELAY_BEFORE_SEND_METADATA_RESPONSE, -4, 1, 0, 0), TCmd(9, 0, 0, 0, 0)>> }

\* The commands of one case have come.
StopsAt(b) == b.queue # <<>> /\ Head(b.queue).cmd.type = DISCONNECT_ON_READ_PRODUCE_REQUEST

\* The clients and the injector write all they have before the server accepts their
\* connections.  In one case a client closes its socket and the server is stopped.
Sent == turn = <<1, 2, 1>>

CmdsStep ==
    /\ UNCHANGED connectorVars
    /\ \/ \E c \in {1, 2} :
            /\ turn[c] < ScriptLength[c] /\ (c = 2 => turn[1] = 1)
            /\ turn' = [turn EXCEPT ![c] = @ + 1]
            /\ ClientSends(c, Script(c, turn[c] + 1))
       \/ /\ turn = <<1, 2, 0>>
          /\ \E cmds \in InjectedCmds :
                ClientSends(9, FoldLeft(LAMBDA b, cmd : b \o SerializeCmd(cmd), <<>>, cmds))
          /\ turn' = [turn EXCEPT ![3] = 1]
       \/ /\ UNCHANGED turn
          /\ Sent
          /\ \/ \E c \in {1, 2} : ThreadStep(c)
             \/ CmdThreadStep(9)
             \/ MainStep({1, 2, 9})
             \/ StopsAt(bucket) /\ thread[1].at # "none" /\ (ShutdownSignal \/ ClientCloses(1))

AllInfos == received \o FoldLeft(LAMBDA s, c : s \o thread[c].infos, <<>>, <<1, 2>>)

\* A command acts at most once, also when both threads have copied it before one
\* of them removes it (CopyOut, Remove, ChooseMsgSetAction).
CmdsActOnce ==
    focus = "cmds" =>
        \A e \in {41, 42} : Len(SelectSeq(AllInfos, LAMBDA i : i.error = e)) <= 1

\* What a metadata response says of the leaders of partitions, as the daemon's
\* reader reads it: from the reader s on, which has gone to a partition or to a
\* topic.
RECURSIVE LeadersFrom(_, _, _)
LeadersFrom(buf, s, inTopic) ==
    IF s.more
    THEN (IF inTopic THEN {<<Md!GetCurrentTopicName(buf, s), Md!GetCurrentPartitionId(buf, s),
                             Md!GetCurrentPartitionLeaderId(buf, s)>>} ELSE {})
         \cup LeadersFrom(buf, Md!NextPartitionInTopic(buf, s), TRUE)
    ELSE IF inTopic THEN LeadersFrom(buf, Md!NextTopic(buf, s), FALSE) ELSE {}

Leaders(buf) == LeadersFrom(buf, Md!NextTopic(buf, Md!TMetadataResponseReader), FALSE)

\* The bytes that client 2 has got: a produce response and a metadata response.
GotMetadata ==
    LET n == 4 + Read(toClient[2], 0, 4)
    IN  IF Len(toClient[2]) < 4 THEN <<>> ELSE SubSeq(toClient[2], n + 1, Len(toClient[2]))

\* The server takes messages for the partitions that it says are led by the port
\* they came to, and for no others; whatever errors are injected, the others are
\* answered with the error that makes a producer look for the leader (FindPartition,
\* WriteSingleTopic, ChooseMsgSetAction).
LeadersAcceptMsgs ==
    focus = "cmds" =>
        /\ GotMetadata # <<>> =>
                Leaders(GotMetadata) =
                    {x \in {11, 21} \X (0 .. 2) \X {0, 1} :
                        FindPartition(IF x[3] = 0 THEN 1 ELSE 2, x[1], x[2])}
        /\ \A c \in {1, 2} : \A i \in DOMAIN thread[c].infos :
                LET info == thread[c].infos[i]
                IN  (info.error = 3) <=> ~ FindPartition(c, info.topic, info.partition)

----------------------------------------------------------------------------
\* "files".

PortsLines == {<<Word("ports"), Number(11), Number(2)>>, <<Word("ports"), Number(12), Number(2)>>,
               <<Word("ports"), Number(12), Number(0)>>, <<Word("ports"), Number(12), Number(1)>>}

PortLineOf(port, delay) ==
    <<Word("port"), Number(port), Word("read_delay"), Pair(delay, 1), Word("ack_delay"), Pair(0, 2)>>

PortLines == {PortLineOf(11, 1), PortLineOf(12, 2), PortLineOf(12, 3)}

TopicLines == {<<Word("topic"), Word("a"), Number(1), Number(0)>>,
               <<Word("topic"), Word("a"), Number(2), Number(1)>>,
               <<Word("topic"), Word("b"), Number(2), Number(1)>>}

ErrorLines == {<<Word("partition_error"), Word("a"), Number(0), Number(5), Number(1)>>,
               <<Word("partition_error"), Word("a"), Number(1), Number(6), Number(2)>>,
               <<Word("partition_error"), Word("a"), Number(1), Number(-7), Number(2)>>,
               <<Word("partition_error"), Word("a"), Number(0), Number(40000), Number(1)>>}

UpToTwo(S) == UNION {[1 .. n -> S] : n \in 0 .. 2}

Comment == <<Word("#"), Word("topic")>>

CmdLine(cmd, addr, args) == [cmd |-> cmd, addr |-> addr, args |-> args]

CmdLines ==
    {CmdLine("blank", NoName, <<>>), CmdLine("InjectAckError", NoName, <<41>>),
     CmdLine("InjectAckError", 42, <<42, 103>>), CmdLine("InjectAckError", NoName, <<40000>>),
     CmdLine("InjectDisconnectBeforeAck", 42, <<>>), CmdLine("InjectDisconnectBeforeAck", NoName, <<103>>),
     CmdLine("InjectMetadataResponseError", NoName, <<5, 11>>), CmdLine("InjectMetadataResponseError", NoName, <<5>>),
     CmdLine("InjectAllTopicsMetadataResponseError", 42, <<6, 11>>),
     CmdLine("InjectDisconnectBeforeMetadataResponse", NoName, <<11>>),
     CmdLine("InjectDisconnectBeforeAllTopicsMetadataResponse", NoName, <<>>),
     CmdLine("InjectDisconnectBeforeAllTopicsMetadataResponse", NoDelimiter, <<>>),
     CmdLine("Nonsense", NoName, <<>>)}

NoOptions == [ackError |-> 0, ackDisconnect |-> FALSE, singleTopicMdError |-> 0,
              allTopicsMdError |-> 0, singleTopicMdDisconnect |-> FALSE,
              allTopicsMdDisconnect |-> FALSE, clientAddr |-> 0, msgBody |-> 0, topic |-> 0]

OptionsHere == {NoOptions,
                [NoOptions EXCEPT !.ackError = 5, !.ackDisconnect = TRUE, !.msgBody = 103],
                [NoOptions EXCEPT !.singleTopicMdError = 5, !.allTopicsMdError = 6, !.topic = 11],
                [NoOptions EXCEPT !.singleTopicMdDisconnect = TRUE],
                [NoOptions EXCEPT !.allTopicsMdDisconnect = TRUE, !.clientAddr = 42]}

FilesStep ==
    /\ probe = NoProbe
    /\ \/ \E ports \in PortsLines, port \in UpToTwo(PortLines), topic \in UpToTwo(TopicLines),
             errors \in UpToTwo(ErrorLines) :
            probe' = [kind |-> "setup", ports |-> ports, port |-> port, topic |-> topic,
                      errors |-> errors,
                      result |-> FillResult(<<Comment, ports>> \o port \o << <<>> >> \o topic \o errors)]
       \/ \E cfg \in OptionsHere, lines \in UpToTwo(CmdLines) :
            probe' = [kind |-> "cmds", cfg |-> cfg, lines |-> lines,
                      result |-> FillCmdVec(cfg, lines)]

IsProbe(kind) == focus = "files" /\ probe # NoProbe /\ probe.kind = kind

\* The last line for which something holds, or none.
LastLine(lines, P(_)) == SelectLastInSeq(lines, P)

\* A setup file is accepted exactly if its ports are ports, every line is about a
\* port, topic or partition that the lines before it have, and no topic comes twice;
\* the last line for a port or a partition counts (TSetup).
SetupMeansWhatItSays ==
    IsProbe("setup") =>
        LET base == probe.ports[2].num
            count == probe.ports[3].num
            topics == {probe.topic[i][2].word : i \in DOMAIN probe.topic}
            TopicOf(t) == probe.topic[SelectInSeq(probe.topic, LAMBDA l : l[2].word = t)]
            valid == /\ count > 0 /\ base + count - 1 <= InPortMax
                     /\ \A l \in ToSet(probe.port) : l[2].num \in base .. (base + count - 1)
                     /\ topics # {} /\ Cardinality(topics) = Len(probe.topic)
                     /\ \A l \in ToSet(probe.errors) :
                            /\ l[2].word \in topics
                            /\ l[3].num < TopicOf(l[2].word)[3].num
                            /\ l[4].num \in Int16
        IN  /\ probe.result.ok <=> valid
            /\ valid =>
                /\ \A i \in 1 .. count :
                    LET n == LastLine(probe.port, LAMBDA l : l[2].num = base + i - 1)
                    IN  probe.result.info.ports[i].readDelay =
                            IF n = 0 THEN 0 ELSE probe.port[n][4].pair[1]
                /\ \A t \in topics : \A i \in 1 .. TopicOf(t)[3].num :
                    LET n == LastLine(probe.errors, LAMBDA l : l[2].word = t /\ l[3].num = i - 1)
                    IN  probe.result.info.topics[t].partitions[i].ackError =
                            IF n = 0 THEN 0 ELSE probe.errors[n][4].num

\* What the injector asks for is what reaches the bucket: one command for every
\* line and option, of the kind and for the client that it names, unchanged by its
\* way through the socket (SerializeCmd, DeserializeCmd).
CmdsArriveUnchanged ==
    IsProbe("cmds") =>
        LET cmds == probe.result.cmds
            lines == SelectSeq(probe.lines, LAMBDA l : l.cmd # "blank")
            offset == Len(cmds) - Len(lines)
        IN  /\ \A i \in DOMAIN cmds :
                /\ GetCmdSize(SerializeCmd(cmds[i])) = Len(SerializeCmd(cmds[i]))
                /\ DeserializeCmd(SerializeCmd(cmds[i])) = [ok |-> TRUE, cmd |-> cmds[i]]
            /\ probe.result.ok =>
                \A i \in DOMAIN lines :
                    LET cmd == cmds[offset + i]
                    IN  /\ cmd.addr = NameOrEmpty(lines[i].addr)
                        /\ cmd.type \in {SEND_PRODUCE_RESPONSE_ERROR, SEND_METADATA_RESPONSE_ERROR}
                                => cmd.param1 = lines[i].args[1]


----------------------------------------------------------------------------
ProduceInit ==
    /\ focus \in {"build", "acks", "exchange", "cmds", "files"}
    /\ \E cmds \in IF focus = "exchange" THEN ExchangeCmds ELSE {<<>>} :
            MockInit(FoldLeft(PutCmd, EmptyBucket, cmds))
    /\ ExchangeInit
    /\ last = NoLast
    /\ turn = <<0, 0, 0>>
    /\ probe = NoProbe

ProduceNext ==
    /\ UNCHANGED focus
    /\ \/ focus = "build" /\ BuildStep
          /\ UNCHANGED <<mockVars, ackWait, gotAck, noAck, pause, client, outcome, probe>>
       \/ focus = "acks" /\ AcksStep /\ UNCHANGED <<mockVars, connectorVars, last, turn>>
       \/ focus = "exchange" /\ ExchangeStep /\ UNCHANGED <<last, probe>>
       \/ focus = "cmds" /\ CmdsStep /\ UNCHANGED <<last, probe>>
       \/ focus = "files" /\ FilesStep /\ UNCHANGED <<mockVars, connectorVars, last, turn>>

\* Whether a thread of the server has something to do: only reads wait.
ThreadCanStep(c) ==
    /\ ~ died
    /\ \/ thread[c].at \in {"top", "readDelay", "sets", "drop", "match", "ackDelay", "send",
                            "metadata", "mdDrop", "mdRemove", "mdDelay", "mdSend", "reply"}
       \/ thread[c].at = "read" /\ RequestResult(c) # "Blocked"
       \/ thread[c].at = "cmd" /\ CmdResult(c) # "Blocked"

MainCanStep ==
    /\ ~ died
    /\ \/ server = "running" /\ \E c \in {1, 2, 9} : thread[c].at \in {"none", "done"}
       \/ server = "stopping" /\ (HasThread \ stopRequests # {}
                                  \/ \A c \in HasThread : thread[c].at = "done")

ConnectorCanStep ==
    \/ pause = "no" /\ turn[1] < Len(ExchangeBatches)
    \/ pause = "no" /\ ~ IsEmpty(factory) /\ Len(ackWait) < MaxInFlight
       /\ client \in open /\ thread[client].at \notin {"done", "gone"}
    \/ pause # "now" /\ ackWait # <<>> /\ ResponseReady
    \/ pause # "now" /\ thread[client].at \in {"done", "gone"} /\ ~ ResponseReady
    \/ pause # "no"
    \/ ~ died /\ thread[client].at = "none"

\* Whether the system, as opposed to its environment, can go on.
CanStep ==
    \/ (focus = "acks" \/ focus = "files") /\ probe = NoProbe
    \/ focus = "build" /\ ~ IsEmpty(factory)
    \/ focus = "exchange" /\ (ConnectorCanStep \/ \E c \in {3, 4, 5} : ThreadCanStep(c))
    \/ focus = "cmds" /\ Sent /\ (MainCanStep \/ \E c \in {1, 2, 9} : ThreadCanStep(c))

\* Nothing is left to do.
Quiet == ~ CanStep /\ UNCHANGED allVars

\* Weak fairness of the system as a whole: it does not stop while it can go on.
\* (There are finitely many steps of the environment.)
Progress == []<>(~ CanStep) \/ []<><<TRUE>>_allVars

ProduceSpec == ProduceInit /\ [][ProduceNext \/ Quiet]_allVars /\ Progress
==============================================================================
