---------------------------- MODULE MetadataFetch ----------------------------
(***************************************************************************)
(* How the router thread gets its metadata: TRouterThread::TryGetMetadata   *)
(* and AutocreateTopic walk the known brokers, TMetadataFetcher sends a      *)
(* request and reads the response from a stream that may be cut, delayed or  *)
(* lost, TMetadataProto turns the response into metadata, and RefreshMetadata *)
(* compares it with the metadata in use.  The broker is external: it answers  *)
(* a request that its parser accepts with any response of Responses(topic),   *)
(* as bytes that TMetadataResponseWriter puts together, or with a response    *)
(* that stops short.                                                        *)
(*                                                                         *)
(* Names are numbers.  Bounds: MaxFetches calls of TryGetMetadata and      *)
(* AutocreateTopic in all.                                                  *)
(***************************************************************************)
EXTENDS Integers, FiniteSets, Sequences, SequencesExt

CONSTANTS
    InitialBrokers,     \* the ids of the configured brokers
    Responses(_),       \* what a broker may answer to a request
    NewTopic,           \* the topic of a message that no metadata shows
    NameLength(_), Host(_), Port(_),
    ReadSizes(_),       \* how much a read may return (TRUE: in the first fetch)
    ReadSize,           \* how much it asks for at most
    MaxFetches, MaxBody

NoMetadata == [brokers |-> <<>>, inServiceCount |-> 0, topics |-> <<>>, vec |-> <<>>]

VARIABLES
    pc,         \* where the router thread is
    goal,       \* "fetch" or "autocreate"
    known,      \* KnownBrokers
    tried,      \* i, the number of brokers that were asked
    request,    \* the bytes that were sent
    wire,       \* the bytes of the response that have not been read
    sr,         \* StreamReader
    msg,        \* response
    rd,         \* the reader of BuildMetadataFromResponse
    bld,        \* its builder
    answer,     \* the response the broker chose (a history variable)
    result,     \* the metadata of the fetch
    md,         \* Metadata, the metadata in use
    stamps,     \* MetadataTimestamp: counts of updates and of modifications
    fetches,    \* the number of fetches so far
    created     \* what AutocreateTopic has come to

vars == <<pc, goal, known, tried, request, wire, sr, msg, rd, bld,
          answer, result, md, stamps, fetches, created>>

Proto == INSTANCE MetadataProto
M == INSTANCE Metadata
S == INSTANCE Wire

\* The reader of TMetadataFetcher: an int32 size that does not count itself and
\* is part of the message.
StreamConf ==
    [fieldSize |-> 4, isSigned |-> TRUE, sizeIncludesField |-> FALSE,
     fieldInMsg |-> TRUE, maxBody |-> MaxBody, readSize |-> ReadSize]

-----------------------------------------------------------------------------
(* The broker.                                                              *)

\* A response is a record: ids of brokers, and topics with their partitions.
WritePartition(w, p) ==
    LET open == Proto!OpenReplicaList(Proto!OpenPartition(w, p.error, p.id, p.leader))
        reps == FoldLeft(LAMBDA x, i : Proto!AddReplica(x, i), open, p.replicas)
        isr == Proto!OpenCaughtUpReplicaList(Proto!CloseReplicaList(reps))
        all == FoldLeft(LAMBDA x, i : Proto!AddCaughtUpReplica(x, i), isr, p.caughtUp)
    IN  Proto!ClosePartition(Proto!CloseCaughtUpReplicaList(all))

WriteTopic(w, t) ==
    LET open == Proto!OpenPartitionList(Proto!OpenTopic(w, t.error, t.name))
    IN  Proto!CloseTopic(Proto!ClosePartitionList(FoldLeft(WritePartition, open, t.parts)))

WriteResponse(resp) ==
    LET open == Proto!OpenBrokerList(Proto!OpenResponse(0))
        brokers == FoldLeft(LAMBDA w, b : Proto!AddBroker(w, b, Host(b), Port(b)),
                            open, resp.brokers)
        topics == FoldLeft(WriteTopic, Proto!OpenTopicList(Proto!CloseBrokerList(brokers)),
                           resp.topics)
    IN  Proto!CloseResponse(Proto!CloseTopicList(topics))

\* A message of n bytes whose size field says so, and whose content stops.
CutShort(buf, n) == S!Write(S!Truncated(buf, n), 0, 4, n - 4)

-----------------------------------------------------------------------------
Init ==
    /\ pc = "Idle" /\ goal = "fetch" /\ known = InitialBrokers
    /\ tried = 0 /\ request = <<>> /\ wire = <<>>
    /\ sr = S!NoFd /\ msg = <<>> /\ rd = Proto!TMetadataResponseReader
    /\ bld = M!TBuilder /\ answer = << >> /\ result = NoMetadata
    /\ md = NoMetadata /\ stamps = [updated |-> 0, modified |-> 0]
    /\ fetches = 0 /\ created = "None"

\* TryGetMetadata, AutocreateTopic: the loop over the known brokers starts at a
\* random one.  Which one it is does not show: any broker may give any answer.
Start(g) ==
    /\ pc = "Idle" /\ fetches < MaxFetches
    /\ g = "autocreate" => /\ md # NoMetadata
                           /\ M!FindTopicIndex(md, NewTopic) = 0
                           /\ created = "None"
    /\ goal' = g
    /\ known # <<>> /\ tried' = 0
    /\ result' = NoMetadata /\ created' = "None"
    /\ fetches' = fetches + 1
    /\ pc' = "Connect"
    /\ UNCHANGED <<known, request, wire, sr, msg, rd, bld, answer, md, stamps>>

\* The next iteration of the loop over the known brokers.
NextChoice == tried' = tried + 1

\* Connect() failed, or Fetch() gave nothing: the next broker is asked.
ConnectFails ==
    /\ pc = "Connect" /\ tried < Len(known)
    /\ NextChoice
    /\ UNCHANGED <<pc, goal, known, request, wire, sr, msg, rd, bld, answer,
                   result, md, stamps, fetches, created>>

\* Connect() and StreamReader.Reset(), with the bytes that Fetch() or
\* TopicAutocreate() is going to send.
Connect ==
    /\ pc = "Connect" /\ tried < Len(known)
    /\ sr' = S!Reset(sr.buf)
    /\ request' = IF goal = "fetch" THEN Proto!WriteAllTopicsRequest(0)
                  ELSE Proto!WriteSingleTopicRequest(NewTopic, 0)
    /\ pc' = "Send"
    /\ UNCHANGED <<goal, known, tried, wire, msg, rd, bld, answer,
                   result, md, stamps, fetches, created>>

\* What leaves the fetcher with an empty result: its local variables are gone.
\* A failed assertion ends the process.
GiveUp(e) ==
    /\ pc' = (IF e = "Fault" THEN "Crashed" ELSE "Connect") /\ NextChoice
    /\ wire' = <<>> /\ request' = <<>> /\ msg' = <<>> /\ answer' = <<>>
    /\ rd' = Proto!TMetadataResponseReader /\ bld' = M!TBuilder

Continue == UNCHANGED <<tried, wire, request, msg, answer>>

\* SendRequest() fails, or a timeout, an error or the end of the stream comes
\* before the response is complete (ReadResponse).
Lost ==
    /\ pc \in {"Send", "Read"}
    /\ GiveUp("Lost")
    /\ UNCHANGED <<goal, known, sr, result, md, stamps, fetches, created>>

\* The broker takes the request and answers.  An answer may stop short as long
\* as there is no metadata.
Send ==
    /\ pc = "Send"
    /\ Proto!RequestError(request) = "None"
    /\ \E resp \in Responses([first |-> md = NoMetadata, topic |-> Proto!GetTopic(request)]) :
        /\ answer' = resp
        /\ LET full == WriteResponse(resp)
           IN  wire' \in {full} \cup (IF md = NoMetadata
                                      THEN {CutShort(full, n) : n \in 4 .. (Len(full) - 1)}
                                      ELSE {})
    /\ pc' = "Read"
    /\ UNCHANGED <<goal, known, tried, request, sr, msg, rd, bld,
                   result, md, stamps, fetches, created>>

\* One turn of the loop of ReadResponse(): n bytes have come, or the broker
\* has closed the connection (n = 0).
ReadResponse(n) ==
    /\ pc = "Read" /\ sr.state = "ReadNeeded"
    /\ n <= Len(wire) /\ n <= S!SpaceSize(S!EnsureSpace(sr.buf, ReadSize))
    /\ sr' = S!ReadBytes(StreamConf, sr, SubSeq(wire, 1, n))
    /\ IF sr'.state \in {"ReadNeeded", "MsgReady"}
       THEN /\ wire' = SubSeq(wire, n + 1, Len(wire))
            /\ UNCHANGED <<pc, tried, request, msg, answer, rd, bld>>
       ELSE GiveUp(sr'.state)
    /\ UNCHANGED <<goal, known, result, md, stamps, fetches, created>>

\* The rest of Fetch() and TopicAutocreate() up to the parser.
TakeResponse ==
    /\ pc = "Read" /\ sr.state = "MsgReady"
    /\ msg' = S!GetReadyMsg(sr)
    /\ sr' = S!ConsumeReadyMsg(StreamConf, sr)
    /\ rd' = Proto!TMetadataResponseReader
    /\ bld' = M!OpenBrokerList(M!TBuilder)
    /\ pc' = IF goal = "fetch" THEN "Brokers" ELSE "Autocreate"
    /\ UNCHANGED <<goal, known, tried, request, wire, answer, result,
                   md, stamps, fetches, created>>

-----------------------------------------------------------------------------
(* BuildMetadataFromResponse, one turn of a loop per step.                  *)

CanSendToPartition(error) == error \in {0, 9}

Parsing == <<goal, known, sr, md, stamps, fetches, created>>

\* while (reader.NextBroker())
ReadBroker ==
    /\ pc = "Brokers"
    /\ LET r == Proto!NextBroker(msg, rd)
           e == IF r.more THEN Proto!BrokerError(msg, r) ELSE r.err
       IN  IF e # "None" THEN GiveUp(e)
           ELSE    /\ rd' = r /\ Continue
                   /\ IF r.more
                      THEN /\ bld' = M!AddBroker(bld, Proto!GetCurrentBrokerNodeId(msg, r),
                                                 Proto!GetCurrentBrokerHost(msg, r),
                                                 Proto!GetCurrentBrokerPort(msg, r))
                           /\ UNCHANGED pc
                      ELSE bld' = M!CloseBrokerList(bld) /\ pc' = "Topics"
    /\ UNCHANGED result /\ UNCHANGED Parsing

\* while (reader.NextTopic()): a topic with an error, and a duplicate, are
\* passed over.
ReadTopic ==
    /\ pc = "Topics"
    /\ LET r == Proto!NextTopic(msg, rd)
           opened == M!OpenTopic(bld, Proto!GetCurrentTopicName(msg, r))
       IN  IF r.err # "None" THEN GiveUp(r.err)
           ELSE    /\ rd' = r /\ Continue
                   /\ IF ~r.more THEN pc' = "Build" /\ UNCHANGED bld
                      ELSE IF Proto!GetCurrentTopicErrorCode(msg, r) # 0
                      THEN UNCHANGED <<pc, bld>>
                      ELSE /\ bld' = opened
                           /\ pc' = IF opened.state = "AddingOneTopic"
                                    THEN "Partitions" ELSE "Topics"
    /\ UNCHANGED result /\ UNCHANGED Parsing

\* while (reader.NextPartitionInTopic()), and CloseTopic() after the last.
ReadPartition ==
    /\ pc = "Partitions"
    /\ LET r == Proto!NextPartitionInTopic(msg, rd)
           e == IF r.more THEN Proto!PartitionError(msg, r) ELSE r.err
           error == Proto!GetCurrentPartitionErrorCode(msg, r)
       IN  IF e # "None" THEN GiveUp(e)
           ELSE    /\ rd' = r /\ Continue
                   /\ IF r.more
                      THEN /\ bld' = M!AddPartitionToTopic(bld,
                                        Proto!GetCurrentPartitionId(msg, r),
                                        Proto!GetCurrentPartitionLeaderId(msg, r),
                                        CanSendToPartition(error), error)
                           /\ UNCHANGED pc
                      ELSE bld' \in M!CloseTopic(bld) /\ pc' = "Topics"
    /\ UNCHANGED result /\ UNCHANGED Parsing

\* Build(), and the check of Fetch() that there are brokers.
FinishFetch ==
    /\ pc = "Build"
    /\ \E m \in M!Build(bld) :
        IF m.brokers = <<>> THEN GiveUp("NoBrokers") /\ UNCHANGED result
        ELSE /\ result' = m /\ pc' = "Got" /\ bld' = M!TBuilder
             /\ UNCHANGED rd /\ Continue
    /\ UNCHANGED Parsing

-----------------------------------------------------------------------------
(* The router thread.                                                      *)

UpdateKnownBrokers(m) == M!BrokerIds(m)

\* TryGetMetadata() ends: RefreshMetadata() compares, or InitialMetadata is set.
UseMetadata ==
    /\ pc = "Got"
    /\ M!SanityCheck(result)
    /\ known' = UpdateKnownBrokers(result)
    /\ LET unchanged == md # NoMetadata /\ M!SameMetadata(result, md)
       IN  /\ stamps' = [updated |-> fetches,
                         modified |-> IF unchanged THEN stamps.modified ELSE fetches]
           /\ md' = IF unchanged THEN md ELSE result
    /\ tried' = 0
    /\ pc' = "Idle"
    /\ request' = <<>> /\ msg' = <<>> /\ rd' = Proto!TMetadataResponseReader
    /\ UNCHANGED <<goal, wire, sr, bld, answer, result, fetches, created>>

\* No broker gave metadata, or created the topic: the caller waits and tries
\* again, or discards the message.
NoneLeft ==
    /\ pc = "Connect" /\ tried = Len(known)
    /\ created' = IF goal = "autocreate" THEN "Discard" ELSE created
    /\ tried' = 0
    /\ pc' = "Idle"
    /\ UNCHANGED <<goal, known, request, wire, sr, msg, rd, bld, answer, result,
                   md, stamps, fetches>>

\* TopicAutocreateWasSuccessful: the first topic of the response decides.
TopicAutocreateWasSuccessful(r) ==
    /\ r.more
    /\ Proto!GetCurrentTopicName(msg, r) = NewTopic
    /\ Proto!GetCurrentTopicErrorCode(msg, r) \in {0, 5}

\* TopicAutocreate() returns: only a bad response lets another broker try.
FinishAutocreate ==
    /\ pc = "Autocreate"
    /\ LET r == Proto!NextTopic(msg, rd)
       IN  IF r.err # "None" THEN GiveUp(r.err) /\ UNCHANGED created
           ELSE /\ created' = IF TopicAutocreateWasSuccessful(r)
                              THEN "Created" ELSE "Discard"
                /\ tried' = 0
                /\ pc' = "Idle"
                /\ UNCHANGED <<request, wire, msg, answer, rd, bld>>
    /\ UNCHANGED <<goal, known, sr, result, md, stamps, fetches>>

\* The bound is reached: the thread goes on with other work.
Done == pc = "Idle" /\ fetches = MaxFetches /\ UNCHANGED vars

Next ==
    \/ \E g \in {"fetch", "autocreate"} : Start(g)
    \/ ConnectFails \/ Connect \/ Lost \/ Send
    \/ \E n \in ReadSizes(md = NoMetadata) \cup {0, Len(wire)} : ReadResponse(n)
    \/ TakeResponse
    \/ ReadBroker \/ ReadTopic \/ ReadPartition \/ FinishFetch
    \/ UseMetadata \/ NoneLeft \/ FinishAutocreate
    \/ Done

Spec == Init /\ [][Next]_vars
=============================================================================
