--------------------------- MODULE MetadataFetchMC ---------------------------
(***************************************************************************)
(* Instances of MetadataFetch for TLC: two brokers and two topics with up to *)
(* two partitions, brokers and topics that are listed twice, partitions      *)
(* without a leader, with an error and with a replica that is gone.          *)
(***************************************************************************)
EXTENDS MetadataFetch

CONSTANT Depth      \* how many partitions a later response has in all

TopicA == 101
TopicB == 102
TheNewTopic == 103

LengthOf(name) == IF name \in {TopicA, 12} THEN 1 ELSE 2
HostOf(id) == 10 + id
PortOf(id) == 9090 + id

Part(error, id, leader) ==
    [error |-> error, id |-> id, leader |-> leader,
     replicas |-> IF leader < 0 THEN <<>> ELSE IF error = 9 THEN <<1, 2>> ELSE <<leader>>,
     caughtUp |-> IF error = 0 THEN <<leader>> ELSE <<>>]

Topic(error, name, parts) == [error |-> error, name |-> name, parts |-> parts]

Parts == {Part(0, 0, 1), Part(0, 0, 2), Part(0, 1, 1), Part(0, 1, 2),
          Part(5, 0, -1), Part(7, 1, 1), Part(9, 0, 1), Part(0, 1, 3)}

PartLists(parts, n) == UNION {[1 .. k -> parts] : k \in 0 .. n}

BrokerLists == {<<1>>, <<1, 2>>, <<2, 1>>, <<1, 1, 2>>}

OneTopic == {<<Topic(0, TopicA, ps)>> : ps \in PartLists(Parts, Depth)}

TwoTopics ==
    {<<Topic(e[1], e[2], s), Topic(e[3], e[4], t)>> :
        e \in {<<0, TopicA, 0, TopicB>>, <<0, TopicA, 0, TopicA>>, <<3, TopicB, 0, TopicA>>},
        s, t \in PartLists({Part(0, 0, 2), Part(0, 1, 1), Part(7, 1, 1)}, Depth - 1)}

\* The first answer: a few responses, which are also cut short everywhere.
FirstAnswers ==
    {[brokers |-> <<>>, topics |-> <<>>],
     [brokers |-> <<1, 2>>, topics |-> <<Topic(5, TopicB, <<Part(9, 0, 1)>>),
                                         Topic(0, TopicA, <<Part(9, 0, 1), Part(0, 1, 2)>>)>>],
     [brokers |-> <<1, 2>>, topics |-> <<Topic(0, TopicA, <<Part(0, 1, 2), Part(7, 0, 1)>>)>>]}

LaterAnswers ==
    {[brokers |-> b, topics |-> t] : b \in BrokerLists, t \in OneTopic}
        \cup {[brokers |-> <<2, 1>>, topics |-> t] : t \in TwoTopics}

\* Answers to the request to create a topic.
CreateAnswers ==
    {[brokers |-> <<1>>, topics |-> ts] :
        ts \in {<<>>, <<Topic(5, TheNewTopic, <<>>)>>, <<Topic(0, TheNewTopic, <<Part(0, 0, 1)>>)>>,
                <<Topic(17, TheNewTopic, <<>>)>>, <<Topic(0, TopicA, <<>>)>>}}

AnswersTo(r) ==
    IF r.topic # 0 THEN CreateAnswers
    ELSE IF r.first THEN FirstAnswers ELSE LaterAnswers

Known == <<1, 2>>
\* Reads are split in the first fetch only: 41 bytes are less than a response.
Amounts(first) == IF first THEN {41} ELSE {}

-----------------------------------------------------------------------------
\* What a response says of a topic: the first entry without an error counts.
FirstOf(topics, name) ==
    LET good == {i \in DOMAIN topics : topics[i].name = name /\ topics[i].error = 0}
    IN  topics[CHOOSE i \in good : \A j \in good : i <= j]

\* The partitions of a topic of a response that count: those with a known
\* leader, the first of each id.
PartsOf(resp, t) ==
    {t.parts[i] : i \in {k \in DOMAIN t.parts :
        /\ t.parts[k].leader \in ToSet(resp.brokers)
        /\ \A j \in 1 .. (k - 1) : t.parts[j].id = t.parts[k].id
                                    => t.parts[j].leader \notin ToSet(resp.brokers)}}

NamesOf(resp) == {t.name : t \in {u \in ToSet(resp.topics) : u.error = 0}}

\* What a metadata value says, whatever the order of its vectors.
Meaning(m) ==
    [brokers |-> ToSet(m.brokers),
     topics |-> [x \in {t.name : t \in ToSet(m.topics)} |->
        LET t == m.topics[M!FindTopicIndex(m, x)]
        IN  <<M!Parts(m, t.ok), M!Parts(m, t.outOfService)>>]]

\* The metadata says what the response said: after brokers have been reordered
\* and indices remapped, each partition is still with its leader, and it is
\* available exactly if messages can be sent to it (Build, BuildMetadataFrom-
\* Response).  However the response is cut into reads, and however short it is,
\* no assertion of the readers fails and they read no byte that is not there;
\* one that stops short is refused; what is built passes DoSanityCheck, which
\* only logs.
MetadataSaysWhatResponseSaid ==
    /\ pc # "Crashed" /\ S!ReaderOK(sr)
    /\ pc \in {"Build", "Got"} => msg = WriteResponse(answer)
    /\ pc = "Got" =>
        /\ M!SanityCheck(result) /\ M!InServiceBrokersGrouped(result)
        /\ {b.id : b \in ToSet(result.brokers)} = ToSet(answer.brokers)
        /\ {t.name : t \in ToSet(result.topics)} = NamesOf(answer)
        /\ \A t \in ToSet(result.topics) :
            LET ps == PartsOf(answer, FirstOf(answer.topics, t.name))
                Said(qs) == {[id |-> p.id, brokerId |-> p.leader, error |-> p.error] : p \in qs}
            IN  /\ M!Parts(result, t.ok) = Said({p \in ps : p.error \in {0, 9}})
                /\ M!Parts(result, t.outOfService) = Said({p \in ps : p.error \notin {0, 9}})

\* operator== answers "same" exactly if both say the same of every broker and
\* partition: a refresh neither misses a change nor restarts the dispatcher for
\* the order in which brokers or partitions were listed (RefreshMetadata).
ComparisonIsExact ==
    pc = "Got" /\ md # NoMetadata =>
        (M!SameMetadata(result, md) <=> Meaning(result) = Meaning(md))

\* A message finds a partition of every topic that has one available.  Whichever
\* broker the router chooses for one without a key, the connector of that broker
\* finds a partition that the broker leads and that takes messages (Choose-
\* AnyPartitionBrokerIndex, TAnyPartitionChooser); a key finds the partition at
\* its own place whenever that one is available (ChoosePartitionByKey).
MsgsFindPartitions ==
    \A t \in ToSet(md.topics) : t.ok # <<>> =>
        /\ \A counter, count \in 0 .. 3 :
            LET b == M!ChooseAnyPartitionBrokerIndex(md, t.name, counter)
            IN  \E p \in ToSet(t.ok) :
                    p.broker = b /\ p.id = M!ChooseAnyPartition(md, t.name, b, count)
        /\ \A key \in 0 .. 4 :
            LET i == M!ChoosePartitionByKey(md, t.name, key)
                home == t.all[(key % Len(t.all)) + 1]
            IN  i # 0 /\ (home \in ToSet(t.ok) => t.all[i] = home)

\* metadata.h says that a key whose partition is not in service is mapped to a
\* partition that is: "until we find an in service partition".
KeyedPartitionIsInService ==
    \A t \in ToSet(md.topics) : t.ok # <<>> =>
        \A key \in 0 .. 4 :
            t.all[M!ChoosePartitionByKey(md, t.name, key)] \in ToSet(t.ok)
=============================================================================
