------------------------------ MODULE Metadata ------------------------------
(***************************************************************************)
(* TMetadata and TMetadata::TBuilder (src/dory/metadata.{h,cc}): the        *)
(* brokers and partitions that the router thread routes by, how they are    *)
(* put together from a metadata response, compared and looked up.           *)
(*                                                                         *)
(* A metadata value is a record.  Its fields "brokers" and "topics" are the *)
(* vectors Brokers and Topics, indexed from 1; a topic carries its own name *)
(* (TopicNameToIndex).  "vec" is TopicBrokerVec: for each topic and broker  *)
(* the ids of the partitions that the broker can take messages for, stored  *)
(* in one chunk, which the topic's "choices" locate (PartitionChoiceMap).   *)
(* Only the builder makes such values, and a builder is the same record     *)
(* with its state and the partition ids seen in the open topic.             *)
(***************************************************************************)
EXTENDS Integers, FiniteSets, Sequences, SequencesExt

TBroker(id, host, port) ==
    [id |-> id, host |-> host, port |-> port, inService |-> FALSE]

TPartition(id, broker, error) == [id |-> id, broker |-> broker, error |-> error]

TTopic(name) ==
    [name |-> name, ok |-> <<>>, outOfService |-> <<>>, all |-> <<>>,
     choices |-> << >>]

\* A builder that was just made, or that Build() has reset.
TBuilder ==
    [state |-> "Initial", brokers |-> <<>>, inServiceCount |-> 0,
     topics |-> <<>>, vec |-> <<>>, seen |-> {}]

\* 0 stands for the -1 of the code and for BrokerMap.end().
FindTopicIndex(md, topic) ==
    SelectInSeq(md.topics, LAMBDA t : t.name = topic)

FindBroker(md, id) == SelectInSeq(md.brokers, LAMBDA b : b.id = id)

BrokerIds(md) == [i \in DOMAIN md.brokers |-> md.brokers[i].id]

-----------------------------------------------------------------------------
(* The builder.                                                            *)

OpenBrokerList(b) == [b EXCEPT !.state = "AddingBrokers"]

\* A duplicate broker id is logged and ignored.
AddBroker(b, id, host, port) ==
    IF FindBroker(b, id) # 0 THEN b
    ELSE [b EXCEPT !.brokers = Append(@, TBroker(id, host, port))]

CloseBrokerList(b) == [b EXCEPT !.state = "AddingTopics"]

\* The code returns false for a duplicate topic: the state then stays
\* AddingTopics.
OpenTopic(b, name) ==
    IF FindTopicIndex(b, name) # 0 THEN b
    ELSE [b EXCEPT !.topics = Append(@, TTopic(name)), !.seen = {},
                   !.state = "AddingOneTopic"]

\* A partition of an unknown broker, or with an id seen before in this topic,
\* is logged and ignored.
AddPartitionToTopic(b, id, leader, canSend, error) ==
    LET broker == FindBroker(b, leader)
        p == TPartition(id, broker, error)
        t == Len(b.topics)
    IN  IF broker = 0 \/ id \in b.seen THEN b
        ELSE IF canSend
             THEN [b EXCEPT !.seen = @ \cup {id}, !.topics[t].ok = Append(@, p)]
             ELSE [b EXCEPT !.seen = @ \cup {id},
                            !.topics[t].outOfService = Append(@, p)]

\* The chunks that the sorted OkPartitions of a topic add to TopicBrokerVec.
ChoicesOf(ok, start) ==
    [x \in {p.broker : p \in ToSet(ok)} |->
        [first |-> start + Cardinality({i \in DOMAIN ok : ok[i].broker < x}) + 1,
         count |-> Cardinality({i \in DOMAIN ok : ok[i].broker = x})]]

ByBrokerAndId(p, q) ==
    p.broker < q.broker \/ (p.broker = q.broker /\ p.id < q.id)

ById(p, q) == p.id < q.id

\* The partitions are sorted, the chunks recorded and the brokers marked; then
\* std::shuffle leaves OkPartitions in any order: CloseTopic is the set of the
\* builders that may result.
CloseTopic(b) ==
    LET t == Len(b.topics)
        topic == b.topics[t]
        sorted == SortSeq(topic.ok, ByBrokerAndId)
        closed == [b EXCEPT
            !.state = "AddingTopics",
            !.brokers = [i \in DOMAIN @ |->
                IF \E p \in ToSet(sorted) : p.broker = i
                THEN [@[i] EXCEPT !.inService = TRUE] ELSE @[i]],
            !.vec = @ \o [i \in DOMAIN sorted |-> sorted[i].id],
            !.topics[t].choices = ChoicesOf(sorted, Len(b.vec)),
            !.topics[t].all = SortSeq(sorted \o topic.outOfService, ById)]
    IN  {[closed EXCEPT !.topics[t].ok = s] : s \in SetToSeqs(ToSet(sorted))}

\* The orders std::sort may leave broker_index_reorder in: the brokers in
\* service first, nothing else promised.
InServiceFirst(brokers) ==
    {order \in SetToSeqs(DOMAIN brokers) :
        \A i, j \in DOMAIN order :
            i < j /\ brokers[order[j]].inService => brokers[order[i]].inService}

RemapPartitions(ps, new) == [i \in DOMAIN ps |-> [ps[i] EXCEPT !.broker = new[@]]]

\* Mutant: the partitions out of service keep the old index of their broker.
RemapInServiceOnly(t, new) ==
    [t EXCEPT !.ok = RemapPartitions(@, new),
              !.choices = [x \in {new[y] : y \in DOMAIN @} |->
                               @[CHOOSE y \in DOMAIN @ : new[y] = x]]]

RemapTopic(t, new) ==
    [t EXCEPT !.ok = RemapPartitions(@, new),
              !.outOfService = RemapPartitions(@, new),
              !.all = RemapPartitions(@, new),
              !.choices = [x \in {new[y] : y \in DOMAIN @} |->
                               @[CHOOSE y \in DOMAIN @ : new[y] = x]]]

GroupInServiceBrokers(b, order) ==
    LET new == [old \in DOMAIN order |-> CHOOSE i \in DOMAIN order : order[i] = old]
        brokers == [i \in DOMAIN order |-> b.brokers[order[i]]]
    IN  [b EXCEPT
            !.brokers = brokers,
            !.inServiceCount = Cardinality({i \in DOMAIN brokers :
                                   \A j \in 1 .. i : brokers[j].inService}),
            !.topics = [i \in DOMAIN @ |-> RemapTopic(@[i], new)]]

Content(b) ==
    [brokers |-> b.brokers, inServiceCount |-> b.inServiceCount,
     topics |-> b.topics, vec |-> b.vec]

\* The metadata values that Build() may return.
Build(b) ==
    {Content(GroupInServiceBrokers(b, order)) : order \in InServiceFirst(b.brokers)}

-----------------------------------------------------------------------------
(* Comparison: operator==, that decides whether a refresh replaces the      *)
(* metadata and restarts the dispatcher.                                    *)

CompareBrokers(a, b) == ToSet(b.brokers) \subseteq ToSet(a.brokers)

\* struct t_part: a partition by the id of its broker, not by its index.
Parts(md, ps) ==
    {[id |-> p.id, brokerId |-> md.brokers[p.broker].id, error |-> p.error] :
        p \in ToSet(ps)}

\* Mutant: partitions are compared by the index of their broker, not its id.
CompareByIndex(a, b, s, t) ==
    /\ Len(s.ok) = Len(t.ok)
    /\ Len(s.outOfService) = Len(t.outOfService)
    /\ ToSet(t.ok) \subseteq ToSet(s.ok)
    /\ ToSet(t.outOfService) \subseteq ToSet(s.outOfService)

SingleTopicCompare(a, b, s, t) ==
    /\ Len(s.ok) = Len(t.ok)
    /\ Len(s.outOfService) = Len(t.outOfService)
    /\ Parts(b, t.ok) \subseteq Parts(a, s.ok)
    /\ Parts(b, t.outOfService) \subseteq Parts(a, s.outOfService)

CompareTopics(a, b) ==
    \A i \in DOMAIN a.topics :
        LET j == FindTopicIndex(b, a.topics[i].name)
        IN  j # 0 /\ SingleTopicCompare(a, b, a.topics[i], b.topics[j])

SameMetadata(a, b) ==
    /\ Len(a.brokers) = Len(b.brokers)
    /\ Len(a.vec) = Len(b.vec)
    /\ Len(a.topics) = Len(b.topics)
    /\ CompareBrokers(a, b)
    /\ CompareTopics(a, b)

-----------------------------------------------------------------------------
(* Lookups.                                                                 *)

\* Mutant: a chunk starts one place too early.
ChoicesOneEarly(md, topic, broker) ==
    LET i == FindTopicIndex(md, topic) IN
    IF i = 0 THEN << >>
    ELSE IF broker \notin DOMAIN md.topics[i].choices THEN << >>
    ELSE LET c == md.topics[i].choices[broker]
             first == IF c.first > 1 THEN c.first - 1 ELSE c.first
         IN  SubSeq(md.vec, first, first + c.count - 1)

\* The partition ids of FindPartitionChoices(), << >> for its nullptr.
FindPartitionChoices(md, topic, broker) ==
    LET i == FindTopicIndex(md, topic) IN
    IF i = 0 THEN << >>
    ELSE IF broker \notin DOMAIN md.topics[i].choices THEN << >>
    ELSE LET c == md.topics[i].choices[broker]
         IN  IF c.first > Len(md.vec) \/ c.first + c.count - 1 > Len(md.vec)
             THEN << >>
             ELSE SubSeq(md.vec, c.first, c.first + c.count - 1)

\* TAnyPartitionChooser::Choose with its counter.
ChooseAnyPartition(md, topic, broker, count) ==
    LET choices == FindPartitionChoices(md, topic, broker)
    IN  choices[(count % Len(choices)) + 1]

\* TRouterThread::ChooseAnyPartitionBrokerIndex with the topic's route counter.
ChooseAnyPartitionBrokerIndex(md, topic, counter) ==
    LET ok == md.topics[FindTopicIndex(md, topic)].ok
    IN  ok[(counter % Len(ok)) + 1].broker

\* TRouterThread::ChoosePartitionByKey: the walk starts at key % size and stops
\* at the first partition whose BROKER is in service; 0 stands for Die().
ChoosePartitionByKey(md, topic, key) ==
    LET all == md.topics[FindTopicIndex(md, topic)].all
        n == Len(all)
        At(k) == ((key + k) % n) + 1
        good == {k \in 0 .. (n - 1) : md.brokers[all[At(k)].broker].inService}
    IN  IF good = {} THEN 0
        ELSE At(CHOOSE k \in good : \A j \in good : k <= j)

-----------------------------------------------------------------------------
(* SanityCheck(), which dory runs on a copy of its metadata in its tests.   *)

SanityCheckPartitions(md, t, ps) ==
    /\ \A p \in ToSet(ps) :
        /\ p.broker \in DOMAIN md.brokers
        /\ p \in ToSet(t.all)
    /\ IsInjective([i \in DOMAIN ps |-> ps[i].id])

SanityCheckBrokerPartitionMap(md, t) ==
    /\ {p.broker : p \in ToSet(t.ok)} = DOMAIN t.choices
    /\ \A x \in DOMAIN t.choices :
        LET c == t.choices[x]
            chunk == SubSeq(md.vec, c.first, c.first + c.count - 1)
        IN  /\ c.first + c.count - 1 <= Len(md.vec)
            /\ ToSet(chunk) = {p.id : p \in {q \in ToSet(t.ok) : q.broker = x}}
            /\ \A i \in 2 .. Len(chunk) : chunk[i - 1] < chunk[i]

SanityCheckOneTopic(md, t) ==
    /\ Len(t.all) = Len(t.ok) + Len(t.outOfService)
    /\ \A i \in 2 .. Len(t.all) : t.all[i - 1].id < t.all[i].id
    /\ SanityCheckPartitions(md, t, t.ok)
    /\ SanityCheckPartitions(md, t, t.outOfService)
    /\ {p.id : p \in ToSet(t.ok)} \cap {p.id : p \in ToSet(t.outOfService)} = {}
    /\ SanityCheckBrokerPartitionMap(md, t)

\* Each place of TopicBrokerVec belongs to exactly one chunk.
SanityCheckTopics(md) ==
    /\ IsInjective([i \in DOMAIN md.topics |-> md.topics[i].name])
    /\ \A i \in DOMAIN md.topics : SanityCheckOneTopic(md, md.topics[i])
    /\ \A k \in DOMAIN md.vec :
        Cardinality({<<i, x>> \in UNION {{i} \X DOMAIN md.topics[i].choices :
                                             i \in DOMAIN md.topics} :
            LET c == md.topics[i].choices[x] IN k \in c.first .. (c.first + c.count - 1)}) = 1

SanityCheck(md) ==
    /\ SanityCheckTopics(md)
    /\ \A i \in DOMAIN md.brokers :
        md.brokers[i].inService <=>
            \E k \in DOMAIN md.topics : \E p \in ToSet(md.topics[k].ok) : p.broker = i
    /\ md.inServiceCount = Cardinality({i \in DOMAIN md.brokers : md.brokers[i].inService})

\* The last check of DoSanityCheck only logs: it does not fail the check.
InServiceBrokersGrouped(md) ==
    \A i \in DOMAIN md.brokers : md.brokers[i].inService <=> i <= md.inServiceCount
=============================================================================
