----------------------------- MODULE MsgRoutingMC -----------------------------
(***************************************************************************)
(* The model of MsgRouting.tla that TLC checks, and its properties.  The   *)
(* router batches topic "a" and limits its rate; topic "b" loses its       *)
(* partitions or its existence as the metadata changes.                    *)
(***************************************************************************)
EXTENDS MsgRouting

(* Metadata with 'n' brokers and the topics given, a sequence of           *)
(* [name, ps], where a partition of ps is [broker, ok].                    *)
Built(n, topics) ==
  LET b0 == FoldLeft(LAMBDA b, i : M!AddBroker(b, i, i, i), M!OpenBrokerList(M!TBuilder),
                     [i \in 1 .. n |-> i])
      AddTopic(b, t) ==
        CHOOSE x \in M!CloseTopic(FoldLeft(
            LAMBDA y, i : M!AddPartitionToTopic(y, i, t.ps[i].broker, t.ps[i].ok, 0),
            M!OpenTopic(b, t.name), [i \in DOMAIN t.ps |-> i])) : TRUE
  IN CHOOSE md \in M!Build(FoldLeft(AddTopic, M!CloseBrokerList(b0), topics)) : TRUE

On(b) == [broker |-> b, ok |-> TRUE]
Off(b) == [broker |-> b, ok |-> FALSE]
A(ps) == [name |-> "a", ps |-> ps]
B(ps) == [name |-> "b", ps |-> ps]

ThreeVersions ==
  {Built(2, <<A(<<On(1)>>), B(<<On(1), On(2)>>)>>),
   Built(2, <<A(<<On(2)>>)>>),
   Built(2, <<A(<<Off(1)>>), B(<<On(2)>>)>>)}

TwoTopics == {"a", "b"}
BatchA == [t \in TwoTopics |->
             IF t = "a" THEN [TimeLimit |-> 2, MsgCount |-> 2, ByteCount |-> 0]
             ELSE [TimeLimit |-> 0, MsgCount |-> 0, ByteCount |-> 0]]
NoBatching == [TimeLimit |-> 0, MsgCount |-> 0, ByteCount |-> 0]
NoTopics == {}
LimitA == [a |-> [Interval |-> 2, MaxCount |-> 1]]
NoLimit == [Interval |-> 1, MaxCount |-> Unlimited]

Kind(t, r, long) == [topic |-> t, routing |-> r, key |-> 1, long |-> long, size |-> 1]
ThreeKinds == {Kind("a", "AnyPartition", FALSE), Kind("b", "PartitionKey", FALSE),
               Kind("b", "AnyPartition", TRUE)}

-----------------------------------------------------------------------------
Exist == DOMAIN info

Count(t, s) == Cardinality({m \in Exist : TopicOf(m) = t /\ msgState[m] = s})
Stats(t) == IF t \in DOMAIN stats.TopicStats THEN stats.TopicStats[t] ELSE TTopicStats


(* The queue statistics are exact: a message that was discarded is in no   *)
(* count (msg_state_tracker.h).                                            *)
NoLeakedCounts == \A t \in Topics : leaked[t] = 0

InQueue(q) == ToSet(q.held) \cup InLists(q.send) \cup InLists(q.ack)
InBatcher == UNION {ToSet(Ids(PerTopicBatcher.BatchMap[t].Batcher.MsgList)) :
                      t \in DOMAIN PerTopicBatcher.BatchMap}

(* Whatever happens to topics, brokers and the shutdown, a message the     *)
(* input agents created is in exactly one place: the channel, a list of    *)
(* the router, its batcher, one connector's queue, or it has one outcome.  *)
(* TPerTopicBatcher::SanityCheck() holds, also after topics were deleted.  *)
EachMsgInOnePlace ==
  /\ PerTopicSanityCheck(PerTopicBatcher)
  /\ \A m \in Exist :
       LET places == <<m \in ToSet(MsgChannel), m \in ToSet(msg_list), m \in ToSet(remaining),
                       m \in InLists(ready_batches), m \in InBatcher, fate[m] # "none">>
                       \o [b \in 1 .. Cardinality(Brokers) |-> m \in InQueue(queue[b])]
       IN Cardinality({i \in DOMAIN places : places[i]}) = 1

(* After every change of the metadata, a message waits for a broker that   *)
(* the current metadata names for its topic and key (Reroute), and what    *)
(* the batcher holds can be routed: "all messages we get from the batcher  *)
(* will have valid topics and at least one available partition"            *)
(* (ChooseAnyPartitionBrokerIndex).                                        *)
WaitsAtItsBroker ==
  /\ \A m \in InBatcher : Routable(Metadata, TopicOf(m))
  /\ running => \A b \in Brokers : \A m \in InQueue(queue[b]) :
                  Routable(Metadata, TopicOf(m)) /\ b \in AssignBroker(Metadata, m)

(* Every topic is validated before routing, so the router finds it in the  *)
(* metadata (LookupValidTopicIndex).                                       *)
RoutedTopicsAreValid == pc # "Crashed"

(* While poll() sleeps, it will return no later than the time limit of any *)
(* batch the router holds (ComputeMainLoopPollTimeout).                    *)
PollWakesForBatches ==
  pc = "poll" =>
    \A t \in DOMAIN PerTopicBatcher.BatchMap :
      LET b == PerTopicBatcher.BatchMap[t].Batcher IN
        b.MsgList # <<>> /\ TimeLimitIsEnabled(PerTopicConfig[t]) =>
          /\ wakeAt # None
          /\ \A i \in DOMAIN b.MsgList : wakeAt <= b.MsgList[i].ts + PerTopicConfig[t].TimeLimit

Passed(t) == {m \in Exist : /\ TopicOf(m) = t
                            /\ msgState[m] \in {"Batching", "SendWait", "AckWait"}
                                 \/ fate[m] = "Acknowledged"}

===============================================================================
