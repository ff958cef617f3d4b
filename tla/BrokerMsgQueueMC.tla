--------------------------- MODULE BrokerMsgQueueMC ---------------------------
(***************************************************************************)
(* A small instance of BrokerMsgQueue: topic "a" is batched per topic and  *)
(* topic "b" in the combined batch.  The timestamp type has three bits, so *)
(* that timestamp plus time limit overflows, and the clock runs through    *)
(* all of its nonnegative values.                                          *)
(***************************************************************************)
EXTENDS BrokerMsgQueue

NoLimits == [TimeLimit |-> 0, MsgCount |-> 0, ByteCount |-> 0]

MCTopics == {"a", "b"}
MCPerTopicConfig ==
  [t \in MCTopics |-> IF t = "a" THEN [TimeLimit |-> 2, MsgCount |-> 3, ByteCount |-> 4]
                                 ELSE NoLimits]
MCCombinedConfig == [TimeLimit |-> 1, MsgCount |-> 3, ByteCount |-> 0]
MCCombinedTopics == {"b"}

Shape(t, r, ts, size) == [topic |-> t, routing |-> r, ts |-> ts, size |-> size]

MCMsgShapes ==
  {Shape("a", "PartitionKey", 0, 0), Shape("a", "PartitionKey", 1, 2),
   Shape("a", "PartitionKey", 3, 2), Shape("b", "AnyPartition", 1, 1),
   Shape("b", "AnyPartition", 3, 1)}
MCNowShapes == {Shape("a", "PartitionKey", 0, 0), Shape("b", "AnyPartition", 1, 1)}
==============================================================================
