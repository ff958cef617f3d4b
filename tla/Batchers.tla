------------------------------- MODULE Batchers -------------------------------
(***************************************************************************)
(* The three batchers of dory/batch as operators on their states:          *)
(*   TSingleTopicBatcher     [core, MsgList]                               *)
(*   TPerTopicBatcher        [BatchMap, ExpiryTracker]                     *)
(*   TCombinedTopicsBatcher  [core, TopicMap]                              *)
(* A message is a record with the fields the batchers look at: topic,      *)
(* routing ("AnyPartition" or "PartitionKey"), ts and size, and an id.     *)
(* A list of batches is a sequence of sequences of messages.               *)
(***************************************************************************)
EXTENDS BatcherCore, Sequences, SequencesExt

CONSTANTS
  Topics,           \* topic names
  PerTopicConfig,   \* [Topics -> BatchConfig]: TPerTopicBatcher::TConfig::Get
  CombinedConfig,   \* the BatchConfig of the combined topics batcher
  CombinedTopics    \* the topics its TopicFilter/ExcludeTopicFilter let through

(* TBatchConfigBuilder keeps the topics with per-topic batching out of the *)
(* combined batch.                                                         *)
ASSUME ConfigAssumption ==
  /\ PerTopicConfig \in [Topics -> BatchConfig]
  /\ CombinedConfig \in BatchConfig
  /\ CombinedTopics \subseteq {t \in Topics : ~BatchingIsEnabled(PerTopicConfig[t])}

(* 'via' is how the message entered the queue of a broker.                 *)
Msg == [topic : Topics, routing : {"AnyPartition", "PartitionKey"}, ts : Timestamp,
        size : Nat, id : Nat, via : {"Put", "PutNow"}]

(* A std::unordered_map is iterated in an order the program does not       *)
(* control: an operator that iterates one takes the order as a parameter.  *)
TopicOrders == {s \in [1 .. Cardinality(Topics) -> Topics] : IsInjective(s)}

NonEmpty(batch) == IF batch = <<>> THEN <<>> ELSE <<batch>>

------------------------------------------------------------------------------
(* TSingleTopicBatcher                                                     *)

EmptySingle == [core |-> ClearState, MsgList |-> <<>>]

(* 'left' says that the caller still owns the message.                     *)
SingleAddMsg(cfg, b, msg, now) ==
  LET d == ProcessNewMsg(cfg, b.core, now, msg.ts, msg.size)
      Result(kept, batch, left) ==
        [b |-> [core |-> d.core, MsgList |-> kept], batch |-> batch, left |-> left]
  IN CASE d.action = "LeaveMsgAndReturnBatch" -> Result(<<>>, b.MsgList, TRUE)
       [] d.action = "ReturnBatchAndTakeMsg"  -> Result(<<msg>>, b.MsgList, FALSE)
       [] d.action = "TakeMsgAndReturnBatch"  ->
            Result(<<>>, Append(b.MsgList, msg), FALSE)
       [] d.action = "TakeMsgAndLeaveBatch"   ->
            Result(Append(b.MsgList, msg), <<>>, FALSE)

------------------------------------------------------------------------------
(* TPerTopicBatcher.  BatchMap is a partial function: an entry appears     *)
(* with a topic's first message.  ExpiryTracker, a std::multiset ordered   *)
(* by expiry alone, is a set of records; ExpiryRef is the record it points *)
(* to, or None for ExpiryTracker.end().                                    *)

EmptyPerTopic == [BatchMap |-> <<>>, ExpiryTracker |-> {}]

NewEntry == [Batcher |-> EmptySingle, ExpiryRef |-> None]

ExpiryRecord == [Expiry : Timestamp, Topic : Topics]

SingleState == [core : CoreState, MsgList : Seq(Msg)]

PerTopicState(pt) ==
  /\ pt.ExpiryTracker \subseteq ExpiryRecord
  /\ DOMAIN pt.BatchMap \subseteq Topics
  /\ \A t \in DOMAIN pt.BatchMap :
       pt.BatchMap[t] \in [Batcher : SingleState, ExpiryRef : ExpiryRecord \cup {None}]

(* ExpiryTracker.begin()->GetExpiry()                                      *)
PerTopicNextCompleteTime(pt) ==
  IF pt.ExpiryTracker = {}
    THEN None
    ELSE CHOOSE e \in {r.Expiry : r \in pt.ExpiryTracker} :
           \A r \in pt.ExpiryTracker : e <= r.Expiry

(* The records of the tracker in its order; those of one expiry are in the *)
(* order of their insertion, for which 'order' stands.                     *)
InTrackerOrder(recs, order) ==
  LET Rank(r) == CHOOSE i \in DOMAIN order : order[i] = r.Topic
  IN SetToSortSeq(recs, LAMBDA a, b : a.Expiry < b.Expiry
                                        \/ (a.Expiry = b.Expiry /\ Rank(a) < Rank(b)))

(* Take the batches whose time limit has passed, earliest limit first.     *)
GetCompleteBatches(pt, now, order) ==
  LET due == {r \in pt.ExpiryTracker : r.Expiry <= now}
      dueTopics == {r.Topic : r \in due}
      seq == InTrackerOrder(due, order)
  IN [pt |-> [BatchMap |->
                [t \in DOMAIN pt.BatchMap |->
                   IF t \in dueTopics THEN NewEntry ELSE pt.BatchMap[t]],
              ExpiryTracker |-> pt.ExpiryTracker \ due],
      batches |-> [i \in DOMAIN seq |-> pt.BatchMap[seq[i].Topic].Batcher.MsgList]]

(* Bring ExpiryTracker and ExpiryRef in line with the topic's batcher.     *)
TrackExpiry(tracker, ref, topic, nct) ==
  LET rec == [Expiry |-> nct, Topic |-> topic]
      removeOld == ref # None /\ (nct = None \/ nct # ref.Expiry)
      addNew == nct # None /\ (ref = None \/ nct # ref.Expiry)
      kept == IF removeOld THEN tracker \ {ref} ELSE tracker
  IN IF addNew THEN [tracker |-> kept \cup {rec}, ref |-> rec]
               ELSE [tracker |-> kept, ref |-> IF removeOld THEN None ELSE ref]

(* The message is left to the caller only when its topic has no per-topic  *)
(* batching; one the topic's batcher declines becomes a batch of its own.  *)
PerTopicAddMsg(pt, msg, now, order) ==
  LET t == msg.topic
      cfg == PerTopicConfig[t]
      entry == IF t \in DOMAIN pt.BatchMap THEN pt.BatchMap[t] ELSE NewEntry
      add == SingleAddMsg(cfg, entry.Batcher, msg, now)
      tr == TrackExpiry(pt.ExpiryTracker, entry.ExpiryRef, t,
                        GetNextCompleteTime(cfg, add.b.core))
      WithEntry(e) == [s \in DOMAIN pt.BatchMap \cup {t} |->
                         IF s = t THEN e ELSE pt.BatchMap[s]]
      disabled == GetCompleteBatches(
                    [BatchMap |-> WithEntry(entry), ExpiryTracker |-> pt.ExpiryTracker],
                    now, order)
      enabled == GetCompleteBatches(
                   [BatchMap |-> WithEntry([Batcher |-> add.b, ExpiryRef |-> tr.ref]),
                    ExpiryTracker |-> tr.tracker], now, order)
  IN IF ~BatchingIsEnabled(cfg)
       THEN [pt |-> disabled.pt, batches |-> disabled.batches, left |-> TRUE]
       ELSE [pt |-> enabled.pt,
             batches |-> enabled.batches \o NonEmpty(add.batch)
                           \o (IF add.left THEN <<<<msg>>>> ELSE <<>>),
             left |-> FALSE]

GetAllBatches(pt, order) ==
  LET Batch(i) == IF order[i] \in DOMAIN pt.BatchMap
                    THEN NonEmpty(pt.BatchMap[order[i]].Batcher.MsgList) ELSE <<>>
  IN [pt |-> [BatchMap |-> [t \in DOMAIN pt.BatchMap |-> NewEntry],
              ExpiryTracker |-> {}],
      batches |-> FlattenSeq([i \in DOMAIN order |-> Batch(i)])]

(* The topic is gone: its batch goes to the caller.                        *)
DeleteTopic(pt, topic) ==
  IF topic \notin DOMAIN pt.BatchMap THEN [pt |-> pt, batch |-> <<>>]
  ELSE [pt |-> [BatchMap |-> [t \in DOMAIN pt.BatchMap \ {topic} |-> pt.BatchMap[t]],
                ExpiryTracker |-> pt.ExpiryTracker \ {pt.BatchMap[topic].ExpiryRef}],
        batch |-> pt.BatchMap[topic].Batcher.MsgList]

(* SanityCheck: every batch with a time limit has one record, which says   *)
(* when the limit is, and there are no other records.                      *)
PerTopicSanityCheck(pt) ==
  /\ \A t \in DOMAIN pt.BatchMap :
       LET entry == pt.BatchMap[t]
           nct == GetNextCompleteTime(PerTopicConfig[t], entry.Batcher.core)
           recs == {r \in pt.ExpiryTracker : r.Topic = t}
       IN IF nct = None THEN recs = {} /\ entry.ExpiryRef = None
          ELSE recs = {entry.ExpiryRef} /\ entry.ExpiryRef.Expiry = nct
  /\ \A r \in pt.ExpiryTracker : r.Topic \in DOMAIN pt.BatchMap

------------------------------------------------------------------------------
(* TCombinedTopicsBatcher: one core for the messages of many topics, which *)
(* a TTopicMap keeps grouped by topic.                                     *)

EmptyTopicMap == [t \in Topics |-> <<>>]
EmptyCombined == [core |-> ClearState, TopicMap |-> EmptyTopicMap]

CombinedState(ct) == ct.core \in CoreState /\ ct.TopicMap \in [Topics -> Seq(Msg)]

TopicMapPut(map, msg) == [map EXCEPT ![msg.topic] = Append(@, msg)]
TopicMapGet(map, order) == FlattenSeq([i \in DOMAIN order |-> NonEmpty(map[order[i]])])

CombinedNextCompleteTime(ct) == GetNextCompleteTime(CombinedConfig, ct.core)

TakeBatch(ct, order) == [ct |-> EmptyCombined, batches |-> TopicMapGet(ct.TopicMap, order)]

CombinedBatchingIsEnabled(topic) ==
  BatchingIsEnabled(CombinedConfig) /\ topic \in CombinedTopics

CombinedAddMsg(ct, msg, now, order) ==
  LET d == ProcessNewMsg(CombinedConfig, ct.core, now, msg.ts, msg.size)
      nct == CombinedNextCompleteTime(ct)
      Result(map, batches, left) ==
        [ct |-> [core |-> d.core, TopicMap |-> map], batches |-> batches, left |-> left]
      put == TopicMapPut(ct.TopicMap, msg)
  IN IF ~CombinedBatchingIsEnabled(msg.topic) THEN
       IF nct # None /\ now >= nct
         THEN [ct |-> EmptyCombined, batches |-> TakeBatch(ct, order).batches,
               left |-> TRUE]
         ELSE [ct |-> ct, batches |-> <<>>, left |-> TRUE]
     ELSE CASE d.action = "LeaveMsgAndReturnBatch" ->
                 Result(EmptyTopicMap, TopicMapGet(ct.TopicMap, order), TRUE)
            [] d.action = "ReturnBatchAndTakeMsg" ->
                 Result(TopicMapPut(EmptyTopicMap, msg),
                        TopicMapGet(ct.TopicMap, order), FALSE)
            [] d.action = "TakeMsgAndReturnBatch" ->
                 Result(EmptyTopicMap, TopicMapGet(put, order), FALSE)
            [] d.action = "TakeMsgAndLeaveBatch" -> Result(put, <<>>, FALSE)
==============================================================================
