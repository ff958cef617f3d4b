--------------------------- MODULE BatcherTheorems ---------------------------
(***************************************************************************)
(* What the batchers guarantee for every configuration, every timestamp    *)
(* width and every set of topics.                                          *)
(***************************************************************************)
EXTENDS Batchers, WellFoundedInduction, TLAPS

OptTime == Timestamp \cup {None}

(* static_cast<TTimestamp> yields a TTimestamp, whatever the sum was.      *)
LEMMA ToTimestampType == \A x \in Int : ToTimestamp(x) \in Timestamp
<1> SUFFICES ASSUME NEW x \in Int PROVE ToTimestamp(x) \in Timestamp
  OBVIOUS
<1> DEFINE m == 2 * TsRange
<1>1. m \in Nat /\ m > 0
  BY TsRangeAssumption
<1>2. \A y \in Int : y % m \in 0 .. (m - 1)
  BY <1>1
<1>3. (x + TsRange) % m \in 0 .. (m - 1)
  BY <1>2, TsRangeAssumption
<1> QED BY <1>1, <1>3, TsRangeAssumption DEF ToTimestamp, Timestamp

(* A nonempty set of timestamps has a least element.                       *)
LEMMA LeastTimestamp ==
  ASSUME NEW S, S \subseteq Timestamp, S # {}
  PROVE  \E e \in S : \A x \in S : e <= x
<1> DEFINE T == {x + TsRange : x \in S}
<1>0. \A x \in Timestamp : x \in Int /\ x + TsRange \in Nat
  BY TsRangeAssumption DEF Timestamp
<1>1. T \subseteq Nat /\ T # {}
  BY <1>0, Zenon
<1>2. PICK m \in T : \A y \in T : ~(<<y, m>> \in OpToRel(<, Nat))
  BY <1>1, NatLessThanWellFounded, WFMin, ZenonT(60)
<1>3. PICK e \in S : m = e + TsRange
  BY <1>2, ZenonT(60)
<1>4. \A y \in T : ~(y < m)
  BY <1>1, <1>2, ZenonT(60) DEF OpToRel
<1>5. ASSUME NEW x \in S PROVE e <= x
  <2>1. x \in Int /\ e \in Int
    BY <1>0
  <2>2. ~(x + TsRange < m)
    BY <1>4
  <2> QED BY <1>3, <2>1, <2>2, TsRangeAssumption
<1> QED BY <1>5

(* The earlier of two timestamps is one of them and bounds both.           *)
LEMMA EarlierType ==
  \A a, b \in Timestamp : /\ Earlier(a, b) \in Timestamp
                          /\ Earlier(a, b) <= a /\ Earlier(a, b) <= b
BY TsRangeAssumption DEF Earlier, Timestamp

(* GetNextCompleteTime() of a batch is a timestamp or nothing.             *)
LEMMA NextCompleteTimeType ==
  \A cfg \in BatchConfig, core \in CoreState : GetNextCompleteTime(cfg, core) \in OptTime
<1> SUFFICES ASSUME NEW cfg \in BatchConfig, NEW core \in CoreState
             PROVE  GetNextCompleteTime(cfg, core) \in OptTime
  OBVIOUS
<1>1. core.MinTimestamp + cfg.TimeLimit \in Int
  BY TsRangeAssumption DEF CoreState, BatchConfig, Timestamp
<1> QED BY <1>1, ToTimestampType DEF GetNextCompleteTime, OptTime

LEMMA ClearStateType == ClearState \in CoreState
BY TsRangeAssumption DEF ClearState, CoreState, Timestamp, MaxTimestamp

LEMMA UpdateStateType ==
  \A core \in CoreState, ts \in Timestamp, bytes \in Nat :
    UpdateState(core, ts, bytes) \in CoreState
BY EarlierType DEF UpdateState, CoreState

(* The state ProcessNewMsg() leaves is a state.                            *)
LEMMA ProcessNewMsgType ==
  ASSUME NEW cfg \in BatchConfig, NEW core \in CoreState, NEW now \in Int,
         NEW ts \in Timestamp, NEW size \in Nat
  PROVE  ProcessNewMsg(cfg, core, now, ts, size).core \in CoreState
<1> DEFINE bytes == BodySize(size)
<1>1. bytes \in Nat
  BY DEF BodySize
<1>2. /\ UpdateState(core, ts, bytes) \in CoreState
      /\ UpdateState(ClearState, ts, bytes) \in CoreState
      /\ ClearState \in CoreState
  BY <1>1, ClearStateType, UpdateStateType
<1> HIDE DEF bytes
<1> QED BY <1>2 DEF ProcessNewMsg, Decision, bytes
(* A batch that ProcessNewMsg() holds back is not due yet: its time limit  *)
(* lies after 'now', even when timestamp plus time limit overflows.        *)
THEOREM HeldBatchIsNotDue ==
  ASSUME NEW cfg \in BatchConfig, NEW core \in CoreState, NEW now \in Int,
         NEW ts \in Timestamp, NEW size \in Nat, BatchingIsEnabled(cfg)
  PROVE  LET nct == GetNextCompleteTime(cfg, ProcessNewMsg(cfg, core, now, ts, size).core)
         IN nct = None \/ nct > now
<1> DEFINE bytes == BodySize(size)
           added == UpdateState(core, ts, bytes)
           fresh == UpdateState(ClearState, ts, bytes)
           d == ProcessNewMsg(cfg, core, now, ts, size)
           NotDue(c) == GetNextCompleteTime(cfg, c) = None \/ GetNextCompleteTime(cfg, c) > now
<1>1. bytes \in Nat
  BY DEF BodySize
<1>2. added \in CoreState /\ fresh \in CoreState
  BY <1>1, ClearStateType, UpdateStateType
<1>3. \A c \in CoreState : GetNextCompleteTime(cfg, c) \in OptTime
  BY NextCompleteTimeType
<1>4. NotDue(ClearState)
  BY DEF GetNextCompleteTime, ClearState, IsEmpty
<1>5. ASSUME ~TestAllLimits(cfg, added, now) PROVE NotDue(added)
  <2>1. Earlier(added.MinTimestamp, MaxTimestamp) = added.MinTimestamp
    BY <1>2, TsRangeAssumption DEF Earlier, CoreState, Timestamp, MaxTimestamp
  <2>2. ~TestTimeLimit(cfg, added, now, MaxTimestamp)
    BY <1>5 DEF TestAllLimits
  <2>3. added.MinTimestamp + cfg.TimeLimit \in Int
    BY <1>2, TsRangeAssumption DEF CoreState, BatchConfig, Timestamp
  <2>4. ToTimestamp(added.MinTimestamp + cfg.TimeLimit) \in Int
    BY <2>3, ToTimestampType, TsRangeAssumption DEF Timestamp
  <2> QED BY <2>1, <2>2, <2>4 DEF TestTimeLimit, GetNextCompleteTime
<1>6. ASSUME ~TestTimeLimit(cfg, ClearState, now, ts) PROVE NotDue(fresh)
  <2>1. fresh.MinTimestamp = Earlier(ClearState.MinTimestamp, ts)
    BY DEF UpdateState
  <2>2. fresh.MinTimestamp + cfg.TimeLimit \in Int
    BY <1>2, TsRangeAssumption DEF CoreState, BatchConfig, Timestamp
  <2>3. ToTimestamp(fresh.MinTimestamp + cfg.TimeLimit) \in Int
    BY <2>2, ToTimestampType, TsRangeAssumption DEF Timestamp
  <2> QED BY <1>6, <2>1, <2>3 DEF TestTimeLimit, GetNextCompleteTime
<1>7. \/ d.core = ClearState
      \/ d.core = fresh /\ ~TestTimeLimit(cfg, ClearState, now, ts)
      \/ d.core = added /\ ~TestAllLimits(cfg, added, now)
  <2> HIDE DEF bytes
  <2> QED BY DEF ProcessNewMsg, Decision, bytes
<1> HIDE DEF added, fresh, d
<1> QED BY <1>4, <1>5, <1>6, <1>7 DEF d

(* ExpiryTracker.begin() is the earliest expiry of the tracker.            *)
LEMMA PerTopicNextCompleteTimeIsLeast ==
  ASSUME NEW pt, pt.ExpiryTracker \subseteq ExpiryRecord
  PROVE  /\ pt.ExpiryTracker = {} => PerTopicNextCompleteTime(pt) = None
         /\ pt.ExpiryTracker # {} =>
              /\ PerTopicNextCompleteTime(pt) \in Timestamp
              /\ \E r \in pt.ExpiryTracker : PerTopicNextCompleteTime(pt) = r.Expiry
              /\ \A r \in pt.ExpiryTracker : PerTopicNextCompleteTime(pt) <= r.Expiry
<1> DEFINE S == {r.Expiry : r \in pt.ExpiryTracker}
<1>1. CASE pt.ExpiryTracker = {}
  BY <1>1 DEF PerTopicNextCompleteTime
<1>2. CASE pt.ExpiryTracker # {}
  <2>1. S \subseteq Timestamp /\ S # {}
    BY <1>2 DEF ExpiryRecord
  <2>2. \E e \in S : \A x \in S : e <= x
    BY <2>1, LeastTimestamp, ZenonT(60)
  <2>3. \E e \in S : \A r \in pt.ExpiryTracker : e <= r.Expiry
    BY <2>2
  <2>4. /\ PerTopicNextCompleteTime(pt) \in S
        /\ \A r \in pt.ExpiryTracker : PerTopicNextCompleteTime(pt) <= r.Expiry
    BY <1>2, <2>3 DEF PerTopicNextCompleteTime
  <2> QED BY <1>2, <2>1, <2>4
<1> QED BY <1>1, <1>2

LEMMA PerTopicNextCompleteTimeType ==
  ASSUME NEW pt, pt.ExpiryTracker \subseteq ExpiryRecord
  PROVE  PerTopicNextCompleteTime(pt) \in OptTime
BY PerTopicNextCompleteTimeIsLeast DEF OptTime

LEMMA NewEntryType ==
  /\ EmptySingle \in SingleState
  /\ NewEntry \in [Batcher : SingleState, ExpiryRef : ExpiryRecord \cup {None}]
BY ClearStateType DEF NewEntry, EmptySingle, SingleState

(* TSingleTopicBatcher::AddMsg() leaves a batcher, and the batch it holds  *)
(* back, if any, is not due.                                               *)
LEMMA SingleAddMsgType ==
  ASSUME NEW cfg \in BatchConfig, NEW b \in SingleState, NEW msg \in Msg, NEW now \in Int
  PROVE  /\ SingleAddMsg(cfg, b, msg, now).b \in SingleState
         /\ BatchingIsEnabled(cfg) =>
              LET nct == GetNextCompleteTime(cfg, SingleAddMsg(cfg, b, msg, now).b.core)
              IN nct \in OptTime /\ (nct = None \/ nct > now)
<1> DEFINE d == ProcessNewMsg(cfg, b.core, now, msg.ts, msg.size)
           add == SingleAddMsg(cfg, b, msg, now)
<1>1. b.core \in CoreState /\ b.MsgList \in Seq(Msg) /\ msg.ts \in Timestamp /\ msg.size \in Nat
  BY DEF SingleState, Msg
<1>2. d.core \in CoreState
  BY <1>1, ProcessNewMsgType
<1>3. d.action \in {"LeaveMsgAndReturnBatch", "ReturnBatchAndTakeMsg",
                    "TakeMsgAndReturnBatch", "TakeMsgAndLeaveBatch"}
  BY DEF ProcessNewMsg, Decision
<1>4. /\ <<>> \in Seq(Msg) /\ <<msg>> \in Seq(Msg)
      /\ Append(b.MsgList, msg) \in Seq(Msg)
  BY <1>1
<1> HIDE DEF d
<1>5. add.b.core = d.core /\ add.b \in SingleState
  BY <1>2, <1>3, <1>4 DEF SingleAddMsg, SingleState, d
<1>6. BatchingIsEnabled(cfg) =>
        LET nct == GetNextCompleteTime(cfg, d.core) IN nct = None \/ nct > now
  BY <1>1, HeldBatchIsNotDue DEF d
<1>7. GetNextCompleteTime(cfg, d.core) \in OptTime
  BY <1>2, NextCompleteTimeType
<1> QED BY <1>5, <1>6, <1>7

(* GetCompleteBatches() keeps exactly the records that are not due.        *)
LEMMA GetCompleteBatchesType ==
  ASSUME NEW pt, PerTopicState(pt), NEW now \in Int, NEW order
  PROVE  /\ PerTopicState(GetCompleteBatches(pt, now, order).pt)
         /\ GetCompleteBatches(pt, now, order).pt.ExpiryTracker =
              {r \in pt.ExpiryTracker : ~(r.Expiry <= now)}
<1> DEFINE g == GetCompleteBatches(pt, now, order).pt
<1>1. g.ExpiryTracker = {r \in pt.ExpiryTracker : ~(r.Expiry <= now)}
  BY DEF GetCompleteBatches
<1>2. DOMAIN g.BatchMap = DOMAIN pt.BatchMap
  BY DEF GetCompleteBatches
<1>3. \A t \in DOMAIN pt.BatchMap : g.BatchMap[t] \in {NewEntry, pt.BatchMap[t]}
  BY DEF GetCompleteBatches
<1> HIDE DEF g
<1>4. PerTopicState(g)
  BY <1>1, <1>2, <1>3, NewEntryType DEF PerTopicState
<1> QED BY <1>1, <1>4 DEF g

(* The tracker gains at most the topic's new expiry.                       *)
LEMMA TrackExpiryType ==
  ASSUME NEW tracker, tracker \subseteq ExpiryRecord,
         NEW ref \in ExpiryRecord \cup {None}, NEW topic \in Topics, NEW nct \in OptTime
  PROVE  LET tr == TrackExpiry(tracker, ref, topic, nct)
         IN /\ tr.tracker \subseteq ExpiryRecord
            /\ tr.ref \in ExpiryRecord \cup {None}
            /\ \A r \in tr.tracker : r \in tracker \/ (nct # None /\ r.Expiry = nct)
<1> DEFINE rec == [Expiry |-> nct, Topic |-> topic]
           tr == TrackExpiry(tracker, ref, topic, nct)
<1>1. nct # None => rec \in ExpiryRecord /\ rec.Expiry = nct
  BY DEF ExpiryRecord, OptTime
<1> HIDE DEF rec
<1>2. \/ tr.tracker \subseteq tracker /\ tr.ref \in {ref, None}
      \/ nct # None /\ tr.tracker \subseteq tracker \cup {rec} /\ tr.ref = rec
  BY DEF TrackExpiry, rec
<1> QED BY <1>1, <1>2

(* TPerTopicBatcher::AddMsg() adds no expiry that is due, and leaves none. *)
LEMMA PerTopicAddMsgType ==
  ASSUME NEW pt, PerTopicState(pt), NEW msg \in Msg, NEW now \in Int, NEW order
  PROVE  LET p == PerTopicAddMsg(pt, msg, now, order).pt
         IN PerTopicState(p) /\ \A r \in p.ExpiryTracker : r.Expiry > now
<1> DEFINE t == msg.topic
           cfg == PerTopicConfig[t]
           entry == IF t \in DOMAIN pt.BatchMap THEN pt.BatchMap[t] ELSE NewEntry
           add == SingleAddMsg(cfg, entry.Batcher, msg, now)
           nct == GetNextCompleteTime(cfg, add.b.core)
           tr == TrackExpiry(pt.ExpiryTracker, entry.ExpiryRef, t, nct)
           Entry == [Batcher : SingleState, ExpiryRef : ExpiryRecord \cup {None}]
           WithEntry(e) == [s \in DOMAIN pt.BatchMap \cup {t} |->
                              IF s = t THEN e ELSE pt.BatchMap[s]]
           off == [BatchMap |-> WithEntry(entry), ExpiryTracker |-> pt.ExpiryTracker]
           on == [BatchMap |-> WithEntry([Batcher |-> add.b, ExpiryRef |-> tr.ref]),
                  ExpiryTracker |-> tr.tracker]
<1>1. t \in Topics /\ cfg \in BatchConfig
  BY ConfigAssumption DEF Msg
<1>2. entry \in Entry
  BY NewEntryType DEF PerTopicState
<1>3. entry.Batcher \in SingleState /\ entry.ExpiryRef \in ExpiryRecord \cup {None}
  BY <1>2, SMTT(60)
<1>4. add.b \in SingleState /\ nct \in OptTime
  <2>1. add.b \in SingleState
    BY <1>1, <1>3, SingleAddMsgType, SMTT(60)
  <2>2. add.b.core \in CoreState
    BY <2>1 DEF SingleState
  <2> QED BY <1>1, <2>1, <2>2, NextCompleteTimeType, SMTT(60)
<1>5. tr.tracker \subseteq ExpiryRecord /\ tr.ref \in ExpiryRecord \cup {None}
  <2>1. pt.ExpiryTracker \subseteq ExpiryRecord
    BY DEF PerTopicState
  <2> HIDE DEF entry, nct, t
  <2> QED BY <1>1, <1>3, <1>4, <2>1, TrackExpiryType, ZenonT(60)
<1>6. [Batcher |-> add.b, ExpiryRef |-> tr.ref] \in Entry
  BY <1>4, <1>5, ZenonT(60)
<1>7. ASSUME NEW e \in Entry, NEW tracker, tracker \subseteq ExpiryRecord
      PROVE  PerTopicState([BatchMap |-> WithEntry(e), ExpiryTracker |-> tracker])
  <2>1. DOMAIN WithEntry(e) \subseteq Topics
    BY <1>1 DEF PerTopicState
  <2>2. \A s \in DOMAIN WithEntry(e) : WithEntry(e)[s] \in Entry
    BY DEF PerTopicState
  <2> HIDE DEF WithEntry
  <2> QED BY <1>7, <2>1, <2>2 DEF PerTopicState
<1> HIDE DEF entry, add, nct, tr, WithEntry
<1>8. PerTopicState(off)
  BY <1>2, <1>7 DEF PerTopicState
<1>9. PerTopicState(on)
  BY <1>5, <1>6, <1>7, SMTT(60)
<1>10. \/ PerTopicAddMsg(pt, msg, now, order).pt = GetCompleteBatches(off, now, order).pt
       \/ PerTopicAddMsg(pt, msg, now, order).pt = GetCompleteBatches(on, now, order).pt
  BY ZenonT(60) DEF PerTopicAddMsg, entry, add, nct, tr, WithEntry
<1> HIDE DEF off, on
<1>11. ASSUME NEW q, PerTopicState(q)
       PROVE  LET p == GetCompleteBatches(q, now, order).pt
              IN PerTopicState(p) /\ \A r \in p.ExpiryTracker : r.Expiry > now
  <2> DEFINE p == GetCompleteBatches(q, now, order).pt
  <2>1. PerTopicState(p) /\ p.ExpiryTracker = {r \in q.ExpiryTracker : ~(r.Expiry <= now)}
    BY <1>11, GetCompleteBatchesType
  <2>2. \A r \in q.ExpiryTracker : r.Expiry \in Int
    BY <1>11, TsRangeAssumption DEF PerTopicState, ExpiryRecord, Timestamp
  <2> HIDE DEF p
  <2>3. \A r \in p.ExpiryTracker : r.Expiry > now
    BY <2>1, <2>2
  <2> QED BY <2>1, <2>3 DEF p
<1> QED BY <1>8, <1>9, <1>10, <1>11

LEMMA EmptyCombinedType == CombinedState(EmptyCombined) /\ CombinedNextCompleteTime(EmptyCombined) = None
BY ClearStateType DEF CombinedState, EmptyCombined, EmptyTopicMap, CombinedNextCompleteTime,
                      GetNextCompleteTime, IsEmpty, ClearState

(* TCombinedTopicsBatcher::AddMsg() leaves a batcher whose batch, if it    *)
(* has one, is not due.                                                    *)
LEMMA CombinedAddMsgType ==
  ASSUME NEW ct, CombinedState(ct), NEW msg \in Msg, NEW now \in Int, NEW order
  PROVE  LET c == CombinedAddMsg(ct, msg, now, order).ct
         IN /\ CombinedState(c)
            /\ CombinedNextCompleteTime(c) = None \/ CombinedNextCompleteTime(c) > now
<1> DEFINE d == ProcessNewMsg(CombinedConfig, ct.core, now, msg.ts, msg.size)
           c == CombinedAddMsg(ct, msg, now, order).ct
           put == TopicMapPut(ct.TopicMap, msg)
           Maps == [Topics -> Seq(Msg)]
<1>1. /\ msg.ts \in Timestamp /\ msg.size \in Nat /\ msg.topic \in Topics
      /\ CombinedConfig \in BatchConfig
  BY ConfigAssumption DEF Msg
<1>2. d.core \in CoreState
  BY <1>1, ProcessNewMsgType DEF CombinedState
<1>3. EmptyTopicMap \in Maps /\ put \in Maps /\ TopicMapPut(EmptyTopicMap, msg) \in Maps
  <2>1. ASSUME NEW map \in Maps PROVE TopicMapPut(map, msg) \in Maps
    <3>1. map[msg.topic] \in Seq(Msg)
      BY <1>1
    <3>2. Append(map[msg.topic], msg) \in Seq(Msg)
      BY <3>1
    <3> QED BY <1>1, <3>2 DEF TopicMapPut
  <2>2. EmptyTopicMap \in Maps /\ ct.TopicMap \in Maps
    BY DEF EmptyTopicMap, CombinedState
  <2> QED BY <2>1, <2>2
<1>4. CASE ~CombinedBatchingIsEnabled(msg.topic)
  <2>1. \/ c = EmptyCombined
        \/ c = ct /\ ~(CombinedNextCompleteTime(ct) # None /\ now >= CombinedNextCompleteTime(ct))
    BY <1>4 DEF CombinedAddMsg
  <2>2. CombinedNextCompleteTime(ct) \in OptTime
    BY <1>1, NextCompleteTimeType DEF CombinedNextCompleteTime, CombinedState
  <2>3. \A x \in Timestamp : x \in Int
    BY TsRangeAssumption DEF Timestamp
  <2> HIDE DEF c
  <2>4. CombinedState(c)
    BY <2>1, EmptyCombinedType
  <2>5. CombinedNextCompleteTime(c) = None \/ CombinedNextCompleteTime(c) > now
    BY <2>1, <2>2, <2>3, EmptyCombinedType, SMTT(60) DEF OptTime
  <2> QED BY <2>4, <2>5 DEF c
<1>5. CASE CombinedBatchingIsEnabled(msg.topic)
  <2>1. d.action \in {"LeaveMsgAndReturnBatch", "ReturnBatchAndTakeMsg",
                      "TakeMsgAndReturnBatch", "TakeMsgAndLeaveBatch"}
    BY DEF ProcessNewMsg, Decision
  <2> HIDE DEF d, put
  <2>2. c.core = d.core /\ c.TopicMap \in {EmptyTopicMap, put, TopicMapPut(EmptyTopicMap, msg)}
    BY <1>5, <2>1 DEF CombinedAddMsg, d, put
  <2>3. LET nct == GetNextCompleteTime(CombinedConfig, d.core) IN nct = None \/ nct > now
    BY <1>1, <1>5, HeldBatchIsNotDue DEF d, CombinedBatchingIsEnabled, CombinedState
  <2> HIDE DEF c
  <2>4. CombinedState(c)
    BY <1>2, <1>3, <2>2 DEF CombinedState
  <2>5. CombinedNextCompleteTime(c) = None \/ CombinedNextCompleteTime(c) > now
    BY <2>2, <2>3 DEF CombinedNextCompleteTime
  <2> QED BY <2>4, <2>5 DEF c
<1> QED BY <1>4, <1>5

==============================================================================
