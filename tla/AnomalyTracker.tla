---------------------------- MODULE AnomalyTracker ----------------------------
(***************************************************************************)
(* The anomaly tracker (anomaly_tracker.cc): what was discarded and what   *)
(* may be duplicated, gathered in a report per reporting interval.         *)
(*                                                                         *)
(* Any thread tracks anomalies and the web server's threads ask for the    *)
(* reports.  Each reads the clock, and only then takes Mutex: between the  *)
(* two the clock runs and other threads take Mutex.  An anomaly is a       *)
(* record [call, topic, ts, body, arg]; a body is a sequence of symbols.   *)
(***************************************************************************)
EXTENDS Integers, Sequences, SequencesExt, FiniteSets

CONSTANTS
  Threads,           \* the threads that track anomalies
  Anomalies,         \* the anomalies that can happen
  ReportInterval,    \* configuration; 0: one report without end
  MaxMsgPrefixLen,   \* configuration: what is kept of a body
  MaxListItems,      \* MAX_BAD_TOPICS, MAX_MALFORMED_MSGS, ... (25)
  MaxClock,          \* bound: the clock
  MaxAnomalies       \* bound: the number of anomalies

ASSUME TrackerAssumption ==
  ReportInterval \in Nat /\ MaxMsgPrefixLen \in Nat /\ MaxListItems \in Nat \ {0}

(* The topic maps are partial functions, the lists sequences.              *)
TInfo(id, start) ==
  [ReportId |-> id, StartTime |-> start,
   DiscardTopicMap |-> <<>>, DuplicateTopicMap |-> <<>>, RateLimitDiscardMap |-> <<>>,
   MalformedMsgs |-> <<>>, UnixStreamUncleanDisconnectMsgs |-> <<>>,
   TcpUncleanDisconnectMsgs |-> <<>>, UnsupportedVersionMsgs |-> <<>>,
   LongMsgs |-> <<>>, BadTopics |-> <<>>, MalformedMsgCount |-> 0,
   UnixStreamUncleanDisconnectCount |-> 0, TcpUncleanDisconnectCount |-> 0,
   UnsupportedApiKeyMsgCount |-> 0, UnsupportedVersionMsgCount |-> 0,
   BadTopicMsgCount |-> 0]

NoReport == TInfo(-1, 0)     \* a null LastFullReport

Put(map, key, value) ==
  [k \in DOMAIN map \cup {key} |-> IF k = key THEN value ELSE map[k]]
CountIn(map, key) == Put(map, key, IF key \in DOMAIN map THEN map[key] + 1 ELSE 1)

(* Mutant: an item that is seen again keeps its place.                     *)
UpdateLruListKeepPlace(s, list) ==
  IF s \in ToSet(list) THEN list
  ELSE SubSeq(<<s>> \o list, 1, IF Len(list) < MaxListItems THEN Len(list) + 1 ELSE MaxListItems)

UpdateLruList(s, list) ==
  LET new == <<s>> \o SelectSeq(list, LAMBDA x : x # s)
  IN SubSeq(new, 1, IF Len(new) <= MaxListItems THEN Len(new) ELSE MaxListItems)

UpdateTopicMap(map, topic, ts) ==
  IF topic \notin DOMAIN map
    THEN Put(map, topic, [First |-> ts, Last |-> ts, Count |-> 1])
    ELSE Put(map, topic, [First |-> IF ts < map[topic].First THEN ts ELSE map[topic].First,
                          Last |-> IF map[topic].Last < ts THEN ts ELSE map[topic].Last,
                          Count |-> map[topic].Count + 1])

EnforceMaxPrefixLen(body) ==
  SubSeq(body, 1, IF Len(body) <= MaxMsgPrefixLen THEN Len(body) ELSE MaxMsgPrefixLen)

TrackDiscard(r, a) ==
  [r EXCEPT !.DiscardTopicMap = UpdateTopicMap(@, a.topic, a.ts),
            !.RateLimitDiscardMap = IF a.arg = "RateLimit" THEN CountIn(@, a.topic) ELSE @]

TrackDuplicate(r, a) ==
  [r EXCEPT !.DuplicateTopicMap = UpdateTopicMap(@, a.topic, a.ts)]

TrackNoMemDiscard(r, a) ==
  [r EXCEPT !.DiscardTopicMap = UpdateTopicMap(@, a.topic, a.ts)]

TrackMalformedMsgDiscard(r, a) ==
  [r EXCEPT !.MalformedMsgCount = @ + 1,
            !.MalformedMsgs = UpdateLruList(EnforceMaxPrefixLen(a.body), @)]

TrackStreamClientUncleanDisconnect(r, a) ==
  LET prefix == EnforceMaxPrefixLen(a.body) IN
  IF a.arg = "Tcp"
    THEN [r EXCEPT !.TcpUncleanDisconnectCount = @ + 1,
                   !.TcpUncleanDisconnectMsgs = UpdateLruList(prefix, @)]
    ELSE [r EXCEPT !.UnixStreamUncleanDisconnectCount = @ + 1,
                   !.UnixStreamUncleanDisconnectMsgs = UpdateLruList(prefix, @)]

TrackUnsupportedApiKeyDiscard(r, a) == [r EXCEPT !.UnsupportedApiKeyMsgCount = @ + 1]

TrackUnsupportedMsgVersionDiscard(r, a) ==
  [r EXCEPT !.UnsupportedVersionMsgCount = @ + 1,
            !.UnsupportedVersionMsgs = CountIn(@, a.arg)]

TrackBadTopicDiscard(r, a) ==
  [r EXCEPT !.BadTopicMsgCount = @ + 1, !.BadTopics = UpdateLruList(<<a.topic>>, @)]

TrackLongMsgDiscard(r, a) ==
  [r EXCEPT !.LongMsgs = UpdateLruList(EnforceMaxPrefixLen(<<a.topic>> \o a.body), @),
            !.DiscardTopicMap = UpdateTopicMap(@, a.topic, a.ts)]

Record(r, a) ==
  CASE a.call = "Discard" -> TrackDiscard(r, a)
    [] a.call = "Duplicate" -> TrackDuplicate(r, a)
    [] a.call = "NoMem" -> TrackNoMemDiscard(r, a)
    [] a.call = "Malformed" -> TrackMalformedMsgDiscard(r, a)
    [] a.call = "Unclean" -> TrackStreamClientUncleanDisconnect(r, a)
    [] a.call = "ApiKey" -> TrackUnsupportedApiKeyDiscard(r, a)
    [] a.call = "Version" -> TrackUnsupportedMsgVersionDiscard(r, a)
    [] a.call = "BadTopic" -> TrackBadTopicDiscard(r, a)
    [] a.call = "Long" -> TrackLongMsgDiscard(r, a)

(* The reports at time 'now', which may be before the current one's start. *)
AdvanceReportPeriod(filling, full, now) ==
  LET offset == IF ReportInterval = 0 \/ now < filling.StartTime THEN 0
                ELSE (now - filling.StartTime) \div ReportInterval
      At(n) == TInfo(filling.ReportId + n, filling.StartTime + n * ReportInterval)
  IN CASE offset = 0 -> [filling |-> filling, full |-> full]
       [] offset = 1 -> [filling |-> At(1), full |-> filling]
       [] offset > 1 -> [filling |-> At(offset), full |-> At(offset - 1)]

-----------------------------------------------------------------------------
VARIABLES
  clock,
  FillingReport, LastFullReport,
  LastGetInfoTime,
  tracking,          \* per thread: what it is about to record, with its clock reading
  query,             \* the web server's query: its clock reading, or None
  recorded,          \* history: the anomalies recorded, with the id of their report
  told,              \* history: which of them some query returned
  lastQuery, slowQuery,    \* history: when Mutex was taken for a query, and
                           \* whether two queries were more than an interval apart
  NoDiscardQuery     \* counter

trackerVars == <<clock, FillingReport, LastFullReport, LastGetInfoTime, tracking, query,
                 recorded, told, lastQuery, slowQuery, NoDiscardQuery>>

Idle == [now |-> -1]

TrackerInit ==
  /\ clock = 0
  /\ FillingReport = TInfo(0, 0) /\ LastFullReport = NoReport /\ LastGetInfoTime = 0
  /\ tracking = [t \in Threads |-> Idle] /\ query = Idle
  /\ recorded = <<>> /\ told = {} /\ lastQuery = 0 /\ slowQuery = FALSE
  /\ NoDiscardQuery = 0

TrackerTick ==
  /\ clock < MaxClock
  /\ clock' = clock + 1
  /\ UNCHANGED <<FillingReport, LastFullReport, LastGetInfoTime, tracking, query,
                 recorded, told, lastQuery, slowQuery, NoDiscardQuery>>

InProgress == {t \in Threads : tracking[t] # Idle}

(* A Track...() function reads the clock, and logs to the discard file.    *)
ReadClock(t) ==
  /\ tracking[t] = Idle
  /\ Len(recorded) + Cardinality(InProgress) < MaxAnomalies
  /\ \E a \in Anomalies : tracking' = [tracking EXCEPT ![t] = [now |-> clock, a |-> a]]
  /\ UNCHANGED <<clock, FillingReport, LastFullReport, LastGetInfoTime, query,
                 recorded, told, lastQuery, slowQuery, NoDiscardQuery>>

(* It takes Mutex and records the anomaly.                                 *)
RecordAnomaly(t) ==
  /\ tracking[t] # Idle
  /\ LET adv == AdvanceReportPeriod(FillingReport, LastFullReport, tracking[t].now)
     IN /\ FillingReport' = Record(adv.filling, tracking[t].a)
        /\ LastFullReport' = adv.full
        /\ recorded' = Append(recorded, [a |-> tracking[t].a, now |-> tracking[t].now,
                                         id |-> adv.filling.ReportId,
                                         late |-> ReportInterval > 0 /\ clock >=
                                           adv.filling.StartTime + ReportInterval])
  /\ tracking' = [tracking EXCEPT ![t] = Idle]
  /\ UNCHANGED <<clock, LastGetInfoTime, query, told, lastQuery, slowQuery,
                 NoDiscardQuery>>

(* GetInfo reads the clock and says that it has been called.               *)
StartGetInfo ==
  /\ query = Idle
  /\ query' = [now |-> clock]
  /\ LastGetInfoTime' = clock
  /\ UNCHANGED <<clock, FillingReport, LastFullReport, tracking, recorded, told,
                 lastQuery, slowQuery, NoDiscardQuery>>

(* It takes Mutex and returns both reports.                                *)
FinishGetInfo ==
  /\ query # Idle
  /\ LET adv == AdvanceReportPeriod(FillingReport, LastFullReport, query.now)
     IN /\ FillingReport' = adv.filling /\ LastFullReport' = adv.full
        /\ told' = told \cup {i \in DOMAIN recorded :
                                recorded[i].id \in {adv.filling.ReportId, adv.full.ReportId}}
  /\ query' = Idle
  /\ lastQuery' = clock
  /\ slowQuery' = (slowQuery \/ clock - lastQuery > ReportInterval)
  /\ UNCHANGED <<clock, LastGetInfoTime, tracking, recorded, NoDiscardQuery>>

(* The main thread looks now and then whether somebody asks often enough;  *)
(* the counter only says whether it ever found out that nobody does.       *)
CheckGetInfoRate ==
  /\ NoDiscardQuery = 0
  /\ clock - LastGetInfoTime > ReportInterval
  /\ NoDiscardQuery' = 1
  /\ UNCHANGED <<clock, FillingReport, LastFullReport, LastGetInfoTime, tracking, query,
                 recorded, told, lastQuery, slowQuery>>

TrackerNext ==
  \/ TrackerTick \/ StartGetInfo \/ FinishGetInfo \/ CheckGetInfoRate
  \/ \E t \in Threads : ReadClock(t) \/ RecordAnomaly(t)
===============================================================================
