---------------------------- MODULE WebInterface -----------------------------
(***************************************************************************)
(* What the web server's pages say (web_request_handler.cc).  A page is    *)
(* the record of the items it lists; wording, layout and base64 encoding   *)
(* are left out.  A report is a TInfo record of AnomalyTracker.  'stats'   *)
(* maps a topic to its counts, as TMsgStateTracker::GetStats returns it.   *)
(***************************************************************************)
EXTENDS MsgDebug, FiniteSetsExt, TLC

Entries(map) == {[key |-> k, value |-> map[k]] : k \in DOMAIN map}

WriteDiscardReportPlain(info) ==
  [id |-> info.ReportId, start_time |-> info.StartTime,
   malformed_msg_count |-> info.MalformedMsgCount,
   unix_stream_unclean_disconnect_count |-> info.UnixStreamUncleanDisconnectCount,
   tcp_unclean_disconnect_count |-> info.TcpUncleanDisconnectCount,
   unsupported_api_key_msg_count |-> info.UnsupportedApiKeyMsgCount,
   unsupported_version_msg_count |-> info.UnsupportedVersionMsgCount,
   bad_topic_msg_count |-> info.BadTopicMsgCount,
   recent_malformed |-> info.MalformedMsgs,
   unix_stream_unclean_disconnect |-> info.UnixStreamUncleanDisconnectMsgs,
   tcp_unclean_disconnect |-> info.TcpUncleanDisconnectMsgs,
   unsupported_msg_version |-> Entries(info.UnsupportedVersionMsgs),
   recent_bad_topic |-> info.BadTopics,
   recent_too_long_msg |-> info.LongMsgs,
   rate_limit_discard |-> Entries(info.RateLimitDiscardMap),
   discard_topic |-> Entries(info.DiscardTopicMap),
   possible_duplicate_topic |-> Entries(info.DuplicateTopicMap)]

JsonRecentLists(info) ==
  [recent_malformed |-> info.MalformedMsgs,
   unix_stream_unclean_disconnect |-> info.UnixStreamUncleanDisconnectMsgs,
   tcp_unclean_disconnect |-> info.UnixStreamUncleanDisconnectMsgs,
   unsupported_msg_version |-> Entries(info.UnsupportedVersionMsgs),
   recent_bad_topic |-> info.BadTopics,
   recent_too_long_msg |-> info.LongMsgs]

JsonTopicLists(info) ==
  [rate_limit_discard |-> Entries(info.RateLimitDiscardMap),
   discard_topic |-> Entries(info.DiscardTopicMap),
   possible_duplicate_topic |-> Entries(info.DuplicateTopicMap)]

WriteDiscardReportJson(info) ==
  [id |-> info.ReportId, start_time |-> info.StartTime,
   malformed_msg_count |-> info.MalformedMsgCount,
   unix_stream_unclean_disconnect_count |-> info.UnixStreamUncleanDisconnectCount,
   tcp_unclean_disconnect_count |-> info.TcpUncleanDisconnectCount,
   unsupported_api_key_msg_count |-> info.UnsupportedApiKeyMsgCount,
   unsupported_version_msg_count |-> info.UnsupportedVersionMsgCount,
   bad_topic_msg_count |-> info.BadTopicMsgCount] @@ JsonRecentLists(info) @@ JsonTopicLists(info)

(* The report of the current period, and that of the last one if there is. *)
HandleGetDiscardsRequestPlain(info, nofull) ==
  <<WriteDiscardReportPlain(info.filling)>>
    \o (IF info.full = nofull THEN <<>> ELSE <<WriteDiscardReportPlain(info.full)>>)

HandleGetDiscardsRequestJson(info, nofull) ==
  <<WriteDiscardReportJson(info.filling)>>
    \o (IF info.full = nofull THEN <<>> ELSE <<WriteDiscardReportJson(info.full)>>)

SumOver(stats, Count(_)) == FoldSet(LAMBDA t, n : n + Count(stats[t]), 0, DOMAIN stats)

HandleQueueStatsRequestPlain(stats, newCount) ==
  LET batch == SumOver(stats, LAMBDA s : s.BatchingCount)
      send_wait == SumOver(stats, LAMBDA s : s.SendWaitCount)
      ack_wait == SumOver(stats, LAMBDA s : s.AckWaitCount)
  IN [topics |-> Entries(stats), new |-> newCount, batch |-> batch, send_wait |-> send_wait,
      ack_wait |-> ack_wait, total |-> newCount + batch + send_wait + ack_wait]

HandleQueueStatsRequestJson(stats, newCount) == [sending |-> Entries(stats), new |-> newCount]

HandleMetadataFetchTimeRequestPlain(times) ==
  [last_updated |-> times.LastUpdateTime, last_modified |-> times.LastModifiedTime]

HandleMetadataFetchTimeRequestJson(times) ==
  [last_updated |-> times.LastUpdateTime, last_modified |-> times.LastModifiedTime]

HandleGetCountersRequestPlain(samples) == Entries(samples)

HandleGetCountersRequestJson(samples) == Entries(samples)

------------------------------------------------------------------------------
(***************************************************************************)
(* The web server (web_interface.cc) with what its requests change: the    *)
(* debug logging settings, the request for a metadata update, and the      *)
(* counters.  Mongoose calls OnEvent from its only thread; it is external. *)
(* A request is a record [method, uri, topic], uri being the page or the   *)
(* prefix that is followed by a topic.                                     *)
(***************************************************************************)

CONSTANTS
  WebRequests,
  Counters,          \* the counters that other threads increment
  MaxIncrements, MaxUpdateRequests   \* bounds

VARIABLES
  HttpServerStarted,
  MetadataUpdateRequestSem,
  unsampled, sampled,    \* TCounter: UnsampledCount, SampledCount
  increments,            \* history: how often each counter was incremented
  routerUpdates          \* history: the update requests the router took

webVars == <<HttpServerStarted, MetadataUpdateRequestSem, unsampled, sampled, increments,
             routerUpdates>>

WebInit ==
  /\ DebugInit
  /\ HttpServerStarted = FALSE /\ MetadataUpdateRequestSem = 0
  /\ unsampled = [c \in Counters |-> 0] /\ sampled = [c \in Counters |-> 0]
  /\ increments = [c \in Counters |-> 0]
  /\ routerUpdates = 0

WebUp == ~debugDied
NoCountersChange == UNCHANGED <<unsampled, sampled, increments>>

StartHttpServer ==
  /\ WebUp /\ ~HttpServerStarted /\ HttpServerStarted' = TRUE
  /\ UNCHANGED <<debugVars, MetadataUpdateRequestSem, unsampled, sampled, increments,
                 routerUpdates>>

StopHttpServer ==
  /\ WebUp /\ HttpServerStarted /\ HttpServerStarted' = FALSE
  /\ UNCHANGED <<debugVars, MetadataUpdateRequestSem, unsampled, sampled, increments,
                 routerUpdates>>

(* TCounter::Increment, in any thread.                                     *)
Increment(c) ==
  /\ WebUp /\ increments[c] < MaxIncrements
  /\ unsampled' = [unsampled EXCEPT ![c] = @ + 1]
  /\ increments' = [increments EXCEPT ![c] = @ + 1]
  /\ UNCHANGED <<debugVars, HttpServerStarted, MetadataUpdateRequestSem, sampled,
                 routerUpdates>>

Sample ==
  /\ sampled' = [c \in Counters |-> sampled[c] + unsampled[c]]
  /\ unsampled' = [c \in Counters |-> 0]
  /\ UNCHANGED increments

(* The pages that only report.                                             *)
ReportPages == {"/server_info", "/discards", "/metadata_fetch_time", "/queues"}

HandleReport(req) ==
  /\ req.method = "GET" /\ req.uri \in ReportPages
  /\ NoCountersChange
  /\ UNCHANGED <<debugVars, MetadataUpdateRequestSem>>

HandleGetCounters(req) ==
  /\ req.method = "GET" /\ req.uri = "/counters"
  /\ Sample
  /\ UNCHANGED <<debugVars, MetadataUpdateRequestSem>>

HandleGetDebugTopicsRequest(req) ==
  /\ req.method = "GET" /\ req.uri = "/msg_debug/get_topics"
  /\ NoCountersChange
  /\ UNCHANGED <<debugVars, MetadataUpdateRequestSem>>

HandleDebugAddAllTopicsRequest(req) ==
  /\ req.method = "GET" /\ req.uri = "/msg_debug/add_all_topics"
  /\ SetDebugTopics(AllTopics)
  /\ NoCountersChange /\ UNCHANGED MetadataUpdateRequestSem

HandleDebugDelAllTopicsRequest(req) ==
  /\ req.method = "GET" /\ req.uri = "/msg_debug/del_all_topics"
  /\ ClearDebugTopics
  /\ NoCountersChange /\ UNCHANGED MetadataUpdateRequestSem

HandleDebugTruncateFilesRequest(req) ==
  /\ req.method = "GET" /\ req.uri = "/msg_debug/truncate_files"
  /\ TruncateDebugFiles
  /\ NoCountersChange /\ UNCHANGED MetadataUpdateRequestSem

HandleDebugAddTopicRequest(req) ==
  /\ req.method = "GET" /\ req.uri = "/msg_debug/add_topic/"
  /\ IF Current.DebugTopics = AllTopics \/ req.topic \in Current.DebugTopics
       THEN UNCHANGED debugVars
       ELSE AddDebugTopic(req.topic)
  /\ NoCountersChange /\ UNCHANGED MetadataUpdateRequestSem

HandleDebugDelTopicRequest(req) ==
  /\ req.method = "GET" /\ req.uri = "/msg_debug/del_topic/"
  /\ IF Current.DebugTopics # AllTopics /\ req.topic \in Current.DebugTopics
       THEN DelDebugTopic(req.topic)
       ELSE UNCHANGED debugVars
  /\ NoCountersChange /\ UNCHANGED MetadataUpdateRequestSem

HandleMetadataUpdateRequest(req) ==
  /\ req.method = "POST" /\ req.uri = "/metadata_update"
  /\ MetadataUpdateRequestSem < MaxUpdateRequests
  /\ MetadataUpdateRequestSem' = MetadataUpdateRequestSem + 1
  /\ NoCountersChange /\ UNCHANGED debugVars

GetPages == ReportPages \cup
  {"/counters", "/msg_debug/get_topics", "/msg_debug/add_all_topics", "/msg_debug/del_all_topics",
   "/msg_debug/truncate_files", "/msg_debug/add_topic/", "/msg_debug/del_topic/"}

(* Any other GET is answered with the front page.                          *)
WriteFrontPage(req) ==
  /\ req.method = "GET" /\ req.uri \notin GetPages
  /\ NoCountersChange /\ UNCHANGED <<debugVars, MetadataUpdateRequestSem>>

NotFound(req) ==
  /\ req.method = "POST" /\ req.uri # "/metadata_update"
  /\ NoCountersChange /\ UNCHANGED <<debugVars, MetadataUpdateRequestSem>>

NotImplemented(req) ==
  /\ req.method \notin {"GET", "POST"}
  /\ NoCountersChange /\ UNCHANGED <<debugVars, MetadataUpdateRequestSem>>

HandleHttpRequest(req) ==
  \/ HandleReport(req) \/ HandleGetCounters(req) \/ HandleGetDebugTopicsRequest(req)
  \/ HandleDebugAddAllTopicsRequest(req) \/ HandleDebugDelAllTopicsRequest(req)
  \/ HandleDebugTruncateFilesRequest(req) \/ HandleDebugAddTopicRequest(req)
  \/ HandleDebugDelTopicRequest(req) \/ HandleMetadataUpdateRequest(req)
  \/ WriteFrontPage(req) \/ NotFound(req) \/ NotImplemented(req)

(* OnEvent for MG_NEW_REQUEST, when no exception is thrown.                *)
OnEvent(req) ==
  /\ WebUp /\ HttpServerStarted
  /\ HandleHttpRequest(req)
  /\ UNCHANGED <<HttpServerStarted, routerUpdates>>

(* The router thread takes an update request; the semaphore's descriptor   *)
(* is in its poll() array.                                                 *)
RouterTakesRequest ==
  /\ WebUp /\ MetadataUpdateRequestSem > 0 /\ routerUpdates < MaxUpdateRequests
  /\ MetadataUpdateRequestSem' = MetadataUpdateRequestSem - 1
  /\ routerUpdates' = routerUpdates + 1
  /\ UNCHANGED <<debugVars, HttpServerStarted, unsampled, sampled, increments>>

(* A write() to a debug logfile killed Dory.                               *)
WebStopped == debugDied /\ UNCHANGED <<debugVars, webVars>>

WebNext ==
  \/ StartHttpServer \/ StopHttpServer \/ RouterTakesRequest \/ WebStopped
  \/ \E c \in Counters : Increment(c)
  \/ \E req \in WebRequests : OnEvent(req)
  \/ /\ \/ SecondPasses
        \/ \E l \in DebugLoggers : FinishLogMsg(l) \/ \E t \in Topics : StartLogMsg(l, t)
     /\ UNCHANGED webVars
==============================================================================
