------------------------------ MODULE DoryMain -------------------------------
(***************************************************************************)
(* TBatchConfigBuilder (dory/batch): from the configuration of batching to *)
(* those of the per topic batcher and of the combined topics batchers.  A  *)
(* TBatchConfig is [TimeLimit, MsgCount, ByteCount] with 0 for no limit;   *)
(* the null pointer is <<>>, a pointer to c is <<c>>.  BuildFromConf()     *)
(* sets each thing but the topics once on a new builder, so that the flags *)
(* by which the setters refuse a second call are left out.                 *)
(***************************************************************************)
EXTENDS Conf

NoBatching == [TimeLimit |-> 0, MsgCount |-> 0, ByteCount |-> 0]

BatchingIsEnabled(config) == config # NoBatching

NewBuilder ==
  [PerTopicMap |-> <<>>, DefaultTopicConfig |-> NoBatching,
   DefaultTopicSkipBrokerBatching |-> FALSE, BrokerBatchConfig |-> NoBatching,
   BrokerBatchEnableTopics |-> {}, BrokerBatchDisableTopics |-> {},
   PerTopicBatchingTopics |-> {}, ProduceRequestDataLimit |-> 0, MessageMaxBytes |-> 0]

Deref(config) == IF config = <<>> THEN NoBatching ELSE config[1]

AddTopic(b, topic, config) ==
  IF topic \in DOMAIN b.PerTopicMap THEN b
  ELSE LET into == IF config = <<>> THEN "BrokerBatchDisableTopics"
                   ELSE IF BatchingIsEnabled(config[1]) THEN "PerTopicBatchingTopics"
                   ELSE "BrokerBatchEnableTopics"
       IN [b EXCEPT ![into] = @ \cup {topic},
                    !.PerTopicMap = [t \in DOMAIN @ \cup {topic} |->
                                       IF t = topic THEN Deref(config) ELSE @[t]]]

SetDefaultTopic(b, config) ==
  [b EXCEPT !.DefaultTopicSkipBrokerBatching = (config = <<>>),
            !.DefaultTopicConfig = Deref(config)]

SetBrokerConfig(b, config) == [b EXCEPT !.BrokerBatchConfig = Deref(config)]

(* TGlobalBatchConfig                                                      *)
Build(b) ==
  LET exclude == /\ BatchingIsEnabled(b.BrokerBatchConfig)
                 /\ ~b.DefaultTopicSkipBrokerBatching
                 /\ ~BatchingIsEnabled(b.DefaultTopicConfig)
  IN [PerTopicConfig |-> [DefaultTopic |-> b.DefaultTopicConfig, PerTopic |-> b.PerTopicMap],
      CombinedTopicsConfig |->
        [BatchConfig |-> b.BrokerBatchConfig, ExcludeTopicFilter |-> exclude,
         TopicFilter |-> IF ~BatchingIsEnabled(b.BrokerBatchConfig) THEN {}
                         ELSE IF exclude
                           THEN b.PerTopicBatchingTopics \cup b.BrokerBatchDisableTopics
                         ELSE b.BrokerBatchEnableTopics],
      ProduceRequestDataLimit |-> b.ProduceRequestDataLimit,
      MessageMaxBytes |-> b.MessageMaxBytes]

ToBatchConfig(values) ==
  LET ValueOr0(opt) == IF opt = <<>> THEN 0 ELSE opt[1]
  IN [TimeLimit |-> ValueOr0(values.OptTimeLimit), MsgCount |-> ValueOr0(values.OptMsgCount),
      ByteCount |-> ValueOr0(values.OptByteCount)]

ConfigFor(action, values) ==
  CASE action = "perTopic"       -> <<ToBatchConfig(values)>>
    [] action = "combinedTopics" -> <<NoBatching>>
    [] action = "disable"        -> <<>>

(* The order of the topics is that of an unordered_map; it does not matter *)
(* to the sets that AddTopic() fills.                                      *)
BuildFromConf(conf) ==
  LET b0 == [NewBuilder EXCEPT !.ProduceRequestDataLimit = conf.ProduceRequestDataLimit,
                               !.MessageMaxBytes = conf.MessageMaxBytes]
      b1 == SetBrokerConfig(b0, IF conf.CombinedTopicsBatchingEnabled
                                  THEN <<ToBatchConfig(conf.CombinedTopicsConfig)>> ELSE <<>>)
      b2 == SetDefaultTopic(b1, ConfigFor(conf.DefaultTopicAction, conf.DefaultTopicConfig))
      Add(b, t) == AddTopic(b, t, ConfigFor(conf.TopicConfigs[t].Action,
                                            conf.TopicConfigs[t].BatchValues))
  IN Build(FoldLeft(Add, b2, SetToSeq(DOMAIN conf.TopicConfigs)))

------------------------------------------------------------------------------
(* What the batchers make of it.                                           *)

(* TPerTopicBatcher::TConfig::Get()                                        *)
PerTopicGet(config, topic) ==
  IF topic \in DOMAIN config.PerTopic THEN config.PerTopic[topic] ELSE config.DefaultTopic

(* TCombinedTopicsBatcher::BatchingIsEnabled(topic)                        *)
CombinedBatchingIsEnabled(config, topic) ==
  /\ BatchingIsEnabled(config.BatchConfig)
  /\ IF config.TopicFilter = {} THEN config.ExcludeTopicFilter
     ELSE (topic \notin config.TopicFilter) = config.ExcludeTopicFilter

------------------------------------------------------------------------------
(***************************************************************************)
(* The start of Dory: DoryMain() reads the configuration file and gives up *)
(* or constructs the server, whose dispatcher state takes the part on      *)
(* batching.                                                               *)
(***************************************************************************)

CONSTANTS ConfigFiles     \* the files that Dory may be started with

VARIABLES
  configFile,     \* the file
  startup,        \* "Start", "Configured", "Running", "ExitFailure" or "Die"
  serverConf,     \* TConf, or <<>>
  batchConfig     \* TGlobalBatchConfig, or <<>>

mainVars == <<configFile, startup, serverConf, batchConfig>>

(* The exceptions of the builder that are no TXmlError.                    *)
ConfErrors ==
  {"TBatchDuplicateDefaultTopicConfig", "TCompressionDuplicateDefaultTopicConfig",
   "TCompressionDuplicateTopicConfig", "TCompressionUnknownTopicConfig",
   "TTopicRateDuplicateDefaultTopicConfig", "TTopicRateDuplicateTopicConfig",
   "TTopicRateUnknownTopicConfig"}

MainInit ==
  /\ configFile \in ConfigFiles
  /\ startup = "Start" /\ serverConf = <<>> /\ batchConfig = <<>>

(* TXmlError and TInvalidArgError are caught by DoryMain(), which reports  *)
(* an error in the file; every other exception by main(), which dies.      *)
ReadConfigFile ==
  LET r == Then(BuildConf(configFile), CheckUnixDgSize)
  IN /\ startup = "Start"
     /\ startup' = IF r.err = "" THEN "Configured"
                   ELSE IF r.err \in ConfErrors THEN "Die" ELSE "ExitFailure"
     /\ serverConf' = IF r.err = "" THEN r.val ELSE <<>>
     /\ UNCHANGED <<configFile, batchConfig>>

(* TDispatcherSharedState's constructor                                    *)
MakeSharedState ==
  /\ startup = "Configured"
  /\ startup' = "Running"
  /\ batchConfig' = BuildFromConf(serverConf.BatchConf)
  /\ UNCHANGED <<configFile, serverConf>>

(* The process has ended, or the server runs.                              *)
StartupEnded ==
  /\ startup \in {"Running", "ExitFailure", "Die"}
  /\ UNCHANGED mainVars

MainNext == ReadConfigFile \/ MakeSharedState \/ StartupEnded
==============================================================================
