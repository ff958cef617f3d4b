------------------------ MODULE StatusMC ------------------------
(***************************************************************************)
(* The parts of Dory that say what it did: the anomaly tracker, the        *)
(* discard logfile, the web server with the debug logfiles; with them the  *)
(* configuration file that sets their limits, and the limiter of retries.  *)
(* They share no state, so a behaviour is about one of them; of the        *)
(* tracker it is either about one kind of anomaly and the clock, or about  *)
(* all kinds at one time.                                                  *)
(***************************************************************************)
EXTENDS AnomalyTracker, DiscardFileLogger, WebInterface, DoryMain, BackoffRateLimiter

------------------------------------------------------------------------------
(***************************************************************************)
(* The configuration files that DoryMain is checked with, and what is      *)
(* checked of it and of the backoff.  A file is a small valid one, with    *)
(* one of its sections replaced by everything that may stand there.        *)
(***************************************************************************)

NumeralsHere ==
  [w \in {"0", "1", "7", "100", "101", "-1", "0x7", "0777", "01000", "0b1", "65535", "65536",
          "1048575", "1048576", "1073741823", "1073741824"} |->
     CASE w = "0" -> [base |-> "DEC", value |-> 0]
       [] w = "1" -> [base |-> "DEC", value |-> 1]
       [] w = "7" -> [base |-> "DEC", value |-> 7]
       [] w = "100" -> [base |-> "DEC", value |-> 100]
       [] w = "101" -> [base |-> "DEC", value |-> 101]
       [] w = "-1" -> [base |-> "DEC", value |-> -1]
       [] w = "0x7" -> [base |-> "HEX", value |-> 7]
       [] w = "0777" -> [base |-> "OCT", value |-> 511]
       [] w = "01000" -> [base |-> "OCT", value |-> 512]
       [] w = "0b1" -> [base |-> "BIN", value |-> 1]
       [] w = "65535" -> [base |-> "DEC", value |-> 65535]
       [] w = "65536" -> [base |-> "DEC", value |-> 65536]
       [] w = "1048575" -> [base |-> "DEC", value |-> 1048575]
       [] w = "1048576" -> [base |-> "DEC", value |-> 1048576]
       [] w = "1073741823" -> [base |-> "DEC", value |-> 1073741823]
       [] w = "1073741824" -> [base |-> "DEC", value |-> 1073741824]]

Leaf(tag, attrs) == Elem(tag, attrs, <<>>)
Value(tag, word) == Leaf(tag, [value |-> Text(word)])
On(word) == [enable |-> Text(word)]
Blank == Elem("#blank", <<>>, <<>>)
Words == Elem("#text", <<>>, <<>>)

Tcp(enable, port) == Elem("tcp", On(enable), <<Value("port", port)>>)
Sources == Elem("inputSources", <<>>, <<Tcp("true", "7")>>)
Brokers == Elem("initialBrokers", <<>>, <<Blank, Leaf("broker", [host |-> Text("h")])>>)

File(sections) ==
  [wellFormed |-> TRUE, encoding |-> "US-ASCII", root |-> Elem("doryConfig", <<>>, sections)]
With(section) == File(<<Sources, section, Brokers>>)

PlainFile == File(<<Sources, Brokers>>)

(* Files that are wrong as a whole.                                        *)
OddFiles ==
  {[PlainFile EXCEPT !.wellFormed = FALSE],
   [PlainFile EXCEPT !.encoding = ""],
   [PlainFile EXCEPT !.encoding = "UTF-8"],
   [PlainFile EXCEPT !.root.tag = "config"],
   PlainFile, File(<<Sources>>), File(<<Brokers>>),
   File(<<Sources, Words, Brokers>>), File(<<Sources, Brokers, Brokers>>),
   With(Elem("other", <<>>, <<>>)), File(<<Sources, Elem("initialBrokers", <<>>, <<>>)>>),
   File(<<Sources, Elem("initialBrokers", <<>>, <<Leaf("other", <<>>)>>)>>)}

(* <batching>                                                              *)
Limit(name, tag, word) == Elem("config", [name |-> Text(name)], <<Value(tag, word)>>)
BatchNames ==
  {<<>>, <<Limit("c", "time", "7")>>, <<Limit("c", "bytes", "0"), Limit("d", "messages", "1")>>,
   <<Limit("c", "time", "disable")>>, <<Limit("c", "time", "7"), Limit("c", "time", "1")>>}
Actions == {<<"perTopic", "c">>, <<"perTopic", "d">>, <<"combinedTopics", "">>, <<"disable", "">>}
Treat(tag, topic, a) ==
  Leaf(tag, [name |-> Text(topic), action |-> Text(a[1]), config |-> Text(a[2])])
BatchTopics ==
  {<<>>} \cup {<<Treat("topic", "a", x)>> : x \in Actions}
         \cup {<<Treat("topic", "a", x), Treat("topic", t, y)>> :
                 x \in Actions, y \in Actions, t \in {"a", "b"}}
Batching(names, combined, default, topics) ==
  Elem("batching", <<>>,
       <<Elem("namedConfigs", <<>>, names), Value("produceRequestDataLimit", "7"),
         Value("messageMaxBytes", "7"), combined, default, Elem("topicConfigs", <<>>, topics)>>)
CombinedChoices ==
  {Leaf("combinedTopics", On("false")),
   Leaf("combinedTopics", [enable |-> Text("true"), config |-> Text("c")]),
   Leaf("combinedTopics", [enable |-> Text("true"), config |-> Text("d")])}
BatchFiles ==
  {With(Batching(n, c, Treat("defaultTopic", "", x), t)) :
     n \in BatchNames, c \in CombinedChoices, x \in Actions, t \in BatchTopics}

(* <compression> and <topicRateLimiting>                                   *)
Rate(name, max, interval) ==
  Leaf("config", [name |-> Text(name), maxCount |-> Text(max), interval |-> Text(interval)])
RateNames ==
  {<<>>, <<Rate("c", "7", "1")>>, <<Rate("c", "7", "0")>>, <<Rate("c", "unlimited", "")>>,
   <<Rate("c", "0", "7"), Rate("d", "unlimited", "0")>>,
   <<Rate("c", "7", "1"), Rate("c", "1", "1")>>}
Packing(name, type, min, level) ==
  Leaf("config", [name |-> Text(name), type |-> Text(type), minSize |-> Text(min),
                  level |-> Text(level)])
PackingNames ==
  {<<>>, <<Packing("c", "gzip", "7", "")>>, <<Packing("c", "lz4", "7", "")>>,
   <<Packing("c", "none", "x", ""), Packing("d", "snappy", "1", "-1")>>,
   <<Packing("c", "gzip", "7", ""), Packing("c", "none", "7", "")>>,
   <<Packing("c", "gzip", "7", "0x7")>>, <<Packing("c", "zip", "7", "")>>}
Uses(topic, name) == Leaf("topic", [name |-> Text(topic), config |-> Text(name)])
NamedTopics ==
  {<<>>} \cup {<<Uses("a", x)>> : x \in {"c", "d"}}
         \cup {<<Uses("a", x), Uses(t, y)>> : x, y \in {"c", "d"}, t \in {"a", "b"}}
Named(section, names, default, topics) ==
  Elem(section, <<>>, <<Elem("namedConfigs", <<>>, names),
                        Leaf("defaultTopic", [config |-> Text(default)]),
                        Elem("topicConfigs", <<>>, topics)>>)
NamedFiles ==
  {With(Named("topicRateLimiting", n, x, t)) :
     n \in RateNames, x \in {"c", "d"}, t \in NamedTopics}
  \cup {With(Named("compression", n, x, t)) :
     n \in PackingNames, x \in {"c", "d"}, t \in NamedTopics}

(* Settings                                                                *)
Texts ==
  {Text(w) : w \in DOMAIN NumeralsHere \cup {"", "x", "true", "unlimited"}}
  \cup {[pad |-> TRUE, word |-> w, suffix |-> ""] : w \in {"", "7", "false"}}
  \cup {[pad |-> FALSE, word |-> w, suffix |-> s] :
          w \in {"", "1", "7", "1048575", "1048576"}, s \in {"k", "m"}}
Setting(section, tag, text) ==
  Elem(section, On("false"), <<Leaf(tag, [value |-> text, enable |-> text])>>)
SettingFiles ==
  {With(Setting(s[1], s[2], x)) : x \in Texts,
     s \in {<<"inputConfig", "maxBuffer">>, <<"inputConfig", "allowLargeUnixDatagrams">>,
            <<"msgDelivery", "topicAutocreate">>, <<"msgDelivery", "kafkaSocketTimeout">>,
            <<"httpInterface", "port">>, <<"httpInterface", "discardReportInterval">>,
            <<"kafkaConfig", "clientId">>, <<"kafkaConfig", "replicationTimeout">>,
            <<"logging", "level">>, <<"logging", "syslog">>}}

(* Files of Dory: the sockets, the logfiles and their limits.              *)
PathsOfFiles == {Text(""), Text("/p"), Text("p"), [pad |-> TRUE, word |-> "/p", suffix |-> ""]}
Modes == {<<>>, <<Value("mode", "0777")>>, <<Value("mode", "01000")>>, <<Value("mode", "0b1")>>,
          <<Value("mode", "7")>>, <<Value("mode", "unspecified")>>, <<Words>>}
FileSection(tag, enable, path, mode) ==
  Elem(tag, On(enable), <<Leaf("path", [value |-> path])>> \o mode)
SourceFiles ==
  {File(<<Elem("inputSources", <<>>, <<FileSection(tag, e, p, m), Tcp(tcp, port)>>), Brokers>>) :
     tag \in {"unixDatagram", "unixStream"}, e \in {"true", "false"}, p \in PathsOfFiles,
     m \in Modes, tcp \in {"true", "false"}, port \in {"", "0", "7", "65536"}}
  \cup {With(Elem("logging", <<>>, <<FileSection("file", e, p, m)>>)) :
     e \in {"true", "false"}, p \in PathsOfFiles, m \in Modes}
LogFiles ==
  {File(<<Sources, Brokers,
          Elem("discardLogging", On(e), <<Leaf("path", [value |-> p]), Leaf("maxFileSize",
                 [value |-> [pad |-> FALSE, word |-> size, suffix |-> "m"]]),
               Value("maxMsgPrefixSize", prefix)>>),
          Elem("inputConfig", <<>>, <<Leaf(dg, [value |-> max])>>),
          Elem("msgDebug", On("true"), <<Leaf("path", [value |-> p])>>)>>) :
     e \in {"true", "false"}, p \in PathsOfFiles, size \in {"1", "7"},
     prefix \in {"0", "unlimited", "x"}, dg \in {"maxDatagramMsgSize", "maxStreamMsgSize"},
     max \in {Text("7"), [pad |-> FALSE, word |-> "7", suffix |-> "m"], Text("1073741823")}}
DatagramFiles ==
  {File(<<Elem("inputSources", <<>>, <<FileSection("unixDatagram", "true", Text("/p"), <<>>)>>),
          Elem("inputConfig", <<>>, <<Leaf("maxDatagramMsgSize", [value |-> size]),
               Value("allowLargeUnixDatagrams", allow)>>), Brokers>>) :
     allow \in {"true", "false"},
     size \in {Text("7"), Text("1048576"), [pad |-> FALSE, word |-> "7", suffix |-> "m"],
               Text("1073741823")}}

FilesOfDory ==
  OddFiles \cup BatchFiles \cup NamedFiles \cup SettingFiles \cup SourceFiles \cup LogFiles
  \cup DatagramFiles

-----------------------------------------------------------------------------
(* Reading a file as its author does.                                      *)

KidsOf(elem, tag) == SelectSeq(elem.kids, LAMBDA k : k.tag = tag)
Has(elem, tag) == KidsOf(elem, tag) # <<>>
Kid(elem, tag) == KidsOf(elem, tag)[1]
WordOf(elem, attr) == elem.attrs[attr].word

NamesIn(section) == KidsOf(Kid(section, "namedConfigs"), "config")
TopicsIn(section) == KidsOf(Kid(section, "topicConfigs"), "topic")
NameOf(elem) == WordOf(elem, "name")
SaysOf(section, topic) ==
  LET listed == SelectSeq(TopicsIn(section), LAMBDA k : NameOf(k) = topic)
  IN IF listed # <<>> THEN listed[1] ELSE Kid(section, "defaultTopic")
ConfigNamed(section, name) == SelectSeq(NamesIn(section), LAMBDA k : NameOf(k) = name)[1]

SomeTopics == {"a", "b", "z"}
Started == startup \in {"Configured", "Running"}
Section(tag) == Kid(configFile.root, tag)

(* The limits that a named batching configuration sets.                    *)
LimitsNamed(section, name) ==
  LET one == ConfigNamed(section, name)
      Of_(tag) == IF Has(one, tag) /\ WordOf(Kid(one, tag), "value") # "disable"
                    THEN NumeralsHere[WordOf(Kid(one, tag), "value")].value ELSE 0
  IN [TimeLimit |-> Of_("time"), MsgCount |-> Of_("messages"), ByteCount |-> Of_("bytes")]

(* A topic is batched by the batcher, and within the limits, that the file *)
(* names for it, listed or not: TBatchConfigBuilder encodes the choice in  *)
(* a map and in a set of topics that are, by turns, the ones included in   *)
(* and the ones excluded from combined batching.  A per topic choice that  *)
(* sets no limit means combined batching.                                  *)
BatchingMeansWhatItSays ==
  startup = "Running" =>
    \A t \in SomeTopics :
      LET perTopic == PerTopicGet(batchConfig.PerTopicConfig, Text(t))
          combined == CombinedBatchingIsEnabled(batchConfig.CombinedTopicsConfig, Text(t))
      IN IF ~Has(configFile.root, "batching") THEN perTopic = NoBatching /\ ~combined
         ELSE LET section == Section("batching")
                  says == SaysOf(section, t)
                  all == Kid(section, "combinedTopics")
                  limits == IF WordOf(says, "action") = "perTopic"
                              THEN LimitsNamed(section, WordOf(says, "config")) ELSE NoBatching
              IN /\ perTopic = limits
                 /\ combined <=> /\ limits = NoBatching /\ WordOf(says, "action") # "disable"
                                 /\ WordOf(all, "enable") = "true"
                                 /\ LimitsNamed(section, WordOf(all, "config")) # NoBatching

TopicGets(conf, topic) ==
  IF Text(topic) \in DOMAIN conf.TopicConfigs THEN conf.TopicConfigs[Text(topic)]
  ELSE conf.DefaultTopicConfig

(* A topic gets the rate limit and the compression that the file names for *)
(* it; without these sections topics have no limit and no compression.     *)
LimitsMeanWhatTheySay ==
  Started =>
    \A t \in SomeTopics :
      LET rate == TopicGets(serverConf.TopicRateConf, t)
          packing == TopicGets(serverConf.CompressionConf, t)
          Said(tag) == ConfigNamed(Section(tag), WordOf(SaysOf(Section(tag), t), "config"))
          said == Said("topicRateLimiting")
          type == Said("compression")
      IN /\ IF ~Has(configFile.root, "topicRateLimiting")
                \/ WordOf(said, "maxCount") = "unlimited" THEN rate = NullOpt
            ELSE rate = <<[Interval |-> NumeralsHere[WordOf(said, "interval")].value,
                           MaxCount |-> NumeralsHere[WordOf(said, "maxCount")].value]>>
         /\ IF ~Has(configFile.root, "compression") THEN packing.Type = "none"
            ELSE /\ packing.Type = WordOf(type, "type")
                 /\ packing.MinSize = IF packing.Type = "none" THEN 0
                                      ELSE NumeralsHere[WordOf(type, "minSize")].value

(* The names of a section: each defined once, each topic listed once.      *)
WellNamed(section) ==
  LET Unique(items) == \A i, j \in DOMAIN items : NameOf(items[i]) = NameOf(items[j]) => i = j
      known == {NameOf(NamesIn(section)[i]) : i \in DOMAIN NamesIn(section)}
      users == TopicsIn(section) \o <<Kid(section, "defaultTopic")>>
               \o SelectSeq(KidsOf(section, "combinedTopics"),
                            LAMBDA k : WordOf(k, "enable") = "true")
      Needs(k) == "action" \in DOMAIN k.attrs => WordOf(k, "action") = "perTopic"
  IN /\ Unique(NamesIn(section)) /\ Unique(TopicsIn(section))
     /\ \A i \in DOMAIN users : Needs(users[i]) => WordOf(users[i], "config") \in known

(* A section of named configurations is accepted only when its names are   *)
(* unique and known, and one whose names are, is refused only for what a   *)
(* configuration says: no limit at all, an interval of zero, a type or a   *)
(* level that cannot be.                                                   *)
NamesAreResolved ==
  \A tag \in {"batching", "compression", "topicRateLimiting"} :
    (startup # "Start" /\ Has(configFile.root, tag)) =>
      LET section == Section(tag)
          Bad(k) == CASE tag = "batching" -> WordOf(k.kids[1], "value") = "disable"
                      [] tag = "topicRateLimiting" -> WordOf(k, "maxCount") # "unlimited"
                                                      /\ WordOf(k, "interval") = "0"
                      [] tag = "compression" -> WordOf(k, "type") \in {"lz4", "zip"}
                                                \/ WordOf(k, "level") = "0x7"
      IN Started <=> /\ WellNamed(section)
                     /\ \A i \in DOMAIN NamesIn(section) : ~Bad(NamesIn(section)[i])

(* What the threads rely on: intervals that are not zero (TMsgRateLimiter, *)
(* TAnomalyTracker), a discard logfile that holds the longest message that *)
(* any agent accepts unless twice its size overflows (TDiscardFileLogger), *)
(* a broker, a way in, ports that can be bound, a timeout that fits in a   *)
(* produce request, paths that do not depend on the working directory.     *)
AcceptedConfIsUsable ==
  Started =>
    LET c == serverConf
        dg == c.InputConfigConf.MaxDatagramMsgSize
        stream == c.InputConfigConf.MaxStreamMsgSize
        paths == {c.DiscardLoggingConf.Path, c.MsgDebugConf.Path, c.LoggingConf.File.path,
                  c.InputSourcesConf.UnixDg.path, c.InputSourcesConf.UnixStream.path}
        modes == {c.LoggingConf.File.mode, c.InputSourcesConf.UnixDg.mode,
                  c.InputSourcesConf.UnixStream.mode}
    IN /\ c.HttpInterfaceConf.DiscardReportInterval > 0
       /\ \A t \in SomeTopics : LET r == TopicGets(c.TopicRateConf, t)
                                IN r # NullOpt => r[1].Interval > 0
       /\ c.DiscardLoggingConf.Path # NoText =>
            \/ 2 * Larger(dg, stream) > SizeMax
            \/ c.DiscardLoggingConf.MaxFileSize >= 2 * Larger(dg, stream)
       /\ c.InitialBrokers # <<>>
       /\ \/ c.InputSourcesConf.UnixDg.path # NoText \/ c.InputSourcesConf.LocalTcpPort # NullOpt
          \/ c.InputSourcesConf.UnixStream.path # NoText
       /\ c.InputSourcesConf.LocalTcpPort # NullOpt =>
            c.InputSourcesConf.LocalTcpPort[1] \in 1 .. PortMax
       /\ c.HttpInterfaceConf.Port \in 1 .. PortMax
       /\ c.KafkaConfigConf.ReplicationTimeout <= Int32Max
       /\ \A p \in paths : p = NoText \/ IsAbsolute(p)
       /\ \A m \in modes : m = NullOpt \/ m[1] <= 511
       /\ c.InputSourcesConf.UnixDg.path # NoText =>
            dg <= (IF c.InputConfigConf.AllowLargeUnixDatagrams THEN UnixDgLimit
                                                                ELSE UnixDgDefault)

(* A file that is refused is reported as an error in the file.  The only   *)
(* exceptions that get past DoryMain() are those of the topics of          *)
(* <compression>, whose handlers name the exceptions of another class.     *)
BadFileIsReported ==
  startup = "Die" => /\ Has(configFile.root, "compression")
                     /\ ~WellNamed(Section("compression"))


-----------------------------------------------------------------------------
(* Backoff                                                                 *)

(* Within a window the k-th action comes at least half of the doubled      *)
(* delay, and never less than MinDelay, after the one before; less one     *)
(* millisecond, by which ComputeTimeToNow() may be too large.              *)
RetriesBackOff ==
  [][(acted' # acted /\ acted'.count >= 2) =>
       LET doubled == acted'.count - 2
           base == InitialDelay * 2 ^ (IF doubled < MaxDouble THEN doubled ELSE MaxDouble)
           gap == acted'.last - acted.last
       IN gap >= MinDelay * TicksPerMs /\ gap > ((base \div 2) - 1) * TicksPerMs]_backoffVars

------------------------------------------------------------------------------
CONSTANTS MaxTimed    \* bound: anomalies when the clock runs

VARIABLE focus

An(call, topic, ts, body, arg) ==
  [call |-> call, topic |-> topic, ts |-> ts, body |-> body, arg |-> arg]

SomeAnomalies ==
  {An("Discard", "a", 1, <<>>, "RateLimit"), An("Discard", "a", 2, <<>>, "ServerShutdown"),
   An("Long", "b", 1, <<"x", "y">>, "")}

OneOfEach ==
  {An("Duplicate", "a", 1, <<>>, ""), An("NoMem", "a", 1, <<>>, ""),
   An("Malformed", "", 0, <<"x", "y">>, ""), An("Malformed", "", 0, <<"x", "z">>, ""),
   An("Unclean", "", 0, <<"x">>, "Tcp"), An("Unclean", "", 0, <<"y">>, "Unix"),
   An("ApiKey", "", 0, <<>>, ""), An("Version", "", 0, <<>>, "7"),
   An("BadTopic", "c", 0, <<>>, ""), An("BadTopic", "d", 0, <<>>, "")}

TrackedHere == SomeAnomalies \cup OneOfEach
OneAnomaly == An("Discard", "a", 1, <<>>, "RateLimit")

allVars == <<trackerVars, loggerVars, debugVars, webVars, mainVars, backoffVars, focus>>

StatusInit ==
  /\ focus \in {"times", "kinds", "logfile", "debug", "web", "conf", "backoff"}
  /\ TrackerInit /\ LoggerInit /\ WebInit /\ MainInit /\ BackoffInit
  /\ focus # "logfile" => files = <<>>
  /\ focus # "conf" => configFile = PlainFile

StatusNext ==
  /\ UNCHANGED focus
  /\ \/ focus = "times" /\ TrackerNext /\ UNCHANGED <<loggerVars, debugVars, webVars, mainVars, backoffVars>>
        /\ \A t \in Threads : tracking'[t] # Idle => tracking'[t].a = OneAnomaly
        /\ Len(recorded') <= MaxTimed
     \/ focus = "kinds" /\ TrackerNext /\ UNCHANGED <<loggerVars, debugVars, webVars, mainVars, backoffVars>>
        /\ clock' = clock /\ (query' = query \/ Len(recorded) = MaxAnomalies) /\ Cardinality(InProgress') <= 1
     \/ focus = "logfile" /\ LoggerNext /\ UNCHANGED <<trackerVars, debugVars, webVars, mainVars, backoffVars>>
     \/ focus = "debug" /\ WebNext /\ UNCHANGED <<trackerVars, loggerVars, mainVars, backoffVars>>
        /\ UNCHANGED <<MetadataUpdateRequestSem, unsampled, sampled, increments>>
        /\ HttpServerStarted'
     \/ focus = "web" /\ WebNext /\ UNCHANGED <<trackerVars, loggerVars, debugLogger, debugMsg>>
        /\ UNCHANGED <<mainVars, backoffVars>>
        /\ Len(Settings') <= 2
     \/ focus = "conf" /\ MainNext
        /\ UNCHANGED <<trackerVars, loggerVars, debugVars, webVars, backoffVars>>
     \/ focus = "backoff" /\ BackoffNext
        /\ UNCHANGED <<trackerVars, loggerVars, debugVars, webVars, mainVars>>

StatusSpec == StatusInit /\ [][StatusNext]_allVars

-----------------------------------------------------------------------------
(* The instance.                                                           *)

Call(call, reason, key, value) ==
  [call |-> call, reason |-> reason, topic |-> "a", key |-> key, value |-> value]

LoggedHere ==
  {Call("Discard", "KafkaErrorAck", <<>>, <<>>), Call("Malformed", "", <<>>, <<"x", "y", "z">>)}

SlashLog == <<"/", "log">>
PathsHere == {SlashLog, <<"/", "v", "/", "/", "log">>, <<"/", "/", "log">>, <<"/", "v", "/">>,
              <<"log">>, <<>>}

Note(n) == [i \in 1 .. n |-> [key |-> <<>>, value |-> <<>>]]
ForeignFiles == {<<"log", ".">>, <<"log", ".", "1", "x">>, <<"log", "1">>, <<"other", ".", "1">>}
FilesHere ==
  {<<>>, [n \in {<<"log">>} |-> Note(3)],
   [n \in ForeignFiles \cup {<<"log", ".", "0", "2">>, <<"log", ".", "1">>, <<"log">>} |->
      IF n = <<"log">> THEN Note(1) ELSE Note(2)]}

Req(method, uri, topic, format) ==
  [method |-> method, uri |-> uri, topic |-> topic, format |-> format]
RequestsHere ==
  {Req("GET", "/counters", "", "plain"), Req("GET", "/counters", "", "json"),
   Req("GET", "/queues", "", "json"),
   Req("GET", "/", "", ""), Req("POST", "/queues", "", ""), Req("PUT", "/", "", ""),
   Req("POST", "/metadata_update", "", ""), Req("GET", "/msg_debug/get_topics", "", ""),
   Req("GET", "/msg_debug/add_all_topics", "", ""), Req("GET", "/msg_debug/del_all_topics", "", ""),
   Req("GET", "/msg_debug/truncate_files", "", ""),
   Req("GET", "/msg_debug/add_topic/", "a", ""), Req("GET", "/msg_debug/del_topic/", "a", "")}

AnyThread == Permutations(Threads)
LogOfLogger == [l \in DebugLoggers |-> CHOOSE id \in LogIds : TRUE]

-----------------------------------------------------------------------------
(* What a report should say, from the anomalies recorded in it.            *)
In(id) == SelectSeq(recorded, LAMBDA e : e.id = id)
Of(id, calls_) == {i \in DOMAIN In(id) : In(id)[i].a.call \in calls_}
TopicMapOf(id, calls_) ==
  LET at(t) == {i \in Of(id, calls_) : In(id)[i].a.topic = t}
      ts(t) == {In(id)[i].a.ts : i \in at(t)}
  IN [t \in {In(id)[i].a.topic : i \in Of(id, calls_)} |->
        [First |-> Min(ts(t)), Last |-> Max(ts(t)), Count |-> Cardinality(at(t))]]

(* The last distinct items, the most recent one first.                     *)
RecentOf(id, is, Item(_)) ==
  LET latest == {i \in is : ~\E j \in is : j > i /\ Item(In(id)[j].a) = Item(In(id)[i].a)}
      newest == SetToSortSeq(latest, LAMBDA i, j : i > j)
      n == IF Len(newest) < MaxListItems THEN Len(newest) ELSE MaxListItems
  IN [k \in 1 .. n |-> Item(In(id)[newest[k]].a)]

Kept(body) == SubSeq(body, 1, Min({Len(body), MaxMsgPrefixLen}))

ReportIsRight(r) ==
  LET id == r.ReportId
      N(calls_) == Cardinality(Of(id, calls_))
      Unclean(kind) == {i \in Of(id, {"Unclean"}) : In(id)[i].a.arg = kind}
      limited == {i \in Of(id, {"Discard"}) : In(id)[i].a.arg = "RateLimit"}
  IN /\ r.StartTime = id * ReportInterval
     /\ r.DiscardTopicMap = TopicMapOf(id, {"Discard", "NoMem", "Long"})
     /\ r.DuplicateTopicMap = TopicMapOf(id, {"Duplicate"})
     /\ r.RateLimitDiscardMap = [t \in {In(id)[i].a.topic : i \in limited} |->
                                   Cardinality({i \in limited : In(id)[i].a.topic = t})]
     /\ r.MalformedMsgCount = N({"Malformed"})
     /\ r.UnsupportedApiKeyMsgCount = N({"ApiKey"})
     /\ r.UnsupportedVersionMsgCount = N({"Version"})
     /\ r.BadTopicMsgCount = N({"BadTopic"})
     /\ r.TcpUncleanDisconnectCount = Cardinality(Unclean("Tcp"))
     /\ r.UnixStreamUncleanDisconnectCount = Cardinality(Unclean("Unix"))
     /\ r.MalformedMsgs = RecentOf(id, Of(id, {"Malformed"}), LAMBDA a : Kept(a.body))
     /\ r.TcpUncleanDisconnectMsgs = RecentOf(id, Unclean("Tcp"), LAMBDA a : Kept(a.body))
     /\ r.UnixStreamUncleanDisconnectMsgs = RecentOf(id, Unclean("Unix"), LAMBDA a : Kept(a.body))
     /\ r.BadTopics = RecentOf(id, Of(id, {"BadTopic"}), LAMBDA a : <<a.topic>>)
     /\ r.LongMsgs = RecentOf(id, Of(id, {"Long"}), LAMBDA a : Kept(<<a.topic>> \o a.body))

(* An anomaly that no query ever returned and that is in neither report    *)
(* any more is one nobody asked for in time: more than one ReportInterval  *)
(* passed between two queries (what CheckGetInfoRate warns of), or the     *)
(* thread was so late that it took Mutex after the period of its clock     *)
(* reading had ended.  Queries may be as late as they like.                *)
LossMeansSlowQueries ==
  (\E i \in DOMAIN recorded :
     /\ i \notin told /\ ~recorded[i].late
     /\ recorded[i].id \notin {FillingReport.ReportId, LastFullReport.ReportId})
  => slowQuery \/ clock - lastQuery > ReportInterval

(* The report being filled and the last full one list the anomalies that   *)
(* were recorded in their period, with the right counts, first and last    *)
(* timestamps and most recent items, whatever the order in which threads   *)
(* that read the clock take TAnomalyTracker's Mutex.  They are of          *)
(* successive periods, an anomaly is never filed under a period that ended *)
(* before it happened, and only slow queries miss one.                     *)
ReportsListAnomalies ==
  /\ \A r \in {FillingReport, LastFullReport} : r # NoReport => ReportIsRight(r)
  /\ LossMeansSlowQueries
  /\ LastFullReport # NoReport => LastFullReport.ReportId = FillingReport.ReportId - 1
  /\ \A i \in DOMAIN recorded : recorded[i].now < (recorded[i].id + 1) * ReportInterval

(* The two forms of the discard report say the same; they do not, see      *)
(* WriteDiscardReportJson.                                                 *)
JsonSaysTheSame ==
  LET info == [filling |-> FillingReport, full |-> LastFullReport]
  IN HandleGetDiscardsRequestJson(info, NoReport) = HandleGetDiscardsRequestPlain(info, NoReport)

(* The logfile stays within max_file_size, unless a single entry exceeds   *)
(* it: CheckMaxFileSize looks before every write, also at the file that    *)
(* Init finds.                                                             *)
LogfileIsBounded ==
  (dory = "Running" /\ Enabled /\ LogFd /\ LogName \in DOMAIN files) =>
    FileSize(files[LogName]) <= MaxFileSize \/ Len(files[LogName]) = 1

(* When the cleaner has nothing to do and is still alive, the old logfiles *)
(* are within max_archive_size, although files are renamed while it looks  *)
(* at the directory and deletes.                                           *)
ArchiveIsBounded ==
  (dory = "Running" /\ cleaner = "Poll" /\ CleanRequestSem = 0) =>
    TotalSize(GetOldLogFileSizes(files, LogName)) <= MaxArchiveSize

(* The cleaner deletes from oldest to newest: an older logfile than one    *)
(* that was deleted is there only if its unlink() failed.  Nothing else is *)
(* ever deleted.                                                           *)
OldestGoFirst ==
  /\ \A d \in dropped : \A o \in GetOldLogFileSizes(files, LogName) :
       o.ms < d.ms => o.path \in kept
  /\ (DOMAIN files \cap ForeignFiles # {}) => ForeignFiles \subseteq DOMAIN files

(* The discard log takes no more space than configured, and what has to go *)
(* to keep it so is what is oldest.                                        *)
LogSpaceIsBounded == LogfileIsBounded /\ ArchiveIsBounded /\ OldestGoFirst

(* A failure to rename or to open the logfile disables logging and no      *)
(* more; it does not hold, see WriteToLog.                                 *)
RotationFailureIsSurvived == dory # "Died"

SessionOf(v) ==
  Cardinality({w \in 1 .. v : Settings[w].LoggingEnabled /\ (w = 1 \/ ~Settings[w - 1].LoggingEnabled)})


(* Only messages of the chosen topics are logged; it does not hold.        *)
OnlyDebugTopicsLogged ==
  \A f \in DOMAIN debugData : \A i \in DOMAIN debugData[f] :
    LET topics == Settings[debugData[f][i].version].DebugTopics
    IN topics = AllTopics \/ debugData[f][i].topic \in topics
==============================================================================
