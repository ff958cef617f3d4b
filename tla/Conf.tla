-------------------------------- MODULE Conf ---------------------------------
(***************************************************************************)
(* From the configuration file to the settings that the threads use:       *)
(* TConf::TBuilder (dory/conf) turns the document into a TConf or throws,  *)
(* DoryMain reacts, and TBatchConfigBuilder (dory/batch) turns the part on *)
(* batching into the configurations of the two batchers.                   *)
(*                                                                         *)
(* A builder is a record that the functions take and return.               *)
(***************************************************************************)
EXTENDS Integers, Sequences, FiniteSets, SequencesExt

------------------------------------------------------------------------------
(***************************************************************************)
(* Reading a configuration file (xml/config, base/to_integer).  A node of  *)
(* the document is [tag, attrs, kids]; nodes that are no elements have the *)
(* tags "#blank" (text of whitespace only), "#text" (other text) and       *)
(* "#comment" (nodes that are skipped).  The text of an attribute is a     *)
(* word, with or without whitespace around it, and a letter after the word *)
(* that may be a multiplier.                                               *)
(*                                                                         *)
(* What a function returns or throws is [err, val]; err is the name of the *)
(* exception or "".                                                        *)
(***************************************************************************)

CONSTANTS
  Numerals,    \* words that are numbers -> [base, value], as a stream reads them
  SizeMax      \* the largest size_t, which is also the largest uintmax_t

ASSUME SizeMaxAssumption == SizeMax \in Nat /\ SizeMax % 2 = 1

Elem(tag, attrs, kids) == [tag |-> tag, attrs |-> attrs, kids |-> kids]
Text(word) == [pad |-> FALSE, word |-> word, suffix |-> ""]

Ok(v) == [err |-> "", val |-> v]
Throw(e) == [err |-> e, val |-> <<>>]

(* The statements after one that may throw.                                *)
Then(r, F(_)) == IF r.err = "" THEN F(r.val) ELSE r

(* catch (const E &) { throw X; } for E in 'these'                         *)
Catch(r, these, x) == IF r.err \in these THEN Throw(x) ELSE r

(* for (x : items) b = F(b, x)                                             *)
ForEach(b, items, F(_, _)) ==
  FoldLeft(LAMBDA r, x : Then(r, LAMBDA c : F(c, x)), Ok(b), items)

MapPut(map, key, v) == [k \in DOMAIN map \cup {key} |-> IF k = key THEN v ELSE map[k]]

IsElement(node) == node.tag \notin {"#blank", "#text", "#comment"}

------------------------------------------------------------------------------
(* Elements                                                                *)

ParseXmlConfig(doc, encoding) ==
  IF ~doc.wellFormed THEN Throw("TSaxParseError")
  ELSE IF doc.encoding = "" THEN Throw("TMissingEncoding")
  ELSE IF doc.encoding # encoding THEN Throw("TWrongEncoding")
  ELSE Ok(doc.root)

(* The children of 'parent' by name.                                       *)
GetSubsectionElements(parent, required, optional) ==
  LET Step(r, node) ==
        IF r.err # "" \/ node.tag \in {"#blank", "#comment"} THEN r
        ELSE IF node.tag = "#text" THEN Throw("TUnexpectedText")
        ELSE IF node.tag \notin required \cup optional THEN Throw("TUnknownElement")
        ELSE IF node.tag \in DOMAIN r.val THEN Throw("TDuplicateElement")
        ELSE Ok(MapPut(r.val, node.tag, node))
      found == FoldLeft(Step, Ok(<<>>), parent.kids)
  IN Then(found, LAMBDA map : IF required \subseteq DOMAIN map
                                THEN found ELSE Throw("TMissingChildElement"))

GetItemListElements(parent, item) ==
  LET Step(r, node) ==
        IF r.err # "" \/ node.tag \in {"#blank", "#comment"} THEN r
        ELSE IF node.tag = "#text" THEN Throw("TUnexpectedText")
        ELSE IF node.tag # item THEN Throw("TUnexpectedElementName")
        ELSE Ok(Append(r.val, node))
  IN FoldLeft(Step, Ok(<<>>), parent.kids)

RequireLeaf(elem) == IF elem.kids # <<>> THEN Throw("TExpectedLeaf") ELSE Ok(elem)

RequireAllChildElementLeaves(elem) ==
  IF \E i \in DOMAIN elem.kids : IsElement(elem.kids[i]) /\ elem.kids[i].kids # <<>>
    THEN Throw("TExpectedLeaf") ELSE Ok(elem)

------------------------------------------------------------------------------
(* Attributes (TAttrReader)                                                *)

Trim(text) == [text EXCEPT !.pad = FALSE]
IsEmptyText(text) == ~text.pad /\ text.word = "" /\ text.suffix = ""

GetRawString(elem, attr) ==
  IF attr \in DOMAIN elem.attrs THEN Ok(elem.attrs[attr]) ELSE Throw("TMissingAttrValue")

(* GetString with TRIM_WHITESPACE and THROW_IF_EMPTY.                      *)
GetString(elem, attr) ==
  Then(GetRawString(elem, attr),
       LAMBDA text : IF IsEmptyText(Trim(text)) THEN Throw("TMissingAttrValue")
                     ELSE Ok(Trim(text)))

(* GetOptString with TRIM_WHITESPACE: a sequence of at most one text.      *)
GetOptString(elem, attr) ==
  IF attr \in DOMAIN elem.attrs THEN <<Trim(elem.attrs[attr])>> ELSE <<>>

(* strcasecmp is the default: the words are given in lower case.           *)
StringToBool(text) ==
  IF text = Text("true") THEN Ok(TRUE)
  ELSE IF text = Text("false") THEN Ok(FALSE)
  ELSE Throw("TInvalidBoolAttr")

GetBool(elem, attr) == Then(GetString(elem, attr), StringToBool)

(* "0" is a number of every base.  A negative number and one that has more *)
(* bits than uintmax_t are no numbers.                                     *)
ToUnsigned(word, bases) ==
  IF word \notin DOMAIN Numerals THEN Throw("TInvalidInteger")
  ELSE IF Numerals[word].value \notin 0 .. SizeMax THEN Throw("TInvalidInteger")
  ELSE IF word # "0" /\ Numerals[word].base \notin bases THEN Throw("TWrongBase")
  ELSE Ok(Numerals[word].value)

ToSigned(word, min, max) ==
  IF word \notin DOMAIN Numerals THEN Throw("TInvalidInteger")
  ELSE IF Numerals[word].base # "DEC" \/ Numerals[word].value \notin min .. max
    THEN Throw("TInvalidInteger")
  ELSE Ok(Numerals[word].value)

(* 'letters' are the multipliers that the options allow.  A letter that is *)
(* none stays part of the word, which is no number then.                   *)
ExtractMultiplier(text, letters) ==
  IF text.word # "" /\ text.suffix = "k" /\ "k" \in letters
    THEN [word |-> text.word, mult |-> 1024]
  ELSE IF text.word # "" /\ text.suffix = "m" /\ "m" \in letters
    THEN [word |-> text.word, mult |-> 1024 * 1024]
  ELSE [word |-> IF text.suffix = "" THEN text.word ELSE "#", mult |-> 1]

AttrToUintMax(text, bases, letters) ==
  LET m == ExtractMultiplier(text, letters)
      n == Catch(Catch(ToUnsigned(m.word, bases), {"TInvalidInteger"},
                       "TInvalidUnsignedIntegerAttr"),
                 {"TWrongBase"}, "TWrongUnsignedIntegerBase")
  IN Then(n, LAMBDA v : IF v > SizeMax \div m.mult THEN Throw("TAttrOutOfRange")
                        ELSE Ok(v * m.mult))

(* narrow<T>: 'max' is the largest value of T.                             *)
Narrow(v, max) == IF v > max THEN Throw("TAttrOutOfRange") ELSE Ok(v)

GetUnsigned(elem, attr, max, letters) ==
  Then(GetString(elem, attr),
       LAMBDA text : Then(AttrToUintMax(text, {"DEC"}, letters),
                          LAMBDA v : Narrow(v, max)))

(* REQUIRE_PRESENCE and STRICT_EMPTY_VALUE: a number, or the word that     *)
(* stands for no value.  The value is a sequence of at most one number.    *)
GetNamedOptUnsigned(elem, attr, emptyName, max, bases, letters) ==
  Then(GetString(elem, attr),
       LAMBDA text :
         IF text = Text(emptyName) THEN Ok(<<>>)
         ELSE Then(AttrToUintMax(text, bases, letters),
                   LAMBDA v : Then(Narrow(v, max), LAMBDA n : Ok(<<n>>))))

(* Without these options and without a name: absent and empty are alike.   *)
GetOptUnsigned(elem, attr, max) ==
  LET text == GetOptString(elem, attr)
  IN IF text = <<>> THEN Ok(<<>>)
     ELSE IF IsEmptyText(text[1]) THEN Ok(<<>>)
     ELSE Then(AttrToUintMax(text[1], {"DEC"}, {}),
               LAMBDA v : Then(Narrow(v, max), LAMBDA n : Ok(<<n>>)))

GetOptSigned(elem, attr, min, max) ==
  LET text == GetOptString(elem, attr)
  IN IF text = <<>> THEN Ok(<<>>)
     ELSE IF IsEmptyText(text[1]) THEN Ok(<<>>)
     ELSE Then(Catch(ToSigned(ExtractMultiplier(text[1], {}).word, -SizeMax, SizeMax),
                     {"TInvalidInteger"}, "TInvalidSignedIntegerAttr"),
               LAMBDA v : IF v \in min .. max THEN Ok(<<v>>) ELSE Throw("TAttrOutOfRange"))

------------------------------------------------------------------------------
(* The sections of the file, and what the program makes of them.           *)

CONSTANTS
  AbsolutePaths,    \* words that begin with a slash
  PortMax,          \* the largest in_port_t
  Int32Max,         \* std::numeric_limits<int32_t>::max()
  IntMax,           \* the largest int
  UnixDgDefault,    \* largest datagram that fits the default SO_SNDBUF
  UnixDgLimit       \* largest datagram that fits any SO_SNDBUF

NullOpt == <<>>     \* std::nullopt; a value is <<v>>

IsAbsolute(path) == ~path.pad /\ path.word \in AbsolutePaths

NoText == Text("")

------------------------------------------------------------------------------
(* TBatchConf::TBuilder                                                    *)

NoValues == [OptTimeLimit |-> NullOpt, OptMsgCount |-> NullOpt, OptByteCount |-> NullOpt]

NoBatchConf ==
  [ProduceRequestDataLimit |-> 0, MessageMaxBytes |-> 0,
   CombinedTopicsBatchingEnabled |-> FALSE, CombinedTopicsConfig |-> NoValues,
   DefaultTopicAction |-> "disable", DefaultTopicConfig |-> NoValues,
   TopicConfigs |-> <<>>]

NewBatchBuilder == [NamedConfigs |-> <<>>, BuildResult |-> NoBatchConf, Got |-> {}]

BatchAddNamedConfig(b, name, values) ==
  IF name \in DOMAIN b.NamedConfigs THEN Throw("TBatchDuplicateNamedConfig")
  ELSE Ok([b EXCEPT !.NamedConfigs = MapPut(@, name, values)])

SetProduceRequestDataLimit(b, limit) ==
  IF "limit" \in b.Got THEN Throw("TBatchDuplicateProduceRequestDataLimit")
  ELSE Ok([b EXCEPT !.BuildResult.ProduceRequestDataLimit = limit, !.Got = @ \cup {"limit"}])

SetMessageMaxBytes(b, max) ==
  IF "max" \in b.Got THEN Throw("TBatchDuplicateMessageMaxBytes")
  ELSE Ok([b EXCEPT !.BuildResult.MessageMaxBytes = max, !.Got = @ \cup {"max"}])

SetCombinedTopicsConfig(b, enabled, name) ==
  IF "combined" \in b.Got THEN Throw("TBatchDuplicateCombinedTopicsConfig")
  ELSE IF enabled /\ name \notin DOMAIN b.NamedConfigs
    THEN Throw("TBatchUnknownCombinedTopicsConfig")
  ELSE Ok([b EXCEPT !.BuildResult.CombinedTopicsBatchingEnabled = enabled,
                    !.BuildResult.CombinedTopicsConfig =
                      IF enabled THEN b.NamedConfigs[name] ELSE @,
                    !.Got = @ \cup {"combined"}])

BatchSetDefaultTopicConfig(b, action, name) ==
  IF "default" \in b.Got THEN Throw("TBatchDuplicateDefaultTopicConfig")
  ELSE IF action = "perTopic" /\ name \notin DOMAIN b.NamedConfigs
    THEN Throw("TBatchUnknownDefaultTopicConfig")
  ELSE Ok([b EXCEPT !.BuildResult.DefaultTopicAction = action,
                    !.BuildResult.DefaultTopicConfig =
                      IF action = "perTopic" THEN b.NamedConfigs[name] ELSE @,
                    !.Got = @ \cup {"default"}])

BatchSetTopicConfig(b, topic, action, name) ==
  IF topic \in DOMAIN b.BuildResult.TopicConfigs THEN Throw("TBatchDuplicateTopicConfig")
  ELSE IF action = "perTopic" /\ name \notin DOMAIN b.NamedConfigs
    THEN Throw("TBatchUnknownTopicConfig")
  ELSE Ok([b EXCEPT !.BuildResult.TopicConfigs =
             MapPut(@, topic, [Action |-> action,
                            BatchValues |-> IF action = "perTopic" THEN b.NamedConfigs[name]
                                                                   ELSE NoValues])])

BatchBuild(b) ==
  IF "limit" \notin b.Got THEN Throw("TBatchMissingProduceRequestDataLimit")
  ELSE IF "max" \notin b.Got THEN Throw("TBatchMissingMessageMaxBytes")
  ELSE IF "combined" \notin b.Got THEN Throw("TBatchMissingCombinedTopics")
  ELSE IF "default" \notin b.Got THEN Throw("TBatchMissingDefaultTopic")
  ELSE Ok(b.BuildResult)

------------------------------------------------------------------------------
(* The section <batching>                                                  *)

ProcessSingleBatchingNamedConfig(b, elem) ==
  LET Limit(map, tag, letters) ==
        IF tag \notin DOMAIN map THEN Ok(NullOpt)
        ELSE GetNamedOptUnsigned(map[tag], "value", "disable", SizeMax, {"DEC"}, letters)
      Add(name, t, m, n) ==
        IF t = NullOpt /\ m = NullOpt /\ n = NullOpt THEN Throw("TInvalidBatchingConfig")
        ELSE Catch(BatchAddNamedConfig(b, name, [OptTimeLimit |-> t, OptMsgCount |-> m,
                                                 OptByteCount |-> n]),
                   {"TBatchDuplicateNamedConfig"}, "TInvalidAttr")
  IN Then(GetString(elem, "name"), LAMBDA name :
     Then(RequireAllChildElementLeaves(elem), LAMBDA leaves :
     Then(GetSubsectionElements(elem, {}, {"time", "messages", "bytes"}), LAMBDA map :
     Then(Limit(map, "time", {}), LAMBDA t :
     Then(Limit(map, "messages", {"k"}), LAMBDA m :
     Then(Limit(map, "bytes", {"k"}), LAMBDA n : Add(name, t, m, n)))))))

(* The action and the named configuration of a topic; without the latter   *)
(* its name is empty.                                                      *)
ProcessTopicBatchConfig(elem) ==
  LET opt == GetOptString(elem, "config")
      given == opt # NullOpt /\ opt # <<NoText>>
      name == IF given THEN opt[1] ELSE NoText
      Checked(action) ==
        IF action \notin {Text("perTopic"), Text("combinedTopics"), Text("disable")}
          THEN Throw("TInvalidAttr")
        ELSE IF action = Text("perTopic") /\ ~given THEN Throw("TMissingAttrValue")
        ELSE IF action = Text("combinedTopics") /\ given THEN Throw("TInvalidAttr")
        ELSE Ok([action |-> action.word, config |-> name])
  IN Then(RequireLeaf(elem), LAMBDA leaf : Then(GetString(elem, "action"), Checked))

ProcessBatchingTopicConfigsElem(b, elem) ==
  LET Topic(c, item) ==
        Then(GetString(item, "name"), LAMBDA name :
        Then(ProcessTopicBatchConfig(item), LAMBDA t :
          Catch(BatchSetTopicConfig(c, name, t.action, t.config),
                {"TBatchDuplicateTopicConfig", "TBatchUnknownTopicConfig"}, "TInvalidAttr")))
  IN Then(GetItemListElements(elem, "topic"), LAMBDA items : ForEach(b, items, Topic))

BatchingNamedConfigs(b, map) ==
  IF "namedConfigs" \notin DOMAIN map THEN Ok(b)
  ELSE Then(GetItemListElements(map["namedConfigs"], "config"),
            LAMBDA items : ForEach(b, items, ProcessSingleBatchingNamedConfig))

LeafNumber(elem) ==
  Then(RequireLeaf(elem), LAMBDA leaf : GetUnsigned(elem, "value", SizeMax, {"k"}))

BatchingCombinedTopics(b, elem) ==
  LET Set(enable, config) ==
        Catch(Catch(SetCombinedTopicsConfig(b, enable, config),
                    {"TBatchDuplicateCombinedTopicsConfig"}, "TDuplicateElement"),
              {"TBatchUnknownCombinedTopicsConfig"}, "TInvalidAttr")
  IN Then(RequireLeaf(elem), LAMBDA leaf :
     Then(GetBool(elem, "enable"), LAMBDA enable :
       IF ~enable THEN Set(FALSE, NoText)
       ELSE Then(GetString(elem, "config"), LAMBDA config : Set(TRUE, config))))

ProcessBatchingElem(elem) ==
  LET Sections(map) ==
        Then(BatchingNamedConfigs(NewBatchBuilder, map), LAMBDA b1 :
        Then(LeafNumber(map["produceRequestDataLimit"]), LAMBDA limit :
        Then(Catch(SetProduceRequestDataLimit(b1, limit),
                   {"TBatchDuplicateProduceRequestDataLimit"}, "TDuplicateElement"),
             LAMBDA b2 :
        Then(LeafNumber(map["messageMaxBytes"]), LAMBDA max :
        Then(Catch(SetMessageMaxBytes(b2, max), {"TBatchDuplicateMessageMaxBytes"},
                   "TDuplicateElement"), LAMBDA b3 :
        Then(BatchingCombinedTopics(b3, map["combinedTopics"]), LAMBDA b4 :
        Then(ProcessTopicBatchConfig(map["defaultTopic"]), LAMBDA t :
        Then(Catch(BatchSetDefaultTopicConfig(b4, t.action, t.config),
                   {"TBatchUnknownDefaultTopicConfig"}, "TInvalidAttr"), LAMBDA b5 :
        Then(IF "topicConfigs" \in DOMAIN map
               THEN ProcessBatchingTopicConfigsElem(b5, map["topicConfigs"]) ELSE Ok(b5),
             LAMBDA b6 :
          Catch(BatchBuild(b6),
                {"TBatchMissingProduceRequestDataLimit", "TBatchMissingMessageMaxBytes",
                 "TBatchMissingCombinedTopics", "TBatchMissingDefaultTopic"},
                "TMissingChildElement"))))))))))
  IN Then(GetSubsectionElements(elem, {"produceRequestDataLimit", "messageMaxBytes",
                                       "combinedTopics", "defaultTopic"},
                                {"namedConfigs", "topicConfigs"}), Sections)

------------------------------------------------------------------------------
(* TCompressionConf::TBuilder and the section <compression>                *)

EnableLz4 == FALSE                  \* what DoryMain passes to the builder
AllowInputBindEphemeral == FALSE

NoCompressionConf ==
  [SizeThresholdPercent |-> 100, TopicConfigs |-> <<>>,
   DefaultTopicConfig |-> [Type |-> "none", MinSize |-> 0, Level |-> NullOpt]]

NewCompressionBuilder ==
  [NamedConfigs |-> <<>>, BuildResult |-> NoCompressionConf, Got |-> {}]

CompressionAddNamedConfig(b, name, type, minSize, level) ==
  IF name \in DOMAIN b.NamedConfigs THEN Throw("TCompressionDuplicateNamedConfig")
  ELSE Ok([b EXCEPT !.NamedConfigs =
             MapPut(@, name, [Type |-> type, MinSize |-> IF type = "none" THEN 0 ELSE minSize,
                           Level |-> level])])

SetSizeThresholdPercent(b, percent) ==
  IF "percent" \in b.Got THEN Throw("TCompressionDuplicateSizeThresholdPercent")
  ELSE IF percent > 100 THEN Throw("TCompressionBadSizeThresholdPercent")
  ELSE Ok([b EXCEPT !.BuildResult.SizeThresholdPercent = percent, !.Got = @ \cup {"percent"}])

CompressionSetDefaultTopicConfig(b, name) ==
  IF "default" \in b.Got THEN Throw("TCompressionDuplicateDefaultTopicConfig")
  ELSE IF name \notin DOMAIN b.NamedConfigs THEN Throw("TCompressionUnknownDefaultTopicConfig")
  ELSE Ok([b EXCEPT !.BuildResult.DefaultTopicConfig = b.NamedConfigs[name],
                    !.Got = @ \cup {"default"}])

CompressionSetTopicConfig(b, topic, name) ==
  IF topic \in DOMAIN b.BuildResult.TopicConfigs THEN Throw("TCompressionDuplicateTopicConfig")
  ELSE IF name \notin DOMAIN b.NamedConfigs THEN Throw("TCompressionUnknownTopicConfig")
  ELSE Ok([b EXCEPT !.BuildResult.TopicConfigs = MapPut(@, topic, b.NamedConfigs[name])])

CompressionBuild(b) ==
  IF "default" \notin b.Got THEN Throw("TCompressionMissingDefaultTopic")
  ELSE Ok(b.BuildResult)

(* strcasecmp: the words are given in lower case.                          *)
StringToType(text) ==
  IF text \in {Text(w) : w \in {"none", "gzip", "snappy", "lz4"}}
    THEN IF text.word = "lz4" /\ ~EnableLz4 THEN Throw("TInvalidAttr") ELSE Ok(text.word)
  ELSE Throw("TInvalidAttr")

ProcessSingleCompressionNamedConfig(b, elem) ==
  Then(GetString(elem, "name"), LAMBDA name :
  Then(Then(GetString(elem, "type"), StringToType), LAMBDA type :
  Then(IF type = "none" THEN Ok(0) ELSE GetUnsigned(elem, "minSize", SizeMax, {"k"}),
       LAMBDA minSize :
  Then(GetOptSigned(elem, "level", -(IntMax + 1), IntMax), LAMBDA level :
    Catch(CompressionAddNamedConfig(b, name, type, minSize, level),
          {"TCompressionDuplicateNamedConfig"}, "TInvalidAttr")))))

(* The exceptions caught here are those of the builder for batching.       *)
ProcessCompressionTopicConfigsElem(b, elem) ==
  LET Topic(c, item) ==
        Then(GetString(item, "name"), LAMBDA name :
        Then(GetString(item, "config"), LAMBDA config :
          Catch(CompressionSetTopicConfig(c, name, config),
                {"TBatchDuplicateTopicConfig", "TBatchUnknownTopicConfig"}, "TInvalidAttr")))
  IN Then(RequireAllChildElementLeaves(elem), LAMBDA leaves :
     Then(GetItemListElements(elem, "topic"), LAMBDA items : ForEach(b, items, Topic)))

CompressionNamedConfigs(b, elem) ==
  Then(RequireAllChildElementLeaves(elem), LAMBDA leaves :
  Then(GetItemListElements(elem, "config"), LAMBDA items :
  Then(ForEach(b, items, ProcessSingleCompressionNamedConfig), LAMBDA c :
    IF DOMAIN c.NamedConfigs = {} THEN Throw("TMissingChildElement") ELSE Ok(c))))

CompressionThreshold(b, map) ==
  IF "sizeThresholdPercent" \notin DOMAIN map THEN Ok(b)
  ELSE LET elem == map["sizeThresholdPercent"]
       IN Then(RequireLeaf(elem), LAMBDA leaf :
          Then(GetUnsigned(elem, "value", SizeMax, {}), LAMBDA percent :
            Catch(Catch(SetSizeThresholdPercent(b, percent),
                        {"TCompressionDuplicateSizeThresholdPercent"}, "TDuplicateElement"),
                  {"TCompressionBadSizeThresholdPercent"}, "TInvalidAttr")))

ProcessCompressionElem(elem) ==
  LET Sections(map) ==
        Then(CompressionNamedConfigs(NewCompressionBuilder, map["namedConfigs"]), LAMBDA b1 :
        Then(CompressionThreshold(b1, map), LAMBDA b2 :
        Then(RequireLeaf(map["defaultTopic"]), LAMBDA leaf :
        Then(GetString(map["defaultTopic"], "config"), LAMBDA config :
        Then(Catch(CompressionSetDefaultTopicConfig(b2, config),
                   {"TCompressionUnknownDefaultTopicConfig"}, "TInvalidAttr"), LAMBDA b3 :
        Then(IF "topicConfigs" \in DOMAIN map
               THEN ProcessCompressionTopicConfigsElem(b3, map["topicConfigs"]) ELSE Ok(b3),
             LAMBDA b4 :
          Catch(CompressionBuild(b4), {"TCompressionMissingDefaultTopic"},
                "TMissingChildElement")))))))
  IN Then(GetSubsectionElements(elem, {"namedConfigs", "defaultTopic"},
                                {"sizeThresholdPercent", "topicConfigs"}), Sections)

------------------------------------------------------------------------------
(* TTopicRateConf::TBuilder and the section <topicRateLimiting>            *)

NewRateBuilder ==
  [NamedConfigs |-> <<>>, Got |-> {},
   BuildResult |-> [DefaultTopicConfig |-> NullOpt, TopicConfigs |-> <<>>]]

AddBoundedNamedConfig(b, name, interval, maxCount) ==
  IF interval = 0 THEN Throw("TTopicRateZeroRateLimitInterval")
  ELSE IF name \in DOMAIN b.NamedConfigs THEN Throw("TTopicRateDuplicateNamedConfig")
  ELSE Ok([b EXCEPT !.NamedConfigs =
             MapPut(@, name, <<[Interval |-> interval, MaxCount |-> maxCount]>>)])

AddUnlimitedNamedConfig(b, name) ==
  IF name \in DOMAIN b.NamedConfigs THEN Throw("TTopicRateDuplicateNamedConfig")
  ELSE Ok([b EXCEPT !.NamedConfigs = MapPut(@, name, NullOpt)])

RateSetDefaultTopicConfig(b, name) ==
  IF "default" \in b.Got THEN Throw("TTopicRateDuplicateDefaultTopicConfig")
  ELSE IF name \notin DOMAIN b.NamedConfigs THEN Throw("TTopicRateUnknownDefaultTopicConfig")
  ELSE Ok([b EXCEPT !.BuildResult.DefaultTopicConfig = b.NamedConfigs[name],
                    !.Got = @ \cup {"default"}])

RateSetTopicConfig(b, topic, name) ==
  IF topic \in DOMAIN b.BuildResult.TopicConfigs THEN Throw("TTopicRateDuplicateTopicConfig")
  ELSE IF name \notin DOMAIN b.NamedConfigs THEN Throw("TTopicRateUnknownTopicConfig")
  ELSE Ok([b EXCEPT !.BuildResult.TopicConfigs = MapPut(@, topic, b.NamedConfigs[name])])

RateBuild(b) ==
  IF "default" \notin b.Got THEN Throw("TTopicRateMissingDefaultTopic") ELSE Ok(b.BuildResult)

ProcessTopicRateNamedConfig(b, elem) ==
  LET Add(name, max) ==
        IF max = NullOpt
          THEN Catch(AddUnlimitedNamedConfig(b, name), {"TTopicRateDuplicateNamedConfig"},
                     "TInvalidAttr")
          ELSE Then(GetUnsigned(elem, "interval", SizeMax, {}), LAMBDA interval :
                 Catch(AddBoundedNamedConfig(b, name, interval, max[1]),
                       {"TTopicRateZeroRateLimitInterval", "TTopicRateDuplicateNamedConfig"},
                       "TInvalidAttr"))
  IN Then(GetString(elem, "name"), LAMBDA name :
     Then(GetNamedOptUnsigned(elem, "maxCount", "unlimited", SizeMax, {"DEC"}, {"k"}),
          LAMBDA max : Add(name, max)))

ProcessTopicRateTopicConfigsElem(b, elem) ==
  LET Topic(c, item) ==
        Then(GetString(item, "name"), LAMBDA name :
        Then(GetString(item, "config"), LAMBDA config :
          Catch(RateSetTopicConfig(c, name, config),
                {"TTopicRateDuplicateTopicConfig", "TTopicRateUnknownTopicConfig"},
                "TInvalidAttr")))
  IN Then(RequireAllChildElementLeaves(elem), LAMBDA leaves :
     Then(GetItemListElements(elem, "topic"), LAMBDA items : ForEach(b, items, Topic)))

ProcessTopicRateElem(elem) ==
  LET Sections(map) ==
        Then(RequireAllChildElementLeaves(map["namedConfigs"]), LAMBDA leaves :
        Then(GetItemListElements(map["namedConfigs"], "config"), LAMBDA items :
        Then(ForEach(NewRateBuilder, items, ProcessTopicRateNamedConfig), LAMBDA b1 :
        Then(RequireLeaf(map["defaultTopic"]), LAMBDA leaf :
        Then(GetString(map["defaultTopic"], "config"), LAMBDA config :
        Then(Catch(RateSetDefaultTopicConfig(b1, config),
                   {"TTopicRateUnknownDefaultTopicConfig"}, "TInvalidAttr"), LAMBDA b2 :
        Then(IF "topicConfigs" \in DOMAIN map
               THEN ProcessTopicRateTopicConfigsElem(b2, map["topicConfigs"]) ELSE Ok(b2),
             LAMBDA b3 :
          Catch(RateBuild(b3), {"TTopicRateMissingDefaultTopic"}, "TMissingChildElement"))))))))
  IN Then(GetSubsectionElements(elem, {"namedConfigs", "defaultTopic"}, {"topicConfigs"}),
          Sections)

(* No section: no topic has a limit.                                       *)
UnlimitedRateConf ==
  Then(AddUnlimitedNamedConfig(NewRateBuilder, Text("unlimited")), LAMBDA b1 :
  Then(RateSetDefaultTopicConfig(b1, Text("unlimited")), RateBuild))

------------------------------------------------------------------------------
(* Sections that are lists of settings                                     *)

(* A setting: its element and attribute, the field that it sets, and what  *)
(* values the attribute and the setter of the field take.                  *)
Number(tag, field, letters) ==
  [tag |-> tag, attr |-> "value", field |-> field, kind |-> "number", letters |-> letters,
   max |-> SizeMax, from |-> 0, to |-> SizeMax]
Flag(tag, field, attr) ==
  [tag |-> tag, attr |-> attr, field |-> field, kind |-> "flag", letters |-> {},
   max |-> 0, from |-> 0, to |-> 0]

ReadSetting(elem, s) ==
  CASE s.kind = "flag"   -> GetBool(elem, s.attr)
    [] s.kind = "string" -> GetRawString(elem, s.attr)
    [] s.kind = "number" ->
         Then(GetUnsigned(elem, s.attr, s.max, s.letters), LAMBDA v :
           IF v \in s.from .. s.to THEN Ok(v) ELSE Throw("TInvalidAttr"))
    [] s.kind = "limit"  ->
         Then(GetNamedOptUnsigned(elem, s.attr, "unlimited", s.max, {"DEC"}, s.letters),
              LAMBDA v : Ok(IF v = NullOpt THEN s.max ELSE v[1]))

ReadSettings(conf, map, settings) ==
  LET Read(c, s) ==
        IF s.tag \notin DOMAIN map THEN Ok(c)
        ELSE Then(ReadSetting(map[s.tag], s), LAMBDA v : Ok([c EXCEPT ![s.field] = v]))
  IN ForEach(conf, settings, Read)

TagsOf(settings) == {settings[i].tag : i \in DOMAIN settings}

ProcessSettings(elem, conf, settings) ==
  Then(GetSubsectionElements(elem, {}, TagsOf(settings)), LAMBDA map :
  Then(RequireAllChildElementLeaves(elem), LAMBDA leaves : ReadSettings(conf, map, settings)))

NewInputConfigConf ==
  [MaxBuffer |-> 128 * 1024 * 1024, MaxDatagramMsgSize |-> 64 * 1024,
   AllowLargeUnixDatagrams |-> FALSE, MaxStreamMsgSize |-> 2 * 1024 * 1024]

ProcessInputConfigElem(elem) ==
  ProcessSettings(elem, NewInputConfigConf,
    <<Number("maxBuffer", "MaxBuffer", {"k", "m"}),
      Number("maxDatagramMsgSize", "MaxDatagramMsgSize", {"k", "m"}),
      Flag("allowLargeUnixDatagrams", "AllowLargeUnixDatagrams", "value"),
      Number("maxStreamMsgSize", "MaxStreamMsgSize", {"k", "m"})>>)

NewMsgDeliveryConf ==
  [TopicAutocreate |-> FALSE, MaxFailedDeliveryAttempts |-> 5, ShutdownMaxDelay |-> 30000,
   DispatcherRestartMaxDelay |-> 5000, MetadataRefreshInterval |-> 15,
   CompareMetadataOnRefresh |-> TRUE, KafkaSocketTimeout |-> 60,
   PauseRateLimitInitial |-> 5000, PauseRateLimitMaxDouble |-> 4, MinPauseDelay |-> 5000]

ProcessMsgDeliveryElem(elem) ==
  ProcessSettings(elem, NewMsgDeliveryConf,
    <<Flag("topicAutocreate", "TopicAutocreate", "enable"),
      Number("maxFailedDeliveryAttempts", "MaxFailedDeliveryAttempts", {}),
      Number("shutdownMaxDelay", "ShutdownMaxDelay", {}),
      Number("dispatcherRestartMaxDelay", "DispatcherRestartMaxDelay", {}),
      Number("metadataRefreshInterval", "MetadataRefreshInterval", {}),
      Flag("compareMetadataOnRefresh", "CompareMetadataOnRefresh", "value"),
      Number("kafkaSocketTimeout", "KafkaSocketTimeout", {}),
      Number("pauseRateLimitInitial", "PauseRateLimitInitial", {}),
      Number("pauseRateLimitMaxDouble", "PauseRateLimitMaxDouble", {}),
      Number("minPauseDelay", "MinPauseDelay", {})>>)

NewHttpInterfaceConf ==
  [Port |-> 9090, LoopbackOnly |-> FALSE, DiscardReportInterval |-> 600,
   BadMsgPrefixSize |-> 256]

ProcessHttpInterfaceElem(elem) ==
  ProcessSettings(elem, NewHttpInterfaceConf,
    <<[Number("port", "Port", {}) EXCEPT !.max = PortMax, !.from = 1],
      Flag("loopbackOnly", "LoopbackOnly", "value"),
      [Number("discardReportInterval", "DiscardReportInterval", {}) EXCEPT !.from = 1],
      Number("badMsgPrefixSize", "BadMsgPrefixSize", {})>>)

NewKafkaConfigConf == [ClientId |-> Text("dory"), ReplicationTimeout |-> 10000]

ProcessKafkaConfigElem(elem) ==
  ProcessSettings(elem, NewKafkaConfigConf,
    <<[Number("clientId", "ClientId", {}) EXCEPT !.kind = "string"],
      [Number("replicationTimeout", "ReplicationTimeout", {}) EXCEPT !.to = Int32Max]>>)

(* A section with a path: the path is read, then the settings, and only    *)
(* then is the path of an enabled section checked (SetPath).               *)
ProcessPathSettings(elem, conf, settings) ==
  LET SetPath(c, path) ==
        IF path # NoText /\ ~IsAbsolute(path) THEN Throw("TInvalidAttr")
        ELSE Ok([c EXCEPT !.Path = path])
  IN Then(GetSubsectionElements(elem, {"path"}, TagsOf(settings)), LAMBDA map :
     Then(GetBool(elem, "enable"), LAMBDA enable :
     Then(RequireAllChildElementLeaves(elem), LAMBDA leaves :
     Then(GetRawString(map["path"], "value"), LAMBDA path :
     Then(ReadSettings(conf, map, settings), LAMBDA c :
       SetPath(c, IF enable THEN path ELSE NoText))))))

NewDiscardLoggingConf ==
  [Path |-> NoText, MaxFileSize |-> 1024 * 1024, MaxArchiveSize |-> 32 * 1024 * 1024,
   MaxMsgPrefixSize |-> SizeMax]

ProcessDiscardLoggingElem(elem) ==
  ProcessPathSettings(elem, NewDiscardLoggingConf,
    <<Number("maxFileSize", "MaxFileSize", {"k", "m"}),
      Number("maxArchiveSize", "MaxArchiveSize", {"k", "m"}),
      [Number("maxMsgPrefixSize", "MaxMsgPrefixSize", {"k"}) EXCEPT !.kind = "limit"]>>)

NewMsgDebugConf == [Path |-> NoText, TimeLimit |-> 3600, ByteLimit |-> 2 * 1024 * 1024]

ProcessMsgDebugElem(elem) ==
  ProcessPathSettings(elem, NewMsgDebugConf,
    <<Number("timeLimit", "TimeLimit", {}), Number("byteLimit", "ByteLimit", {"k", "m"})>>)

------------------------------------------------------------------------------
(* Files, input sources, logging, brokers                                  *)

(* The path ("" unless enabled) and the mode of a file.                    *)
ProcessFileSection(elem) ==
  LET Mode(map) ==
        IF "mode" \notin DOMAIN map THEN Ok(NullOpt)
        ELSE GetNamedOptUnsigned(map["mode"], "value", "unspecified", 2 * Int32Max + 1,
                                 {"BIN", "OCT"}, {})
      Checked(path, mode) ==
        IF path # NoText /\ ~IsAbsolute(path) THEN Throw("TInvalidAttr")
        ELSE IF mode # NullOpt /\ mode[1] > 511 THEN Throw("TInvalidAttr")
        ELSE Ok([path |-> path, mode |-> mode])
  IN Then(GetBool(elem, "enable"), LAMBDA enable :
     Then(RequireAllChildElementLeaves(elem), LAMBDA leaves :
     Then(GetSubsectionElements(elem, {"path"}, {"mode"}), LAMBDA map :
     Then(GetRawString(map["path"], "value"), LAMBDA path :
     Then(Mode(map), LAMBDA mode : Checked(IF enable THEN path ELSE NoText, mode))))))

NoFileConf == [path |-> NoText, mode |-> NullOpt]

OptFileSection(map, tag) ==
  IF tag \in DOMAIN map THEN ProcessFileSection(map[tag]) ELSE Ok(NoFileConf)

(* LocalTcpPort: NullOpt unless enabled.                                      *)
ProcessTcp(elem) ==
  LET SetTcpConf(port) ==
        IF ~AllowInputBindEphemeral /\ port = <<0>> THEN Throw("TInvalidAttr") ELSE Ok(port)
  IN Then(GetBool(elem, "enable"), LAMBDA enable :
     Then(RequireAllChildElementLeaves(elem), LAMBDA leaves :
     Then(GetSubsectionElements(elem, {"port"}, {}), LAMBDA map :
     Then(GetOptUnsigned(map["port"], "value", PortMax), LAMBDA port :
       SetTcpConf(IF enable THEN port ELSE NullOpt)))))

ProcessInputSourcesElem(elem) ==
  LET Sources(dg, stream, port) ==
        IF dg.path = NoText /\ stream.path = NoText /\ port = NullOpt THEN Throw("TNoInputSource")
        ELSE Ok([UnixDg |-> dg, UnixStream |-> stream, LocalTcpPort |-> port])
  IN Then(GetSubsectionElements(elem, {}, {"unixDatagram", "unixStream", "tcp"}), LAMBDA map :
     Then(OptFileSection(map, "unixDatagram"), LAMBDA dg :
     Then(OptFileSection(map, "unixStream"), LAMBDA stream :
     Then(IF "tcp" \in DOMAIN map THEN ProcessTcp(map["tcp"]) ELSE Ok(NullOpt), LAMBDA port :
       Sources(dg, stream, port)))))

NewLoggingConf ==
  [Pri |-> "NOTICE", EnableStdoutStderr |-> FALSE, EnableSyslog |-> TRUE, File |-> NoFileConf,
   LogDiscards |-> TRUE]

OptLeafFlag(map, tag, default) ==
  IF tag \notin DOMAIN map THEN Ok(default)
  ELSE Then(RequireLeaf(map[tag]), LAMBDA leaf : GetBool(map[tag], "enable"))

(* ToPri()                                                                 *)
LogLevels == {"EMERG", "ALERT", "CRIT", "ERR", "WARNING", "NOTICE", "INFO", "DEBUG"}

(* ProcessCommonLogging() and the subsection of Dory's own.                *)
ProcessLoggingElem(elem) ==
  LET Level(map) ==
        IF "level" \notin DOMAIN map THEN Ok(NewLoggingConf.Pri)
        ELSE Then(RequireLeaf(map["level"]), LAMBDA leaf :
             Then(GetRawString(map["level"], "value"), LAMBDA level :
               IF level \in {Text(w) : w \in LogLevels} THEN Ok(level.word)
               ELSE Throw("TInvalidAttr")))
  IN Then(GetSubsectionElements(elem, {}, {"level", "stdoutStderr", "syslog", "file",
                                           "logDiscards"}), LAMBDA map :
     Then(Level(map), LAMBDA pri :
     Then(OptLeafFlag(map, "stdoutStderr", FALSE), LAMBDA out :
     Then(OptLeafFlag(map, "syslog", TRUE), LAMBDA syslog :
     Then(OptFileSection(map, "file"), LAMBDA file :
     Then(OptLeafFlag(map, "logDiscards", TRUE), LAMBDA discards :
       Ok([Pri |-> pri, EnableStdoutStderr |-> out, EnableSyslog |-> syslog,
           File |-> file, LogDiscards |-> discards])))))))

ProcessInitialBrokersElem(elem) ==
  LET Broker(brokers, item) ==
        Then(GetString(item, "host"), LAMBDA host :
        Then(GetOptUnsigned(item, "port", PortMax), LAMBDA port :
          Ok(Append(brokers, [host |-> host, port |-> IF port = NullOpt THEN 9002 ELSE port[1]]))))
  IN Then(RequireAllChildElementLeaves(elem), LAMBDA leaves :
     Then(GetItemListElements(elem, "broker"), LAMBDA items :
     Then(ForEach(<<>>, items, Broker), LAMBDA brokers :
       IF brokers = <<>> THEN Throw("TInitialBrokersMissing") ELSE Ok(brokers))))

------------------------------------------------------------------------------
(* The whole file                                                          *)

OptSection(map, tag, Process(_), default) ==
  IF tag \in DOMAIN map THEN Process(map[tag]) ELSE Ok(default)

(* A discarded message has to fit the logfile.  The product is a size_t.   *)
CheckFileHoldsMsgs(discard, input) ==
  LET maxInput == IF input.MaxDatagramMsgSize > input.MaxStreamMsgSize
                    THEN input.MaxDatagramMsgSize ELSE input.MaxStreamMsgSize
  IN IF discard.Path # NoText /\ discard.MaxFileSize < (2 * maxInput) % (SizeMax + 1)
       THEN Throw("TDiscardLoggingInvalidMaxFileSize") ELSE Ok(discard)


ProcessDiscardLogging(map, input) ==
  IF "discardLogging" \notin DOMAIN map THEN Ok(NewDiscardLoggingConf)
  ELSE Then(ProcessDiscardLoggingElem(map["discardLogging"]),
            LAMBDA discard : CheckFileHoldsMsgs(discard, input))

ProcessRootElem(root) ==
  LET Sections(map) ==
        Then(OptSection(map, "batching", ProcessBatchingElem, NoBatchConf), LAMBDA batch :
        Then(OptSection(map, "compression", ProcessCompressionElem, NoCompressionConf),
             LAMBDA compression :
        Then(IF "topicRateLimiting" \in DOMAIN map
               THEN ProcessTopicRateElem(map["topicRateLimiting"]) ELSE UnlimitedRateConf,
             LAMBDA rate :
        Then(ProcessInputSourcesElem(map["inputSources"]), LAMBDA sources :
        Then(OptSection(map, "inputConfig", ProcessInputConfigElem, NewInputConfigConf),
             LAMBDA input :
        Then(OptSection(map, "msgDelivery", ProcessMsgDeliveryElem, NewMsgDeliveryConf),
             LAMBDA delivery :
        Then(OptSection(map, "httpInterface", ProcessHttpInterfaceElem, NewHttpInterfaceConf),
             LAMBDA http :
        Then(ProcessDiscardLogging(map, input), LAMBDA discard :
        Then(OptSection(map, "kafkaConfig", ProcessKafkaConfigElem, NewKafkaConfigConf),
             LAMBDA kafka :
        Then(OptSection(map, "msgDebug", ProcessMsgDebugElem, NewMsgDebugConf), LAMBDA debug :
        Then(OptSection(map, "logging", ProcessLoggingElem, NewLoggingConf), LAMBDA logging :
        Then(ProcessInitialBrokersElem(map["initialBrokers"]), LAMBDA brokers :
          Ok([BatchConf |-> batch, CompressionConf |-> compression, TopicRateConf |-> rate,
              InputSourcesConf |-> sources, InputConfigConf |-> input,
              MsgDeliveryConf |-> delivery, HttpInterfaceConf |-> http,
              DiscardLoggingConf |-> discard, KafkaConfigConf |-> kafka,
              MsgDebugConf |-> debug, LoggingConf |-> logging,
              InitialBrokers |-> brokers])))))))))))))
  IN Then(GetSubsectionElements(root, {"inputSources", "initialBrokers"},
            {"batching", "compression", "topicRateLimiting", "inputConfig", "msgDelivery",
             "httpInterface", "discardLogging", "kafkaConfig", "msgDebug", "logging"}), Sections)

BuildConf(doc) ==
  Then(ParseXmlConfig(doc, "US-ASCII"), LAMBDA root :
    IF root.tag # "doryConfig" THEN Throw("TUnexpectedElementName") ELSE ProcessRootElem(root))

(* How large a datagram may be depends on the host.                        *)
TestUnixDgSize(size) ==
  IF size > 16 * 1024 * 1024 THEN "Fail"
  ELSE IF size <= UnixDgDefault THEN "Pass"
  ELSE IF size <= UnixDgLimit THEN "PassWithLargeSendbuf" ELSE "Fail"

CheckUnixDgSize(conf) ==
  LET test == TestUnixDgSize(conf.InputConfigConf.MaxDatagramMsgSize)
  IN IF conf.InputSourcesConf.UnixDg.path = NoText THEN Ok(conf)
     ELSE IF test = "Fail" \/ (test = "PassWithLargeSendbuf"
                                 /\ ~conf.InputConfigConf.AllowLargeUnixDatagrams)
       THEN Throw("TInvalidArgError")
     ELSE Ok(conf)
==============================================================================
