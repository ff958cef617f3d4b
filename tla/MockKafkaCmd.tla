---------------------------- MODULE MockKafkaCmd -----------------------------
(***************************************************************************)
(* Error injection commands of the mock Kafka server: how TErrorInjector and *)
(* the program inject_error make them, how they travel (serialize_cmd.cc),   *)
(* and TCmdBucket, where the threads that handle clients look for them.      *)
(* Names are numbers, 0 the empty one.                                       *)
(***************************************************************************)
EXTENDS Wire, SequencesExt

EmptyName == 0

\* nullptr.
NoName == -1

\* TCmd::TType.
SEND_PRODUCE_RESPONSE_ERROR == 0
DISCONNECT_ON_READ_PRODUCE_REQUEST == 1
DELAY_BEFORE_SEND_PRODUCE_RESPONSE == 2
SEND_METADATA_RESPONSE_ERROR == 3
DISCONNECT_ON_READ_METADATA_REQUEST == 4
DELAY_BEFORE_SEND_METADATA_RESPONSE == 5

\* ToType throws for any other number.
ToTypeSucceeds(type) == type \in 0 .. 5

Int16 == -32768 .. 32767

TCmd(type, param1, param2, str, addr) ==
    [type |-> type, param1 |-> param1, param2 |-> param2, str |-> str, addr |-> addr]

----------------------------------------------------------------------------
\* TErrorInjector.

NameOrEmpty(name) == IF name = NoName THEN EmptyName ELSE name

\* Param2 is 1 when any message body will do.
AnyBody(body) == IF body = NoName THEN 1 ELSE 0

MakeCmdAckError(error, body, addr) ==
    TCmd(SEND_PRODUCE_RESPONSE_ERROR, error, AnyBody(body), NameOrEmpty(body), NameOrEmpty(addr))

MakeCmdDisconnectBeforeAck(body, addr) ==
    TCmd(DISCONNECT_ON_READ_PRODUCE_REQUEST, 0, AnyBody(body), NameOrEmpty(body),
         NameOrEmpty(addr))

MakeCmdMetadataResponseError(error, topic, addr) ==
    TCmd(SEND_METADATA_RESPONSE_ERROR, error, 0, topic, NameOrEmpty(addr))

MakeCmdAllTopicsMetadataResponseError(error, topic, addr) ==
    TCmd(SEND_METADATA_RESPONSE_ERROR, error, 1, topic, NameOrEmpty(addr))

MakeCmdDisconnectBeforeMetadataResponse(topic, addr) ==
    TCmd(DISCONNECT_ON_READ_METADATA_REQUEST, 0, 0, topic, NameOrEmpty(addr))

MakeCmdDisconnectBeforeAllTopicsMetadataResponse(addr) ==
    TCmd(DISCONNECT_ON_READ_METADATA_REQUEST, 0, 1, EmptyName, NameOrEmpty(addr))

----------------------------------------------------------------------------
\* inject_error: a line of its command file is a record of what the line is
\* ("blank" for blank lines and comments), of the client's address (NoName if
\* there is none, NoDelimiter if nothing follows it), of the command's name and
\* of what follows, up to the next blank and after it.

NoDelimiter == -2

NoCmds == [ok |-> FALSE, cmds |-> <<>>, arg2 |-> EmptyName]

NameOrNull(name) == IF name = EmptyName THEN NoName ELSE name

\* InjectAckError: without a message body on the line, arg2 still has what an
\* earlier line left in it.
LineAckError(addr, args, arg2) ==
    LET body == IF Len(args) = 2 THEN args[2] ELSE arg2
    IN  IF args = <<>> \/ args[1] \notin Int16 THEN NoCmds
        ELSE [ok |-> TRUE, arg2 |-> body,
              cmds |-> <<MakeCmdAckError(args[1], NameOrNull(body), addr)>>]

LineDisconnectBeforeAck(addr, args, arg2) ==
    [ok |-> TRUE, arg2 |-> arg2,
     cmds |-> <<MakeCmdDisconnectBeforeAck(IF args = <<>> THEN NoName ELSE NameOrNull(args[1]),
                                           addr)>>]

LineMetadataResponseError(addr, args) ==
    IF Len(args) < 2 \/ args[1] \notin Int16 THEN NoCmds
    ELSE [ok |-> TRUE, arg2 |-> args[2],
          cmds |-> <<MakeCmdMetadataResponseError(args[1], args[2], addr)>>]

LineAllTopicsMetadataResponseError(addr, args) ==
    IF Len(args) < 2 \/ args[1] \notin Int16 THEN NoCmds
    ELSE [ok |-> TRUE, arg2 |-> args[2],
          cmds |-> <<MakeCmdAllTopicsMetadataResponseError(args[1], args[2], addr)>>]

LineDisconnectBeforeMetadataResponse(addr, args, arg2) ==
    IF args = <<>> THEN NoCmds
    ELSE [ok |-> TRUE, arg2 |-> arg2,
          cmds |-> <<MakeCmdDisconnectBeforeMetadataResponse(args[1], addr)>>]

LineDisconnectBeforeAllTopicsMetadataResponse(addr, args, arg2) ==
    IF args # <<>> THEN NoCmds
    ELSE [ok |-> TRUE, arg2 |-> arg2,
          cmds |-> <<MakeCmdDisconnectBeforeAllTopicsMetadataResponse(addr)>>]

\* What one line adds.
LineCmds(line, arg2) ==
    IF line.cmd = "blank" THEN [ok |-> TRUE, cmds |-> <<>>, arg2 |-> arg2]
    ELSE IF line.addr = NoDelimiter THEN NoCmds
    ELSE CASE line.cmd = "InjectAckError" -> LineAckError(line.addr, line.args, arg2)
           [] line.cmd = "InjectDisconnectBeforeAck" ->
                LineDisconnectBeforeAck(line.addr, line.args, arg2)
           [] line.cmd = "InjectMetadataResponseError" ->
                LineMetadataResponseError(line.addr, line.args)
           [] line.cmd = "InjectAllTopicsMetadataResponseError" ->
                LineAllTopicsMetadataResponseError(line.addr, line.args)
           [] line.cmd = "InjectDisconnectBeforeMetadataResponse" ->
                LineDisconnectBeforeMetadataResponse(line.addr, line.args, arg2)
           [] line.cmd = "InjectDisconnectBeforeAllTopicsMetadataResponse" ->
                LineDisconnectBeforeAllTopicsMetadataResponse(line.addr, line.args, arg2)
           [] OTHER -> NoCmds

\* ReadCmdFile: the commands of a file, up to the first line that is wrong.
ReadCmdFile(lines) ==
    FoldLeft(LAMBDA r, line :
                LET n == LineCmds(line, r.arg2)
                IN  IF ~ r.ok THEN r
                    ELSE [n EXCEPT !.cmds = r.cmds \o n.cmds],
             [ok |-> TRUE, cmds |-> <<>>, arg2 |-> EmptyName], lines)

\* FillCmdVec: the commands that the options of the command line ask for, then
\* those of the file.  The error of the all topics command is the one of the
\* single topic option.
OptionCmds(cfg) ==
    LET body == NameOrNull(cfg.msgBody)
        addr == NameOrNull(cfg.clientAddr)
        If(p, cmd) == IF p THEN <<cmd>> ELSE <<>>
    IN  If(cfg.ackError # 0, MakeCmdAckError(cfg.ackError, body, addr))
        \o If(cfg.ackDisconnect, MakeCmdDisconnectBeforeAck(body, addr))
        \o If(cfg.singleTopicMdError # 0,
              MakeCmdMetadataResponseError(cfg.singleTopicMdError, cfg.topic, addr))
        \o If(cfg.allTopicsMdError # 0,
              MakeCmdAllTopicsMetadataResponseError(cfg.singleTopicMdError, cfg.topic, addr))
        \o If(cfg.singleTopicMdDisconnect,
              MakeCmdDisconnectBeforeMetadataResponse(cfg.topic, addr))
        \o If(cfg.allTopicsMdDisconnect, MakeCmdDisconnectBeforeAllTopicsMetadataResponse(addr))

FillCmdVec(cfg, lines) ==
    LET needsTopic == \/ cfg.singleTopicMdError # 0
                      \/ cfg.allTopicsMdError # 0
                      \/ cfg.singleTopicMdDisconnect
        file == ReadCmdFile(lines)
    IN  IF needsTopic /\ cfg.topic = EmptyName THEN NoCmds
        ELSE [file EXCEPT !.cmds = IF file.ok THEN OptionCmds(cfg) \o @ ELSE <<>>]

----------------------------------------------------------------------------
\* serialize_cmd.cc.

SerializeCmd(cmd) ==
    LET strSize == NameLength(cmd.str)
        addrSize == NameLength(cmd.addr)
        size == 13 + strSize + addrSize
        params == Write(Write(Write(Grow(<<>>, size), 2, 1, cmd.type), 3, 4, cmd.param1),
                        7, 4, cmd.param2)
        str == Write(Write(params, 11, 1, strSize), 12, strSize, cmd.str)
        addr == Write(Write(str, 12 + strSize, 1, addrSize), 13 + strSize, addrSize, cmd.addr)
    IN  Write(addr, 0, 2, size)

BytesNeededToGetCmdSize == 2

GetCmdSize(buf) == Read(buf, 0, 2)

NameAt(buf, offset, n) == IF n = 0 THEN EmptyName ELSE Read(buf, offset, n)

BadCmd == [ok |-> FALSE, cmd |-> TCmd(0, 0, 0, EmptyName, EmptyName)]

DeserializeCmd(buf) ==
    LET strSize == Read(buf, 11, 1)
        addrSize == Read(buf, 12 + strSize, 1)
    IN  IF Len(buf) < BytesNeededToGetCmdSize THEN BadCmd
        ELSE IF Len(buf) < GetCmdSize(buf) \/ ~ ToTypeSucceeds(Read(buf, 2, 1)) THEN BadCmd
        ELSE [ok |-> TRUE,
              cmd |-> TCmd(Read(buf, 2, 1), Read(buf, 3, 4), Read(buf, 7, 4),
                           NameAt(buf, 12, strSize), NameAt(buf, 13 + strSize, addrSize))]

----------------------------------------------------------------------------
\* TCmdBucket: the queue of numbered commands and the counter of the numbers.

EmptyBucket == [queue |-> <<>>, counter |-> 0]

PutCmd(b, cmd) ==
    [queue |-> Append(b.queue, [seq |-> b.counter + 1, cmd |-> cmd]), counter |-> b.counter + 1]

\* CopyOut: the first item, or none.
NoItem == [seq |-> 0, cmd |-> TCmd(0, 0, 0, EmptyName, EmptyName)]

CopyOut(b) == IF b.queue = <<>> THEN NoItem ELSE Head(b.queue)

\* Remove: what it returns, and the bucket after it.  The first command goes
\* whether or not it is the one that was asked for.  Taking the first of no
\* commands is undefined: the list's own node is freed, and the process dies.
RemoveSucceeds(b, seq) == b.queue # <<>> /\ Head(b.queue).seq = seq

RemoveDies(b) == b.queue = <<>>

Removed(b, seq) == [b EXCEPT !.queue = IF @ = <<>> THEN @ ELSE Tail(@)]

------------------------------------------------------------------------------
(***************************************************************************)
(* TSetup (mock_kafka_server/setup.cc): the setup file of the mock Kafka     *)
(* server.  A file is a sequence of lines, a line a sequence of tokens, and  *)
(* a token a record of the word it is, of the number it is if it is one and  *)
(* of the two numbers around its colon if it has one.                        *)
(***************************************************************************)

CONSTANT InPortMax            \* of in_port_t

NotANumber == -99999

NotAPair == <<NotANumber, NotANumber>>

Word(w) == [word |-> w, num |-> NotANumber, pair |-> NotAPair]

Number(n) == [word |-> "number", num |-> n, pair |-> NotAPair]

Pair(a, b) == [word |-> "pair", num |-> NotANumber, pair |-> <<a, b>>]

\* boost::lexical_cast to an unsigned type, to in_port_t and to int16_t.
IsSize(token) == token.num >= 0

IsPort(token) == token.num \in 0 .. InPortMax

IsInt16(token) == token.num \in -32768 .. 32767

TPort == [readDelay |-> 0, readDelayInterval |-> 1, ackDelay |-> 0, ackDelayInterval |-> 1]

TPartition == [ackError |-> 0, ackErrorInterval |-> 1]

TInfo == [basePort |-> 0, ports |-> <<>>, topics |-> [t \in {} |-> 0]]

\* The state of the parser: the lines that are left, the result, and whether
\* TFileFormatError was thrown.
Parser(lines) == [lines |-> lines, info |-> TInfo, ok |-> TRUE]

Fails(s) == [s EXCEPT !.ok = FALSE]

\* NextInterestingLine: blank lines and comments do not count.
Interesting(line) == line # <<>> /\ line[1].word # "#"

FirstWordIs(s, word) == s.lines # <<>> /\ Head(s.lines)[1].word = word

NextLine(s) == [s EXCEPT !.lines = Tail(@)]

GetPortsLine(s) ==
    LET line == Head(s.lines)
        base == line[2].num
        count == line[3].num
    IN  IF ~ FirstWordIs(s, "ports") \/ Len(line) # 3 THEN Fails(s)
        ELSE IF ~ IsPort(line[2]) \/ ~ IsSize(line[3]) THEN Fails(s)
        ELSE IF count > InPortMax - base + 1 \/ count = 0 THEN Fails(s)
        ELSE NextLine([s EXCEPT !.info.basePort = base,
                                !.info.ports = [i \in 1 .. count |-> TPort]])

\* ParseDelayAndInterval.
IsDelayAndInterval(token) == token.pair[1] >= 0 /\ token.pair[2] >= 0

\* One turn of the loop of GetPortLines.
PortLine(s) ==
    LET line == Head(s.lines)
        index == line[2].num - s.info.basePort + 1
    IN  IF Len(line) # 6 \/ ~ IsPort(line[2]) THEN Fails(s)
        ELSE IF line[2].num < s.info.basePort \/ index > Len(s.info.ports) THEN Fails(s)
        ELSE IF line[3].word # "read_delay" \/ ~ IsDelayAndInterval(line[4]) THEN Fails(s)
        ELSE IF line[5].word # "ack_delay" \/ ~ IsDelayAndInterval(line[6]) THEN Fails(s)
        ELSE NextLine([s EXCEPT !.info.ports[index] =
                [readDelay |-> line[4].pair[1], readDelayInterval |-> line[4].pair[2],
                 ackDelay |-> line[6].pair[1], ackDelayInterval |-> line[6].pair[2]]])

\* One turn of the loop of GetTopicLines.
TopicLine(s) ==
    LET line == Head(s.lines)
        topic == line[2].word
        new == [partitions |-> [i \in 1 .. line[3].num |-> TPartition],
                firstPortOffset |-> line[4].num]
    IN  IF Len(line) # 4 \/ ~ IsSize(line[3]) \/ ~ IsSize(line[4]) THEN Fails(s)
        ELSE IF topic \in DOMAIN s.info.topics THEN Fails(s)
        ELSE NextLine([s EXCEPT !.info.topics =
                [t \in DOMAIN @ \cup {topic} |-> IF t = topic THEN new ELSE @[t]]])

\* One turn of the loop of GetPartitionErrorLines.
PartitionErrorLine(s) ==
    LET line == Head(s.lines)
        topic == line[2].word
        index == line[3].num + 1
    IN  IF Len(line) # 5 \/ topic \notin DOMAIN s.info.topics THEN Fails(s)
        ELSE IF ~ IsSize(line[3]) \/ index > Len(s.info.topics[topic].partitions) THEN Fails(s)
        ELSE IF ~ IsInt16(line[4]) \/ ~ IsSize(line[5]) THEN Fails(s)
        ELSE NextLine([s EXCEPT !.info.topics[topic].partitions[index] =
                [ackError |-> line[4].num, ackErrorInterval |-> line[5].num]])

\* The loops: lines are taken as long as they begin with the word.
RECURSIVE Lines(_, _)
Lines(s, word) ==
    IF ~ s.ok \/ ~ FirstWordIs(s, word) THEN s
    ELSE CASE word = "port" -> Lines(PortLine(s), word)
           [] word = "topic" -> Lines(TopicLine(s), word)
           [] word = "partition_error" -> Lines(PartitionErrorLine(s), word)

\* At least one topic must be there.
GetTopicLines(s) ==
    LET t == Lines(s, "topic")
    IN  IF t.ok /\ DOMAIN t.info.topics = {} THEN Fails(t) ELSE t

\* FillResult: the lines must come in this order.  Lines that are left are not
\* looked at.
FillResult(lines) ==
    LET ports == GetPortsLine(Parser(SelectSeq(lines, Interesting)))
    IN  IF ~ ports.ok THEN ports
        ELSE Lines(GetTopicLines(Lines(ports, "port")), "partition_error")
==============================================================================
