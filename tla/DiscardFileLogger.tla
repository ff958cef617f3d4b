--------------------------- MODULE DiscardFileLogger ---------------------------
(***************************************************************************)
(* The discard logfile (discard_file_logger.cc): entries are appended to   *)
(* it by any thread, a full logfile is renamed to "<name>.<ms>", and the   *)
(* archive cleaner thread deletes the oldest of the renamed files when     *)
(* together they are too large.                                            *)
(*                                                                         *)
(* The directory is a function from names to files, a name a sequence of   *)
(* symbols (the configured name of the logfile is one of them, and so is   *)
(* every digit), a file the sequence of the entries in it.  rename(), open(),   *)
(* unlink() and the scan of the directory may fail.  A thread that logs    *)
(* reads Enabled without Mutex, composes its entry, and takes Mutex.       *)
(***************************************************************************)
EXTENDS Integers, Sequences, SequencesExt, FiniteSetsExt

CONSTANTS
  Loggers,           \* the threads that log
  LogCalls,          \* the Log...() calls they make, see LogEntry
  LogPaths,          \* paths that can be configured: sequences of symbols
  OldFiles,          \* what the directory can hold when Dory starts
  MaxFileSize, MaxArchiveSize, LogPrefixLen,   \* configuration
  FirstMs,           \* when Dory starts, after any old file was named
  MaxMs,             \* bound: the clock, of one digit
  MaxCalls,          \* bound: the number of calls
  MaxFailures        \* bound: system calls that fail

ASSUME LoggerAssumption ==
  MaxFileSize \in Nat /\ MaxArchiveSize \in Nat /\ LogPrefixLen \in Nat

-----------------------------------------------------------------------------
(* Composing an entry.  A call is a record [call, reason, topic, key,      *)
(* value]; key and value are sequences.                                    *)

Prefix(buf) == SubSeq(buf, 1, IF Len(buf) > LogPrefixLen THEN LogPrefixLen ELSE Len(buf))

ComposeLogEntry(type, reason, topic, key, value) ==
  [type |-> type, reason |-> reason, topic |-> topic, key |-> key, value |-> value]

ReasonToBlurb(reason) ==
  CASE reason = "FailedDeliveryAttemptLimit" -> "DELIVERY_ATTEMPT_LIMIT"
    [] reason = "KafkaErrorAck" -> "KAFKA_ERROR_ACK"
    [] reason = "ServerShutdown" -> "SERVER_SHUTDOWN"
    [] reason = "NoAvailablePartitions" -> "NO_AVAILABLE_PARTITIONS"
    [] reason = "RateLimit" -> "RATE_LIMIT"
    [] reason = "FailedTopicAutocreate" -> "TOPIC_AUTOCREATE_FAIL"
    [] reason = "Bug" -> "BUG"

LogDiscard(c) ==
  ComposeLogEntry("DISC", ReasonToBlurb(c.reason), c.topic, Prefix(c.key), Prefix(c.value))
LogDuplicate(c) == ComposeLogEntry("DUP", "NONE", c.topic, Prefix(c.key), Prefix(c.value))
LogNoMemDiscard(c) == ComposeLogEntry("DISC", "NO_MEM", c.topic, Prefix(c.key), Prefix(c.value))
LogMalformedMsgDiscard(c) == ComposeLogEntry("DISC", "MALFORMED", "", <<>>, Prefix(c.value))
LogUncleanDisconnectMsgDiscard(c) ==
  ComposeLogEntry("DISC", IF c.reason = "Tcp" THEN "UNCLEAN_T" ELSE "UNCLEAN_U", "", <<>>, Prefix(c.value))
LogUnsupportedApiKeyDiscard(c) ==
  ComposeLogEntry("DISC", <<"API_KEY", c.reason>>, "", <<>>, Prefix(c.value))
LogUnsupportedMsgVersionDiscard(c) ==
  ComposeLogEntry("DISC", <<"VERSION", c.reason>>, "", <<>>, Prefix(c.value))
LogBadTopicDiscard(c) ==
  ComposeLogEntry("DISC", "BAD_TOPIC", c.topic, Prefix(c.key), Prefix(c.value))
LogLongMsgDiscard(c) ==
  ComposeLogEntry("DISC", "LONG_MSG", c.topic, Prefix(c.key), Prefix(c.value))

LogEntry(c) ==
  CASE c.call = "Discard" -> LogDiscard(c)
    [] c.call = "Duplicate" -> LogDuplicate(c)
    [] c.call = "NoMem" -> LogNoMemDiscard(c)
    [] c.call = "Malformed" -> LogMalformedMsgDiscard(c)
    [] c.call = "Unclean" -> LogUncleanDisconnectMsgDiscard(c)
    [] c.call = "ApiKey" -> LogUnsupportedApiKeyDiscard(c)
    [] c.call = "Version" -> LogUnsupportedMsgVersionDiscard(c)
    [] c.call = "BadTopic" -> LogBadTopicDiscard(c)
    [] c.call = "Long" -> LogLongMsgDiscard(c)

(* The size of an entry: its fixed part counts as 1.                       *)
EntrySize(e) == 1 + Len(e.key) + Len(e.value)
FileSize(file) == FoldLeft(LAMBDA n, e : n + EntrySize(e), 0, file)

-----------------------------------------------------------------------------
(* Names.                                                                  *)

LastIndexWhere(s, Test(_)) ==
  LET hits == {i \in DOMAIN s : Test(s[i])} IN IF hits = {} THEN 0 ELSE Max(hits)

(* Where the logfile is: its directory, without trailing slashes, and its  *)
(* name; or the error that is thrown.                                      *)
ParseLogPath(path) ==
  LET slash == LastIndexWhere(path, LAMBDA c : c = "/")
      last == LastIndexWhere(SubSeq(path, 1, slash), LAMBDA c : c # "/")
  IN [error |-> CASE path = <<>> -> "TInvalidDiscardLogPath"
                  [] path # <<>> /\ path[1] # "/" -> "TDiscardLogPathMustBeAbsolute"
                  [] path # <<>> /\ path[1] = "/" /\ slash = Len(path) -> "TDiscardLogPathIsDir"
                  [] OTHER -> "",
      dir |-> SubSeq(path, 1, IF last = 0 /\ slash > 0 THEN 1 ELSE last),
      filename |-> SubSeq(path, slash + 1, Len(path))]

Digits == <<"0", "1", "2", "3", "4", "5", "6", "7", "8", "9">>
DigitValue(d) == CHOOSE n \in 0 .. 9 : Digits[n + 1] = d
DecimalValue(s) == FoldLeft(LAMBDA n, d : 10 * n + DigitValue(d), 0, s)

(* The old logfiles of a directory: those called "<filename>.<digits>".    *)
GetOldLogFileSizes(dir, filename) ==
  LET n == Len(filename)
      Old(name) == /\ Len(name) > n + 1
                   /\ SubSeq(name, 1, n) = filename /\ name[n + 1] = "."
                   /\ \A i \in n + 2 .. Len(name) : name[i] \in ToSet(Digits)
  IN {[path |-> name, size |-> FileSize(dir[name]),
       ms |-> DecimalValue(SubSeq(name, n + 2, Len(name)))] : name \in {x \in DOMAIN dir : Old(x)}}

TotalSize(infos) == FoldSet(LAMBDA i, n : n + i.size, 0, infos)

-----------------------------------------------------------------------------
VARIABLES
  files,             \* the directory of the logfile
  ms,                \* GetEpochMilliseconds()
  Enabled, LogFd, LogPath,   \* LogFd: open or not
  mutex,             \* "Free" or "Shutdown"; the other holders are atomic
  logging,           \* per thread: the entry it is about to write
  cleaner,           \* "None", "Poll", "Scan", "Unlink", "Ended"
  CleanRequestSem, ShutdownRequested,
  doomed, total,     \* HandleCleanRequest: the files left to look at, total_size
  dory,              \* "Init", "Running", "Down", "Failed" (exits), "Died"
  calls, failures,
  written, dropped,  \* history: the entries written; those the cleaner deleted
  kept               \* history: the files whose unlink() failed

loggerVars == <<files, ms, Enabled, LogFd, LogPath, mutex, logging, cleaner, CleanRequestSem,
                ShutdownRequested, doomed, total, dory, calls, failures, written, dropped, kept>>
fileVars == <<files, LogFd, Enabled>>
cleanerVars == <<cleaner, ShutdownRequested, doomed, total>>
history == <<dropped, kept>>

None == [none |-> TRUE]

LoggerInit ==
  /\ files \in OldFiles
  /\ ms = FirstMs /\ Enabled = FALSE /\ LogFd = FALSE /\ LogPath = <<>> /\ mutex = "Free"
  /\ logging = [t \in Loggers |-> None]
  /\ cleaner = "None" /\ CleanRequestSem = 0 /\ ShutdownRequested = FALSE
  /\ doomed = {} /\ total = 0
  /\ dory = "Init" /\ calls = 0 /\ failures = 0 /\ written = <<>> /\ dropped = {} /\ kept = {}

MayFail(n) == failures + n <= MaxFailures

LoggerTick ==
  /\ dory = "Running" /\ ms < MaxMs
  /\ ms' = ms + 1
  /\ UNCHANGED <<fileVars, LogPath, mutex, logging, cleanerVars, CleanRequestSem, dory, calls,
                 failures, written, history>>

PutFile(dir, name, file) ==
  [n \in DOMAIN dir \cup {name} |-> IF n = name THEN file ELSE dir[n]]
DropFile(dir, name) == [n \in DOMAIN dir \ {name} |-> dir[n]]

(* open() with O_CREAT | O_APPEND, which may fail.                         *)
OpenLogPath(dir, name) ==
  [open : {TRUE}, dir : {IF name \in DOMAIN dir THEN dir ELSE PutFile(dir, name, <<>>)},
   failed : {0}]
  \cup [open : {FALSE}, dir : {dir}, failed : {1}]

(* What CheckMaxFileSize can do about an entry of this size: nothing, or   *)
(* rename the logfile, which may fail, and open a new one, which may fail. *)
(* With a logfile that is not open it knows nothing of its size.           *)
CheckMaxFileSize(dir, name, size) ==
  LET now == IF name \in DOMAIN dir THEN FileSize(dir[name]) ELSE 0
      archive == name \o <<".", Digits[ms + 1]>>
  IN IF now <= MaxFileSize /\ MaxFileSize - now >= size
       THEN {[rotated |-> FALSE, enabled |-> TRUE, open |-> TRUE, dir |-> dir, failed |-> 0]}
       ELSE {[rotated |-> o.open, enabled |-> TRUE, open |-> o.open, dir |-> o.dir,
              failed |-> o.failed] :
               o \in OpenLogPath(DropFile(PutFile(dir, archive, dir[name]), name), name)}
            \cup {[rotated |-> FALSE, enabled |-> FALSE, open |-> FALSE, dir |-> dir,
                   failed |-> 1]}

(* TDiscardFileLogger::Init: before any other thread can log.              *)
StartLogger ==
  /\ dory = "Init"
  /\ \E path \in LogPaths : LET p == ParseLogPath(path) IN
       /\ LogPath' = path
       /\ IF p.error # ""
            THEN /\ dory' = "Failed"
                 /\ UNCHANGED <<fileVars, cleaner, CleanRequestSem, failures>>
            ELSE /\ dory' = "Running"
                 /\ \E o \in OpenLogPath(files, p.filename) :
                      IF ~o.open
                        THEN /\ MayFail(o.failed) /\ failures' = failures + o.failed
                             /\ UNCHANGED <<fileVars, cleaner, CleanRequestSem>>
                        ELSE \E c \in CheckMaxFileSize(o.dir, p.filename, 0) :
                               /\ MayFail(c.failed) /\ failures' = failures + c.failed
                               /\ files' = c.dir /\ LogFd' = c.open /\ Enabled' = c.enabled
                               /\ cleaner' = "Poll" /\ CleanRequestSem' = 1
  /\ UNCHANGED <<ms, mutex, logging, ShutdownRequested, doomed, total, calls, written, history>>

LogName == ParseLogPath(LogPath).filename

(* A Log...() function: the test without Mutex, and the entry.             *)
StartLogging(t) ==
  /\ dory = "Running" /\ logging[t] = None /\ calls < MaxCalls
  /\ Enabled
  /\ \E c \in LogCalls : logging' = [logging EXCEPT ![t] = LogEntry(c)]
  /\ calls' = calls + 1
  /\ UNCHANGED <<fileVars, ms, LogPath, mutex, cleanerVars, CleanRequestSem, dory, failures,
                 written, history>>

(* WriteToLog: its write() with a closed descriptor fails with EBADF,      *)
(* which Wr::write treats as fatal; an uninitialized size can go either    *)
(* way but always ends there, too.                                         *)
WriteToLog(t) ==
  /\ dory = "Running" /\ logging[t] # None /\ mutex = "Free"
  /\ logging' = [logging EXCEPT ![t] = None]
  /\ IF ~Enabled
       THEN UNCHANGED <<fileVars, CleanRequestSem, dory, failures, written>>
       ELSE IF ~LogFd
       THEN dory' = "Died" /\ UNCHANGED <<fileVars, CleanRequestSem, failures, written>>
       ELSE \E c \in CheckMaxFileSize(files, LogName, EntrySize(logging[t])) :
              /\ MayFail(c.failed) /\ failures' = failures + c.failed
              /\ IF c.rotated /\ cleaner = "Ended"
                   THEN /\ files' = c.dir /\ Enabled' = FALSE /\ LogFd' = FALSE
                        /\ UNCHANGED <<CleanRequestSem, dory, written>>
                   ELSE /\ CleanRequestSem' = CleanRequestSem + (IF c.rotated THEN 1 ELSE 0)
                        /\ Enabled' = c.enabled /\ LogFd' = c.open
                        /\ IF c.open
                             THEN /\ files' = [c.dir EXCEPT ![LogName] = Append(@, logging[t])]
                                  /\ written' = Append(written, logging[t])
                                  /\ UNCHANGED dory
                             ELSE files' = c.dir /\ dory' = "Died" /\ UNCHANGED written
  /\ UNCHANGED <<ms, LogPath, mutex, cleanerVars, calls, history>>

-----------------------------------------------------------------------------
(* The archive cleaner.                                                    *)

(* DoRun: a shutdown request is looked at first.                           *)
CleanerPoll ==
  /\ dory \in {"Running", "Down"} /\ cleaner = "Poll"
  /\ \/ ShutdownRequested /\ cleaner' = "Ended" /\ UNCHANGED CleanRequestSem
     \/ /\ ~ShutdownRequested /\ CleanRequestSem > 0
        /\ CleanRequestSem' = CleanRequestSem - 1
        /\ cleaner' = "Scan"
  /\ UNCHANGED <<fileVars, ms, LogPath, mutex, logging, ShutdownRequested, doomed, total, dory,
                 calls, failures, written, history>>

(* Mutant: one byte too many is left alone.                                *)
CleanerScanOffByOne ==
  /\ dory \in {"Running", "Down"} /\ cleaner = "Scan"
  /\ LET infos == GetOldLogFileSizes(files, LogName)
     IN IF TotalSize(infos) <= MaxArchiveSize + 1
          THEN cleaner' = "Poll" /\ UNCHANGED <<doomed, total>>
          ELSE cleaner' = "Unlink" /\ doomed' = infos /\ total' = TotalSize(infos)
  /\ UNCHANGED <<fileVars, ms, LogPath, mutex, logging, CleanRequestSem, ShutdownRequested, dory,
                 calls, failures, written, history>>

(* HandleCleanRequest looks at the directory.                              *)
CleanerScan ==
  /\ dory \in {"Running", "Down"} /\ cleaner = "Scan"
  /\ \/ /\ LET infos == GetOldLogFileSizes(files, LogName)
           IN IF TotalSize(infos) <= MaxArchiveSize
                THEN cleaner' = "Poll" /\ UNCHANGED <<doomed, total>>
                ELSE cleaner' = "Unlink" /\ doomed' = infos /\ total' = TotalSize(infos)
        /\ UNCHANGED failures
     \/ /\ MayFail(1) /\ failures' = failures + 1
        /\ cleaner' = "Ended" /\ UNCHANGED <<doomed, total>>
  /\ UNCHANGED <<fileVars, ms, LogPath, mutex, logging, CleanRequestSem, ShutdownRequested, dory,
                 calls, written, history>>

Oldest(infos) == {i \in infos : \A j \in infos : i.ms <= j.ms}

(* It deletes from oldest to newest until the rest is small enough; with   *)
(* nothing left to delete it gives up, and the cleaner ends.  std::sort    *)
(* leaves files of the same time in any order.                             *)
CleanerUnlink ==
  /\ dory \in {"Running", "Down"} /\ cleaner = "Unlink"
  /\ \/ /\ doomed = {}
        /\ cleaner' = "Ended" /\ total' = 0
        /\ UNCHANGED <<files, doomed, failures, dropped, kept>>
     \/ \E i \in Oldest(doomed) :
          LET left == total - i.size
              done == left <= MaxArchiveSize
          IN \/ /\ files' = DropFile(files, i.path)
                /\ dropped' = dropped \cup {i}
                /\ doomed' = IF done THEN {} ELSE doomed \ {i}
                /\ total' = IF done THEN 0 ELSE left
                /\ cleaner' = IF done THEN "Poll" ELSE "Unlink"
                /\ UNCHANGED <<failures, kept>>
             \/ /\ MayFail(1) /\ failures' = failures + 1
                /\ kept' = kept \cup {i.path}
                /\ doomed' = doomed \ {i}
                /\ UNCHANGED <<files, total, cleaner, dropped>>
  /\ UNCHANGED <<LogFd, Enabled, ms, LogPath, mutex, logging, CleanRequestSem, ShutdownRequested,
                 dory, calls, written>>

-----------------------------------------------------------------------------
(* Shutdown() holds Mutex until the cleaner has ended.                     *)

StartShutdown ==
  /\ dory = "Running" /\ mutex = "Free"
  /\ Enabled' = FALSE /\ LogFd' = FALSE
  /\ IF cleaner = "None" THEN UNCHANGED <<mutex, ShutdownRequested>> /\ dory' = "Down"
     ELSE mutex' = "Shutdown" /\ ShutdownRequested' = TRUE /\ UNCHANGED dory
  /\ UNCHANGED <<files, ms, LogPath, logging, cleaner, doomed, total, CleanRequestSem, calls,
                 failures, written, history>>

FinishShutdown ==
  /\ dory = "Running" /\ mutex = "Shutdown" /\ cleaner = "Ended"
  /\ mutex' = "Free" /\ cleaner' = "None" /\ dory' = "Down"
  /\ CleanRequestSem' = 0 /\ ShutdownRequested' = FALSE
  /\ UNCHANGED <<fileVars, ms, LogPath, logging, doomed, total, calls, failures, written, history>>

LoggerStopped ==
  /\ dory \in {"Down", "Failed", "Died"}
  /\ UNCHANGED loggerVars

LoggerNext ==
  \/ LoggerTick \/ StartLogger \/ StartShutdown \/ FinishShutdown \/ LoggerStopped
  \/ CleanerPoll \/ CleanerScan \/ CleanerUnlink
  \/ \E t \in Loggers : StartLogging(t) \/ WriteToLog(t)
===============================================================================
