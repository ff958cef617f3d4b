-------------------------------- MODULE MsgDebug --------------------------------
(***************************************************************************)
(* The debug logfiles (debug/debug_setup.cc, debug/debug_logger.cc).  The  *)
(* web server's thread replaces the settings, an object with a version, a  *)
(* set of topics, open files and a number of bytes that may be logged; the *)
(* threads that handle messages log them through TDebugLogger objects that *)
(* keep the settings they have until they see that the version changed.    *)
(*                                                                         *)
(* A file is a name <<log id, version>> for the one that the settings of   *)
(* that version created, and what is in it; a path names at most one file. *)
(***************************************************************************)
EXTENDS Integers, Sequences, SequencesExt

CONSTANTS
  Topics,
  LogIds,                  \* MSG_RECEIVE, MSG_SEND, MSG_GOT_ACK
  DebugLoggers,            \* TDebugLogger objects, each used by one thread
  LogIdOf,                 \* the log each one writes
  KillSwitchLimitSeconds, KillSwitchLimitBytes,   \* configuration
  CheckEvery,              \* 1024: how many messages between two looks at the clock
  MaxVersion, MaxLogged, MaxSeconds, MaxOpenFailures   \* bounds

AllTopics == {"all topics"}     \* a null DebugTopics
NoFile == <<>>

EnableIsSpecified(topics) == topics # {}

TSettings(version, topics, fds) ==
  [Version |-> version, DebugTopics |-> topics, LoggingEnabled |-> EnableIsSpecified(topics),
   LogFds |-> fds, BytesRemaining |-> KillSwitchLimitBytes]

VARIABLES
  Settings,          \* every TSettings object, by version; the last is the current one
  debugPath,         \* per log: the file its path names
  debugData,         \* what was logged in each file: <<topic, version>>
  debugLogger,       \* per logger: LogFd, Version, LoggingEnabled, EnabledAt, MsgCount
  debugMsg,          \* per logger: the message it is about to write
  seconds, openFailures, debugDied

debugVars == <<Settings, debugPath, debugData, debugLogger, debugMsg, seconds, openFailures,
               debugDied>>

Current == Settings[Len(Settings)]
NoMsg == [begun |-> 0]
ByteCount(m) == 1

TDebugLogger == [LogFd |-> NoFile, Version |-> 1, LoggingEnabled |-> FALSE, EnabledAt |-> 0,
                 MsgCount |-> 0]

TDebugSetup == <<TSettings(1, {}, [id \in LogIds |-> NoFile])>>

DebugInit ==
  /\ Settings = TDebugSetup
  /\ debugPath = [id \in LogIds |-> NoFile]
  /\ debugData = <<>>
  /\ debugLogger = [l \in DebugLoggers |-> TDebugLogger]
  /\ debugMsg = [l \in DebugLoggers |-> NoMsg]
  /\ seconds = 0 /\ openFailures = 0 /\ debugDied = FALSE

SecondPasses ==
  /\ ~debugDied /\ seconds < MaxSeconds
  /\ seconds' = seconds + 1
  /\ UNCHANGED <<Settings, debugPath, debugData, debugLogger, debugMsg, openFailures, debugDied>>


DeleteOldDebugFiles(paths) == [id \in LogIds |-> NoFile]

(* OpenDebugFile for each log; open() of those in 'failing' fails.         *)
OpenDebugFiles(paths, version, failing) ==
  [id \in LogIds |-> IF id \in failing THEN NoFile
                     ELSE IF paths[id] # NoFile THEN paths[id] ELSE <<id, version>>]

(* New settings: the old files are deleted if this is what starts logging. *)
(* The files that are there are opened, the others created.                *)
ReplaceSettings(topics) ==
  LET version == Len(Settings) + 1
      start == EnableIsSpecified(topics) /\ ~Current.LoggingEnabled
      paths == IF start THEN DeleteOldDebugFiles(debugPath) ELSE debugPath
  IN \E failing \in SUBSET LogIds :
       LET fds == OpenDebugFiles(paths, version, failing) IN
       /\ version <= MaxVersion
       /\ failing # {} => EnableIsSpecified(topics) /\ openFailures < MaxOpenFailures
       /\ openFailures' = IF failing = {} THEN openFailures ELSE openFailures + 1
       /\ IF EnableIsSpecified(topics)
            THEN /\ Settings' = Append(Settings, TSettings(version, topics, fds))
                 /\ debugPath' = [id \in LogIds |-> IF fds[id] # NoFile THEN fds[id]
                                                    ELSE paths[id]]
                 /\ debugData' = [f \in DOMAIN debugData \cup ({fds[id] : id \in LogIds} \ {NoFile})
                                    |-> IF f \in DOMAIN debugData THEN debugData[f] ELSE <<>>]
            ELSE /\ Settings' = Append(Settings, TSettings(version, topics,
                                                           [id \in LogIds |-> NoFile]))
                 /\ UNCHANGED <<debugPath, debugData>>
  /\ UNCHANGED <<debugLogger, debugMsg, seconds, debugDied>>

AddDebugTopic(topic) ==
  /\ Current.DebugTopics # AllTopics /\ topic \notin Current.DebugTopics
  /\ ReplaceSettings(Current.DebugTopics \cup {topic})

DelDebugTopic(topic) ==
  /\ Current.DebugTopics # AllTopics /\ topic \in Current.DebugTopics
  /\ ReplaceSettings(Current.DebugTopics \ {topic})

SetDebugTopics(topics) == ReplaceSettings(topics)

ClearDebugTopics == SetDebugTopics({})

TruncateDebugFiles ==
  /\ debugData' = [f \in DOMAIN debugData |->
                     IF \E id \in LogIds : debugPath[id] = f THEN <<>> ELSE debugData[f]]
  /\ UNCHANGED <<Settings, debugPath, debugLogger, debugMsg, seconds, openFailures, debugDied>>

EnableLogging(lg, fd) ==
  [lg EXCEPT !.EnabledAt = seconds, !.MsgCount = 0, !.LogFd = fd, !.LoggingEnabled = fd # NoFile]

DisableLogging(lg) == [lg EXCEPT !.LogFd = NoFile, !.LoggingEnabled = FALSE]

(* The first part of LogMsg: the logger takes over new settings.           *)
Refresh(lg, id) ==
  LET new == [lg EXCEPT !.LogFd = Current.LogFds[id], !.Version = Current.Version]
  IN CASE lg.Version = Current.Version -> lg
       [] lg.Version # Current.Version /\ Current.LoggingEnabled = lg.LoggingEnabled -> new
       [] lg.Version # Current.Version /\ Current.LoggingEnabled # lg.LoggingEnabled ->
            IF Current.LoggingEnabled THEN EnableLogging(new, Current.LogFds[id])
            ELSE DisableLogging(new)

Logged == FoldLeft(LAMBDA n, v : n + KillSwitchLimitBytes - v.BytesRemaining, 0, Settings)

(* LogMsg up to its request for bytes: stops here when logging is off, or  *)
(* when it has been on for too long.                                       *)
StartLogMsg(l, topic) ==
  LET lg == Refresh(debugLogger[l], LogIdOf[l])
      count == (lg.MsgCount + 1) % CheckEvery
      expired == count = 0 /\ seconds - lg.EnabledAt >= KillSwitchLimitSeconds
  IN /\ ~debugDied /\ debugMsg[l] = NoMsg /\ Logged < MaxLogged
     /\ CASE ~lg.LoggingEnabled -> /\ debugLogger' = [debugLogger EXCEPT ![l] = lg]
                                   /\ UNCHANGED debugMsg
          [] lg.LoggingEnabled /\ expired ->
               /\ debugLogger' = [debugLogger EXCEPT
                                    ![l] = DisableLogging([lg EXCEPT !.MsgCount = count])]
               /\ UNCHANGED debugMsg
          [] lg.LoggingEnabled /\ ~expired ->
               /\ debugLogger' = [debugLogger EXCEPT ![l] = [lg EXCEPT !.MsgCount = count]]
               /\ debugMsg' = [debugMsg EXCEPT
                                 ![l] = [topic |-> topic, begun |-> Current.Version]]
     /\ UNCHANGED <<Settings, debugPath, debugData, seconds, openFailures, debugDied>>

RequestLogBytes(s, n) ==
  IF s.BytesRemaining < n THEN [granted |-> FALSE, settings |-> s]
  ELSE [granted |-> TRUE, settings |-> [s EXCEPT !.BytesRemaining = @ - n]]

(* The rest of LogMsg.  write() on a file that could not be opened fails   *)
(* with EBADF, which Wr::write treats as fatal.                            *)
FinishLogMsg(l) ==
  LET lg == debugLogger[l]
      req == RequestLogBytes(Settings[lg.Version], ByteCount(debugMsg[l]))
  IN /\ ~debugDied /\ debugMsg[l] # NoMsg
     /\ debugMsg' = [debugMsg EXCEPT ![l] = NoMsg]
     /\ Settings' = [Settings EXCEPT ![lg.Version] = req.settings]
     /\ CASE ~req.granted -> /\ debugLogger' = [debugLogger EXCEPT ![l] = DisableLogging(lg)]
                             /\ UNCHANGED <<debugData, debugDied>>
          [] req.granted /\ lg.LogFd = NoFile -> /\ debugDied' = TRUE
                                                 /\ UNCHANGED <<debugLogger, debugData>>
          [] req.granted /\ lg.LogFd # NoFile ->
               /\ debugData' = [debugData EXCEPT
                    ![lg.LogFd] = Append(@, [topic |-> debugMsg[l].topic, version |-> lg.Version])]
               /\ UNCHANGED <<debugLogger, debugDied>>
     /\ UNCHANGED <<debugPath, seconds, openFailures>>
===============================================================================
