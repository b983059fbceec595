------------------------------ MODULE VmDebug ------------------------------
(***************************************************************************)
(* The log file of vm_debug_linux32.c (vm_debug_win32.c is the same text), *)
(* in a build that defines VM_DEBUG: which stream the traces go to, and    *)
(* what the files keep.  A message is counted, its text is left out.       *)
(* There is no lock (it is commented out): one thread traces.              *)
(***************************************************************************)
EXTENDS Integers

CONSTANTS
  LogName,      \* file names; the empty one is NoName
  FirstName,    \* "\\vm_debug_log.txt", the initial vm_LogFileName
  NoName,
  Stream,       \* the FILEs of the C library, and NoStream for NULL
  NoStream,
  Level,        \* the bits of VM_DEBUG_LOG_ALL
  MaxTraces     \* bound: messages in a file

ASSUME DebugAssumption ==
  /\ FirstName \in LogName /\ NoName \notin LogName /\ NoStream \notin Stream
  /\ MaxTraces \in Nat

VARIABLES
  vm_DebugLevel,    \* the levels traced
  vm_DebugOutput,   \* TRUE: VM_DEBUG_FILE is among the outputs
  vm_LogFileName,
  vm_LogFile,
  streams,          \* the file each stream is open on, or NoName
  logs,             \* the messages of this program in each file
  older,            \* the files that hold messages of earlier programs
  kept,             \* history: what belongs there, until an open failed
  openFailed        \* history: a file could not be opened

debugVars == <<vm_DebugLevel, vm_DebugOutput, vm_LogFileName, vm_LogFile,
               streams, logs, older, kept, openFailed>>

DebugTypeOK ==
  /\ vm_DebugLevel \subseteq Level /\ vm_DebugOutput \in BOOLEAN
  /\ vm_LogFileName \in LogName \union {NoName}
  /\ vm_LogFile \in Stream \union {NoStream}
  /\ streams \in [Stream -> LogName \union {NoName}]
  /\ logs \in [LogName -> Nat] /\ kept \in [LogName -> Nat]
  /\ older \subseteq LogName
  /\ openFailed \in BOOLEAN

\* Any file may be there from before.
DebugInit ==
  /\ vm_DebugLevel = Level /\ vm_DebugOutput = FALSE
  /\ vm_LogFileName = FirstName /\ vm_LogFile = NoStream
  /\ streams = [s \in Stream |-> NoName]
  /\ logs = [n \in LogName |-> 0] /\ kept = logs
  /\ older \in SUBSET LogName
  /\ openFailed = FALSE

-----------------------------------------------------------------------------
SetLevel(levels) ==
  /\ vm_DebugLevel' = levels
  /\ UNCHANGED <<vm_DebugOutput, vm_LogFileName, vm_LogFile, streams, logs, older, kept,
                 openFailed>>

SetOutput(file) ==
  /\ vm_DebugOutput' = file
  /\ UNCHANGED <<vm_DebugLevel, vm_LogFileName, vm_LogFile, streams, logs, older, kept,
                 openFailed>>

Emptied(l, n, truncate) == IF truncate /\ n # NoName THEN [l EXCEPT ![n] = 0] ELSE l

BugCloseLog == streams

\* fclose(vm_LogFile), if there is one.
CloseLog == [s \in Stream |-> IF s = vm_LogFile THEN NoName ELSE streams[s]]

BugSetFile(name, truncate, s) ==
  /\ name # vm_LogFileName /\ s = NoStream
  /\ vm_LogFileName' = name
  /\ vm_LogFile' = s
  /\ streams' = CloseLog
  /\ logs' = Emptied(logs, name, truncate) /\ kept' = Emptied(kept, name, truncate)
  /\ older' = IF truncate THEN older \ {name} ELSE older
  /\ UNCHANGED <<vm_DebugLevel, vm_DebugOutput, openFailed>>

\* vm_debug_setfile: the name it has already changes nothing, "" ends the log.
SetFile(name, truncate, s) ==
  /\ name # vm_LogFileName
  /\ vm_LogFileName' = name
  /\ vm_LogFile' = s
  /\ openFailed' = (openFailed \/ (name # NoName /\ s = NoStream))
  /\ IF s = NoStream
       THEN streams' = CloseLog /\ UNCHANGED <<logs, older>>
       ELSE /\ name # NoName /\ CloseLog[s] = NoName
            /\ streams' = [CloseLog EXCEPT ![s] = name]
            /\ logs' = Emptied(logs, name, truncate)
            /\ older' = IF truncate THEN older \ {name} ELSE older
  /\ kept' = IF openFailed' THEN kept ELSE Emptied(kept, name, truncate)
  /\ UNCHANGED <<vm_DebugLevel, vm_DebugOutput>>

\* level 0 passes whatever vm_DebugLevel is.
Traced(level) == vm_DebugOutput /\ (level = {} \/ level \cap vm_DebugLevel # {})

\* One message more for the file the user has named.
Noted == IF openFailed' \/ vm_LogFileName = NoName
           THEN kept ELSE [kept EXCEPT ![vm_LogFileName] = @ + 1]

\* vm_debug_trace_ex opens the file when there is none open, and empties it of
\* what earlier programs have left there, whatever vm_debug_setfile was told.
TraceOpens(level, s) ==
  /\ Traced(level) /\ vm_LogFile = NoStream
  /\ vm_LogFile' = s
  /\ openFailed' = (openFailed \/ (vm_LogFileName # NoName /\ s = NoStream))
  /\ IF s = NoStream
       THEN UNCHANGED <<streams, logs, older>>
       ELSE /\ vm_LogFileName # NoName /\ streams[s] = NoName
            /\ streams' = [streams EXCEPT ![s] = vm_LogFileName]
            /\ logs' = [logs EXCEPT ![vm_LogFileName] = 1]
            /\ older' = older \ {vm_LogFileName}
  /\ kept' = Noted
  /\ UNCHANGED <<vm_DebugLevel, vm_DebugOutput, vm_LogFileName>>

\* What is written to a stream that is closed is lost.
Trace(level) ==
  /\ Traced(level) /\ vm_LogFile # NoStream
  /\ UNCHANGED <<older, openFailed>>
  /\ LET n == streams[vm_LogFile] IN
       IF n = NoName THEN UNCHANGED logs
       ELSE logs[n] < MaxTraces /\ logs' = [logs EXCEPT ![n] = @ + 1]
  /\ kept' = Noted
  /\ UNCHANGED <<vm_DebugLevel, vm_DebugOutput, vm_LogFileName, vm_LogFile, streams>>

DebugNext ==
  \/ \E levels \in SUBSET Level : SetLevel(levels)
  \/ \E file \in BOOLEAN : SetOutput(file)
  \/ \E n \in LogName \union {NoName}, t \in BOOLEAN, s \in Stream \union {NoStream} :
       SetFile(n, t, s)
  \/ \E level \in {{}} \union {{l} : l \in Level} :
       \/ Trace(level)
       \/ \E s \in Stream \union {NoStream} : TraceOpens(level, s)

DebugSpec == DebugInit /\ [][DebugNext]_debugVars

-----------------------------------------------------------------------------
\* Through any changes of the log file, no message goes to a stream of
\* another file or to a closed one and no stream is left open; and as long as
\* files can be opened, no message of this program is lost but what a
\* truncation asked to drop: going back to a file adds to it.
LogsKept ==
  /\ \A s \in Stream : streams[s] # NoName => s = vm_LogFile /\ streams[s] = vm_LogFileName
  /\ ~openFailed => logs = kept

\* What earlier programs have left: as long as files can be opened, only a
\* vm_debug_setfile told to truncate takes it out of a file, and the first trace
\* to the file the program starts with.  That one exception contradicts "append
\* to a debug file" (vm_debug.h on VM_DEBUG_FILE).
OlderKept ==
  [][~openFailed' => \/ older \ older' \subseteq {FirstName}
                     \/ \E n \in LogName, s \in Stream : SetFile(n, TRUE, s)]_debugVars
=============================================================================
