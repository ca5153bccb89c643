------------------------------ MODULE LogWriter ------------------------------
(***************************************************************************)
(* LogWriter.cpp: threads write lines into log files.  get_appender looks  *)
(* the file's appender up under the shared side of m_lock and, when it is  *)
(* not there, once more under the exclusive side, where it is made.  The   *)
(* first thread to make one loads LogConfig.ini, the switch for debug      *)
(* lines included, which every call reads without a lock.                  *)
(*                                                                         *)
(* An appender writes the lines itself or, with Async, has a queue and a   *)
(* thread; both are log4cplus.                                             *)
(***************************************************************************)
EXTENDS Naturals, Sequences

CONSTANTS
    Threads,
    Paths,          \* the log files
    NoPath,         \* logPath = nullptr
    None,           \* no thread, no line
    Calls,          \* the calls made: see Call
    QueueLimit,     \* the 100 of AsyncAppender
    Stuck,          \* files whose disk takes no line for a while, or ever
    MaxLines        \* bound: lines written in a behaviour

\* path; level Debug or another; narrow: WriteLogA and the narrow WriteLog, which
\* end in the wide one; fits: the text, formatted, fits szBuffer.
Call == [path : Paths \cup {NoPath}, debug : BOOLEAN, narrow : BOOLEAN, fits : BOOLEAN]

ASSUME LogAssumption ==
    /\ NoPath \notin Paths /\ None \notin Threads
    /\ Calls \subseteq Call
    /\ QueueLimit \in Nat \ {0} /\ MaxLines \in Nat
    /\ Stuck \subseteq Paths

VARIABLES
    ini,            \* LogConfig.ini: EnableDebug and Async
    enableDebug,    \* enable_debug_log
    asyncLog,       \* async_log
    once,           \* flag has been called
    readers,        \* the threads that hold m_lock shared
    writer,         \* the thread that holds it exclusively, or none
    appendList,     \* append_list: a path's appender, by its number, 0 without
    appenders,      \* every appender made: its path, queue, and whether it has one
    file,           \* the lines in each file
    pc,             \* where a thread is
    line,           \* the line it writes
    mine,           \* its appenderPtr
    count           \* the lines written so far

settings == <<ini, enableDebug, asyncLog, once>>
lockVars == <<readers, writer>>
registry == <<appendList, appenders>>
threadVars == <<pc, line, mine, count>>
vars == <<settings, lockVars, registry, file, threadVars>>

Line == [thread : Threads, n : 1 .. MaxLines, call : Calls]
Appender == [path : Paths, async : BOOLEAN, queue : Seq(Line)]

TypeOK ==
    /\ ini \in [debug : BOOLEAN, async : BOOLEAN]
    /\ enableDebug \in BOOLEAN /\ asyncLog \in BOOLEAN /\ once \in BOOLEAN
    /\ readers \subseteq Threads /\ writer \in Threads \cup {None}
    /\ appenders \in Seq(Appender)
    /\ appendList \in [Paths -> 0 .. Len(appenders)]
    /\ file \in [Paths -> Seq(Line)]
    /\ pc \in [Threads -> {"idle", "level", "again", "format", "path", "find",
                           "exclusive", "findAgain", "config", "make", "emplace",
                           "append"}]
    /\ line \in [Threads -> Line \cup {None}]
    /\ mine \in [Threads -> 0 .. Len(appenders)]
    /\ count \in 0 .. MaxLines

\* The static objects; what LogConfig.ini says is not known.
Init ==
    /\ ini \in [debug : BOOLEAN, async : BOOLEAN]
    /\ enableDebug = FALSE /\ asyncLog = TRUE /\ once = FALSE
    /\ readers = {} /\ writer = None
    /\ appendList = [p \in Paths |-> 0] /\ appenders = <<>>
    /\ file = [p \in Paths |-> <<>>]
    /\ pc = [t \in Threads |-> "idle"]
    /\ line = [t \in Threads |-> None]
    /\ mine = [t \in Threads |-> 0]
    /\ count = 0

Path(t) == line[t].call.path
Goto(t, label) == pc' = [pc EXCEPT ![t] = label]

\* The call returns, and its locals are gone.
Return(t) ==
    /\ pc' = [pc EXCEPT ![t] = "idle"]
    /\ line' = [line EXCEPT ![t] = None]
    /\ mine' = [mine EXCEPT ![t] = 0]

-----------------------------------------------------------------------------
(* WriteLogA, WriteLogW, WriteLog                                          *)

WriteLog(t) ==
    /\ pc[t] = "idle" /\ count < MaxLines
    /\ count' = count + 1
    /\ \E c \in Calls :
          line' = [line EXCEPT ![t] = [thread |-> t, n |-> count', call |-> c]]
    /\ Goto(t, "level")
    /\ UNCHANGED <<settings, lockVars, registry, file, mine>>

\* A debug line, while debugging is off as far as this thread sees.
DropDebug(t) ==
    /\ pc[t] \in {"level", "again"} /\ line[t].call.debug /\ ~enableDebug
    /\ Return(t)
    /\ UNCHANGED <<settings, lockVars, registry, file, count>>

PassLevel(t) ==
    /\ pc[t] \in {"level", "again"} /\ (line[t].call.debug => enableDebug)
    /\ Goto(t, IF pc[t] = "level" THEN "format" ELSE "path")
    /\ UNCHANGED <<settings, lockVars, registry, file, line, mine, count>>

\* _vsnprintf_s returns -1 for a text that it had to cut off, so the whole line
\* goes; a narrow text is made wide, and its level is looked at once more.
CutOff(t) ==
    /\ pc[t] = "format" /\ ~line[t].call.fits
    /\ Return(t)
    /\ UNCHANGED <<settings, lockVars, registry, file, count>>

Format(t) ==
    /\ pc[t] = "format" /\ line[t].call.fits
    /\ Goto(t, IF line[t].call.narrow THEN "again" ELSE "path")
    /\ UNCHANGED <<settings, lockVars, registry, file, line, mine, count>>

-----------------------------------------------------------------------------
(* internal_writer and get_appender                                        *)

NullPath(t) ==
    /\ pc[t] = "path" /\ Path(t) = NoPath
    /\ Return(t)
    /\ UNCHANGED <<settings, lockVars, registry, file, count>>

LockShared(t) ==
    /\ pc[t] = "path" /\ Path(t) # NoPath
    /\ writer = None
    /\ readers' = readers \cup {t}
    /\ Goto(t, "find")
    /\ UNCHANGED <<settings, writer, registry, file, line, mine, count>>

\* Mutant: the shared lock is kept when the appender is found.
FindKeepsLock(t) ==
    /\ pc[t] = "find"
    /\ mine' = [mine EXCEPT ![t] = appendList[Path(t)]]
    /\ readers' = IF appendList[Path(t)] = 0 THEN readers \ {t} ELSE readers
    /\ Goto(t, IF appendList[Path(t)] = 0 THEN "exclusive" ELSE "append")
    /\ UNCHANGED <<settings, writer, registry, file, line, count>>

\* Found or not, the shared lock goes with the block.
Find(t) ==
    /\ pc[t] = "find"
    /\ mine' = [mine EXCEPT ![t] = appendList[Path(t)]]
    /\ readers' = readers \ {t}
    /\ Goto(t, IF appendList[Path(t)] = 0 THEN "exclusive" ELSE "append")
    /\ UNCHANGED <<settings, writer, registry, file, line, count>>

\* Mutant: the threads that hold m_lock shared are not waited for.
LockExclusiveNoWait(t) ==
    /\ pc[t] = "exclusive"
    /\ writer = None
    /\ writer' = t
    /\ Goto(t, "findAgain")
    /\ UNCHANGED <<settings, readers, registry, file, line, mine, count>>

LockExclusive(t) ==
    /\ pc[t] = "exclusive"
    /\ writer = None /\ readers = {}
    /\ writer' = t
    /\ Goto(t, "findAgain")
    /\ UNCHANGED <<settings, readers, registry, file, line, mine, count>>

\* Mutant: what the first look found is not asked again.
FindAgainNot(t) ==
    /\ pc[t] = "findAgain"
    /\ Goto(t, "config")
    /\ UNCHANGED <<settings, lockVars, registry, file, line, mine, count>>

FindAgain(t) ==
    /\ pc[t] = "findAgain"
    /\ mine' = [mine EXCEPT ![t] = appendList[Path(t)]]
    /\ IF appendList[Path(t)] = 0
       THEN Goto(t, "config") /\ UNCHANGED writer
       ELSE Goto(t, "append") /\ writer' = None
    /\ UNCHANGED <<settings, readers, registry, file, line, count>>

\* call_once.
LoadLogConfig(t) ==
    /\ pc[t] = "config"
    /\ once' = TRUE
    /\ IF once THEN UNCHANGED <<enableDebug, asyncLog>>
               ELSE enableDebug' = ini.debug /\ asyncLog' = ini.async
    /\ Goto(t, "make")
    /\ UNCHANGED <<ini, lockVars, registry, file, line, mine, count>>

\* new RollingFileAppender, which opens the file while m_lock is held, and new
\* AsyncAppender around it.
MakeAppender(t) ==
    /\ pc[t] = "make"
    /\ appenders' = Append(appenders, [path |-> Path(t), async |-> asyncLog,
                                       queue |-> <<>>])
    /\ mine' = [mine EXCEPT ![t] = Len(appenders')]
    /\ Goto(t, "emplace")
    /\ UNCHANGED <<settings, lockVars, appendList, file, line, count>>

\* Mutant: the list gets the RollingFileAppender, not the AsyncAppender around it.
EmplaceInner(t) ==
    /\ pc[t] = "emplace"
    /\ appenders' = Append(appenders, [path |-> Path(t), async |-> FALSE, queue |-> <<>>])
    /\ appendList' = [appendList EXCEPT ![Path(t)] = Len(appenders')]
    /\ writer' = None
    /\ Goto(t, "append")
    /\ UNCHANGED <<settings, readers, file, line, mine, count>>

\* emplace keeps what is already there.
Emplace(t) ==
    /\ pc[t] = "emplace"
    /\ appendList' = [appendList EXCEPT ![Path(t)] = IF @ = 0 THEN mine[t] ELSE @]
    /\ writer' = None
    /\ Goto(t, "append")
    /\ UNCHANGED <<settings, readers, appenders, file, line, mine, count>>

\* doAppend, without m_lock.
DoAppend(t) ==
    /\ pc[t] = "append"
    /\ IF appenders[mine[t]].async
       THEN /\ Len(appenders[mine[t]].queue) < QueueLimit
            /\ appenders' = [appenders EXCEPT ![mine[t]].queue = Append(@, line[t])]
            /\ UNCHANGED file
       ELSE /\ file' = [file EXCEPT ![appenders[mine[t]].path] = Append(@, line[t])]
            /\ UNCHANGED appenders
    /\ Return(t)
    /\ UNCHANGED <<settings, lockVars, appendList, count>>

\* The thread of an AsyncAppender.
QueueThread(a) ==
    /\ a \in DOMAIN appenders /\ appenders[a].queue # <<>>
    /\ file' = [file EXCEPT ![appenders[a].path] = Append(@, Head(appenders[a].queue))]
    /\ appenders' = [appenders EXCEPT ![a].queue = Tail(@)]
    /\ UNCHANGED <<settings, lockVars, appendList, threadVars>>

-----------------------------------------------------------------------------

GetAppender(t) ==
    Find(t) \/ FindAgain(t) \/ LoadLogConfig(t) \/ Emplace(t)

Lock(t) == LockShared(t) \/ LockExclusive(t)

QueueThreadOf(p) ==
    \E a \in DOMAIN appenders : appenders[a].path = p /\ QueueThread(a)

InCall(t) ==
    \/ DropDebug(t) \/ PassLevel(t) \/ CutOff(t) \/ Format(t) \/ NullPath(t)
    \/ GetAppender(t)

Next ==
    \/ \E t \in Threads :
          WriteLog(t) \/ InCall(t) \/ Lock(t) \/ MakeAppender(t) \/ DoAppend(t)
    \/ \E a \in DOMAIN appenders : QueueThread(a)

\* A thread is away from m_lock between its lines, so whoever waits for the lock
\* gets it in the end (SF).  Nothing is assumed of a file in Stuck: neither that
\* it takes a line nor that it can be opened.
Fairness ==
    /\ \A t \in Threads :
          /\ WF_vars(InCall(t))
          /\ SF_vars(LockShared(t)) /\ SF_vars(LockExclusive(t))
          /\ WF_vars(MakeAppender(t) /\ Path(t) \notin Stuck)
          /\ SF_vars(DoAppend(t) /\ Path(t) \notin Stuck)
    /\ \A p \in Paths \ Stuck : WF_vars(QueueThreadOf(p))

Safety == Init /\ [][Next]_vars
Spec == Safety /\ Fairness

-----------------------------------------------------------------------------
(* Properties.                                                             *)

\* A file is never opened by two appenders, however many threads miss it in
\* append_list at once: two would roll it over under each other's hands.
OneAppender ==
    \A i, j \in DOMAIN appenders : appenders[i].path = appenders[j].path => i = j

\* Where m_lock is held, and what a thread may then rely on.
Exclusive == {"findAgain", "config", "make", "emplace"}
Making == {"make", "emplace"}

LockInv ==
    /\ \A t \in Threads : t \in readers <=> pc[t] = "find"
    /\ \A t \in Threads : t = writer <=> pc[t] \in Exclusive
    /\ writer # None => readers = {}

CallInv ==
    \A t \in Threads :
        /\ pc[t] # "idle" => line[t] \in Line /\ line[t].thread = t
        /\ pc[t] \in {"find", "exclusive", "append"} \cup Exclusive => Path(t) \in Paths
        /\ pc[t] \notin {"idle", "level"} /\ line[t].call.debug => enableDebug
        /\ pc[t] \in {"config"} \cup Making => appendList[Path(t)] = 0
        /\ pc[t] = "append" => mine[t] = appendList[Path(t)] /\ mine[t] # 0
        /\ pc[t] = "emplace" =>
              /\ mine[t] = Len(appenders) /\ mine[t] # 0
              /\ appenders[mine[t]].path = Path(t) /\ appenders[mine[t]].queue = <<>>

\* Every appender is in the list, but for the one that is just being put there.
RegistryInv ==
    /\ \A p \in Paths : appendList[p] # 0 => appenders[appendList[p]].path = p
    /\ \A a \in DOMAIN appenders :
          \/ appendList[appenders[a].path] = a
          \/ \E t \in Threads : pc[t] = "emplace" /\ mine[t] = a
    /\ \A a \in DOMAIN appenders : appenders[a].async \/ appenders[a].queue = <<>>

\* Nothing is made before the settings are loaded, once.
ConfigInv ==
    /\ (\E t \in Threads : pc[t] \in Making) \/ appenders # <<>> => once
    /\ once => enableDebug = ini.debug /\ asyncLog = ini.async
    /\ ~once => ~enableDebug
    /\ \A p \in Paths : file[p] # <<>> => appendList[p] # 0

IInv == TypeOK /\ LockInv /\ CallInv /\ RegistryInv /\ ConfigInv

\* The log of a path: what its file has, and behind it what waits in the queue.
Contents(p) ==
    file[p] \o (IF appendList[p] = 0 THEN <<>> ELSE appenders[appendList[p]].queue)

\* The callers see a LogBook: each line that is not dropped is in its log once,
\* before the call returns, in the order of the calls; a line is dropped for its
\* length or for want of a path, or because it is a debug line: one that is
\* wanted is lost only while every log is still empty.
Book == INSTANCE LogBook WITH
    Logs <- Paths,
    Lines <- Line,
    LogOf <- [l \in Line |-> l.call.path],
    WriterOf <- [l \in Line |-> l.thread],
    Debug <- {l \in Line : l.call.debug},
    Droppable <- {l \in Line : ~l.call.fits \/ l.call.path = NoPath},
    log <- [p \in Paths |-> Contents(p)],
    calls <- {line[t] : t \in {u \in Threads : pc[u] # "idle"}},
    debugOn <- ini.debug

ImplementsLogBook == Book!Spec

\* A thread holds m_lock while it opens a file whose disk may have stopped.
OpensStuck == \E t \in Threads : pc[t] = "make" /\ Path(t) \in Stuck

\* A file whose disk stops while lines are appended to it (a full queue, or a
\* write that does not return) holds up nobody who writes to another one: each of
\* their calls returns, unless some thread stays for ever in opening such a file,
\* which the code does with m_lock held.
WriteReturns ==
    []<>~OpensStuck =>
        \A t \in Threads :
            pc[t] = "level" /\ Path(t) \notin Stuck ~> pc[t] = "idle"
=============================================================================
