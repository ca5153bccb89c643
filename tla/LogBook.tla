------------------------------- MODULE LogBook -------------------------------
(***************************************************************************)
(* What WriteLog promises its callers: a line is in its log, once, before  *)
(* the call returns, and the logs keep the order of the calls.  Only some  *)
(* lines may be dropped; of those of level Debug, while debugging is on,   *)
(* only such as are written before any log has got its first line.         *)
(***************************************************************************)
EXTENDS Sequences

CONSTANTS
    Logs,           \* the files
    Lines,          \* the lines
    LogOf,          \* the file of a line, if it is in Logs
    WriterOf,       \* the thread that writes it
    Debug,          \* the lines of level Debug
    Droppable       \* the lines that may be dropped whatever their level

VARIABLES
    log,        \* the lines of each log, oldest first
    calls,      \* the lines whose call has not yet got them into their log
    debugOn     \* debug lines are wanted

vars == <<log, calls, debugOn>>

Init ==
    /\ log = [f \in Logs |-> <<>>]
    /\ calls = {}
    /\ debugOn \in BOOLEAN

\* A thread is in one call at a time.
Call(l) ==
    /\ \A other \in calls : WriterOf[other] # WriterOf[l]
    /\ calls' = calls \cup {l}
    /\ UNCHANGED <<log, debugOn>>

Write(l) ==
    /\ l \in calls /\ LogOf[l] \in Logs
    /\ l \in Debug => debugOn
    /\ log' = [log EXCEPT ![LogOf[l]] = Append(@, l)]
    /\ calls' = calls \ {l}
    /\ UNCHANGED debugOn

NothingWritten == \A f \in Logs : log[f] = <<>>

Drop(l) ==
    /\ l \in calls
    /\ \/ l \in Droppable
       \/ l \in Debug /\ (debugOn => NothingWritten)
    /\ calls' = calls \ {l}
    /\ UNCHANGED <<log, debugOn>>

Next == \E l \in Lines : Call(l) \/ Write(l) \/ Drop(l)

Spec == Init /\ [][Next]_vars
=============================================================================
