---------------------------- MODULE MCLogWriter ----------------------------
(* LogWriter for TLC: the calls of the program (WriteLogA and WriteLogW with *)
(* a level above Debug), debug lines, and the two that are always dropped.  *)
EXTENDS LogWriter

CONSTANTS p1, p2

MCCalls ==
    {[path |-> p, debug |-> FALSE, narrow |-> FALSE, fits |-> TRUE] : p \in Paths}
    \cup {[path |-> p1, debug |-> TRUE, narrow |-> TRUE, fits |-> TRUE],
          [path |-> p2, debug |-> FALSE, narrow |-> TRUE, fits |-> FALSE],
          [path |-> NoPath, debug |-> FALSE, narrow |-> FALSE, fits |-> TRUE]}
=============================================================================
