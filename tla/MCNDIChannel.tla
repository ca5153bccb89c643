---------------------------- MODULE MCNDIChannel ----------------------------
(* NDIChannel for TLC. *)
EXTENDS NDIChannel

\* The share of the pools that the channel needs at most, with a good file.
Ample == {[pool |-> QueueLimit + FrameBufferSize + 3, reads |-> {TRUE}]}

\* Two frames of each pool, and a file that cannot always be read.
AmpleOrScarce == Ample \cup {[pool |-> 2, reads |-> {TRUE, FALSE}]}
=============================================================================
