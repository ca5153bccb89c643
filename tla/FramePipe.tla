------------------------------ MODULE FramePipe ------------------------------
(***************************************************************************)
(* What every stage between the YUV file and the NDI sender promises: the  *)
(* frames it has accepted come out once each, in the order of acceptance,  *)
(* unchanged, and never more than Capacity of them are inside.  An item is *)
(* a pair of a video and an audio frame, so a pair that leaves with its    *)
(* partners swapped is not an item that was accepted.                      *)
(*                                                                         *)
(* A stage is obliged to deliver only while it is running; one that is not *)
(* started yet, or has been stopped, may keep what is inside.              *)
(***************************************************************************)
EXTENDS Naturals, Sequences

CONSTANTS
    Item,       \* the pairs of frames
    Capacity    \* how many the stage holds at most

VARIABLES
    accepted,   \* every item accepted so far, oldest first
    delivered,  \* every item delivered so far, oldest first
    running     \* the stage is obliged to deliver what is inside

vars == <<accepted, delivered, running>>

Inside == Len(accepted) - Len(delivered)

Init ==
    /\ accepted = <<>>
    /\ delivered = <<>>
    /\ running \in BOOLEAN

Accept ==
    /\ Inside < Capacity
    /\ \E x \in Item : accepted' = Append(accepted, x)
    /\ UNCHANGED <<delivered, running>>

Deliver ==
    /\ Inside > 0
    /\ delivered' = Append(delivered, accepted[Len(delivered) + 1])
    /\ UNCHANGED <<accepted, running>>

StartOrStop ==
    /\ running' = ~running
    /\ UNCHANGED <<accepted, delivered>>

Next == Accept \/ Deliver \/ StartOrStop

Safety == Init /\ [][Next]_vars

Spec == Safety /\ WF_vars(running /\ Deliver)
=============================================================================
