------------------------- MODULE MCFrameConsumerNDI -------------------------
(* FrameConsumerNDI with frame ids 1 .. MaxFrames. *)
EXTENDS FrameConsumerNDI

MCFrame == 1 .. MaxFrames
=============================================================================
