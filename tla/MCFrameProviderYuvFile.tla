----------------------- MODULE MCFrameProviderYuvFile -----------------------
(* FrameProviderYuvFile for TLC. *)
EXTENDS FrameProviderYuvFile
=============================================================================
