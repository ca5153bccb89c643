--------------------------- MODULE MCCapturePool ---------------------------
(* CapturePool for TLC. *)
EXTENDS CapturePool
=============================================================================
