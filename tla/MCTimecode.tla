----------------------------- MODULE MCTimecode -----------------------------
(* Timecode for TLC: around the changes of second, minute, ten minutes,    *)
(* hour and day.                                                           *)
EXTENDS Timecode
=============================================================================
