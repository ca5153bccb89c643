------------------------------ MODULE Playback ------------------------------
(***************************************************************************)
(* Config and the frames of one of the channels that main opens: the       *)
(* format that load has read is the one of its frames, and none is built   *)
(* before load is done.                                                    *)
(***************************************************************************)
EXTENDS BuildFrame, Configurator

playbackVars == <<vars, configVars>>

\* A channel gets Config's format. Of a format without a row no frame is followed.
PlaybackInit ==
    /\ Init /\ ConfigInit
    /\ file.format \in Listed => fpVideoFormat = file.format

\* main's first use of Config, and its channels.
Configure == ConfigNext /\ UNCHANGED vars

\* A channel that is open: its file, its frames.
Play ==
    /\ phase = "opened" /\ opened # {} /\ file.format \in Listed
    /\ Next
    /\ UNCHANGED configVars

PlaybackNext == Configure \/ Play

PlaybackSpec == PlaybackInit /\ [][PlaybackNext]_playbackVars
=============================================================================
