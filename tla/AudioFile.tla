------------------------------ MODULE AudioFile ------------------------------
(***************************************************************************)
(* The audio of a channel from the bytes of its file to the floats NDI     *)
(* gets: CWaveReader, which finds the samples (WaveReader), and the        *)
(* buffers they are converted through (AudioPath).  The samples of a frame *)
(* are there exactly when fillBufferFromDisk could read them.              *)
(***************************************************************************)
EXTENDS AudioPath, WaveReader

ASSUME FileAssumption == Counts \subseteq SampleCounts

fileVars == <<vars, readerVars>>

\* The format of the file is one, of which BlockAlign is a sample's bytes.
FileInit ==
    /\ Init /\ ReaderInit
    /\ wavFile.block = channels * (bits \div 8)

\* initAudio opens the file before there is a thread that makes frames.
OpenReader == Open /\ UNCHANGED vars

\* What loadAudioFrameFromDisk does before and after the reading ...
Prepare == pc \in {"ready", "failed"} /\ (LoadSamples \/ LoadChannels)
Fill ==
    /\ Prepare \/ Convert
    /\ UNCHANGED <<ndiVars, sortVars, readerVars>>

\* ... and the reading, of as many samples as the frame has.
FillFromDisk ==
    /\ phase = "read" /\ GetAudioFrame(sampleCnt)
    /\ IF played' = NothingPlayed THEN ReadNothing ELSE ReadSamples
    /\ UNCHANGED <<ndiVars, sortVars>>

SendToNDI == SentToNDI /\ UNCHANGED readerVars

\* closeChannel has waited for readThread.
CloseReader == phase = "samples" /\ Close /\ UNCHANGED vars

FileNext == OpenReader \/ Fill \/ FillFromDisk \/ SendToNDI \/ CloseReader

FileSpec == FileInit /\ [][FileNext]_fileVars
=============================================================================
