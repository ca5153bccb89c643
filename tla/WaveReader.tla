----------------------------- MODULE WaveReader -----------------------------
(***************************************************************************)
(* CWaveReader: open walks the chunks of a WAVE file to its data, and      *)
(* getAudioFrame plays the data in a loop, a video frame's samples at a    *)
(* time.  readThread of the provider is the only caller.                   *)
(*                                                                         *)
(* Positions and sizes are in bytes.  Of the file's bytes only the chunks' *)
(* names and sizes matter here; how samples are converted is in            *)
(* WaveSamples.                                                            *)
(***************************************************************************)
EXTENDS Integers, Sequences

CONSTANTS
    Files,          \* the files that may be given to open
    SampleCounts    \* the samples of a video frame

\* A file: its chunks one after the other, each at its place, how many bytes
\* it really has, whether it starts with RIFF and WAVE, and the fields of the
\* format that matter: whether open supports it, and BlockAlign.
Chunk == [id : {"fmt", "data", "other"}, at : Nat, size : Nat]
File == [chunks : Seq(Chunk), length : Nat, riff : BOOLEAN,
         supported : BOOLEAN, block : Nat \ {0}]

\* The first chunk follows the 12 bytes of the header, and each of the others
\* follows the one before it.
Consecutive(chunks) ==
    \A i \in DOMAIN chunks :
        chunks[i].at = IF i = 1 THEN 12 ELSE chunks[i - 1].at + 8 + chunks[i - 1].size

ASSUME ReaderAssumption ==
    /\ Files \subseteq File
    /\ \A f \in Files : Consecutive(f.chunks)
    /\ SampleCounts \subseteq Nat \ {0}

VARIABLES
    wavFile,        \* the file on disk
    pc,             \* where the reader is: new, header, walk, check, ready, failed, closed
    fp,             \* m_wavInfo.fp is not null
    pos,            \* the position of the FILE
    chunk,          \* the chunk it is at the start of
    offset,         \* the local offset of open
    format,         \* m_wavInfo.format has been filled in
    dataOffset,     \* m_wavInfo.data_offset
    dataSize,       \* m_wavInfo.data_size
    played          \* the bytes of the file in the last audio frame, [from, to)

walkVars == <<chunk, offset, format, dataOffset, dataSize>>
readerVars == <<wavFile, pc, fp, pos, walkVars, played>>

NothingPlayed == [from |-> 0, to |-> 0]

ReaderTypeOK ==
    /\ wavFile \in Files
    /\ pc \in {"new", "header", "walk", "check", "ready", "failed", "closed"}
    /\ fp \in BOOLEAN /\ format \in BOOLEAN
    /\ pos \in Nat /\ offset \in Nat
    /\ chunk \in Nat \ {0}
    /\ dataOffset \in Nat /\ dataSize \in Nat
    /\ played \in [from : Nat, to : Nat]

ReaderInit ==
    /\ wavFile \in Files
    /\ pc = "new" /\ fp = FALSE /\ pos = 0
    /\ chunk = 1 /\ offset = 12 /\ format = FALSE
    /\ dataOffset = 0 /\ dataSize = 0
    /\ played = NothingPlayed

\* The bytes between the position and the end of the file.
Left(p) == IF p < wavFile.length THEN wavFile.length - p ELSE 0

-----------------------------------------------------------------------------
(* open                                                                    *)

\* openFile fails, and nothing is closed.
OpenFileFails ==
    /\ pc = "new"
    /\ pc' = "failed"
    /\ UNCHANGED <<wavFile, fp, pos, walkVars, played>>

OpenFile ==
    /\ pc = "new"
    /\ fp' = TRUE /\ pc' = "header"
    /\ UNCHANGED <<wavFile, pos, walkVars, played>>

\* checkFileHeader: 12 bytes with RIFF and WAVE.
CheckFileHeaderFails ==
    /\ pc = "header"
    /\ Left(0) < 12 \/ ~wavFile.riff
    /\ fp' = FALSE /\ pc' = "failed"
    /\ UNCHANGED <<wavFile, pos, walkVars, played>>

CheckFileHeader ==
    /\ pc = "header"
    /\ Left(0) >= 12 /\ wavFile.riff
    /\ pos' = 12 /\ pc' = "walk"
    /\ UNCHANGED <<wavFile, fp, walkVars, played>>

\* The 8 bytes of a marker are there.
HasMarker == chunk <= Len(wavFile.chunks) /\ Left(pos) >= 8
Size == wavFile.chunks[chunk].size

\* getMarker finds no 8 bytes: it closes the file and the loop ends.
GetMarkerFails ==
    /\ pc = "walk" /\ ~HasMarker
    /\ fp' = FALSE /\ pc' = "check"
    /\ UNCHANGED <<wavFile, pos, walkVars, played>>

WalkOther ==
    /\ pc = "walk" /\ HasMarker /\ wavFile.chunks[chunk].id = "other"
    /\ pos' = pos + 8 + Size
    /\ offset' = offset + 8 + Size
    /\ chunk' = chunk + 1
    /\ UNCHANGED <<wavFile, pc, fp, format, dataOffset, dataSize, played>>

ReadFMT ==
    /\ pc = "walk" /\ HasMarker /\ wavFile.chunks[chunk].id = "fmt"
    /\ Left(pos + 8) >= Size
    /\ pos' = pos + 8 + Size
    /\ format' = TRUE
    /\ offset' = offset + 8 + Size
    /\ chunk' = chunk + 1
    /\ UNCHANGED <<wavFile, pc, fp, dataOffset, dataSize, played>>

\* The format is cut off: the file is closed and the loop ends.
ReadFMTFails ==
    /\ pc = "walk" /\ HasMarker /\ wavFile.chunks[chunk].id = "fmt"
    /\ Left(pos + 8) < Size
    /\ fp' = FALSE /\ pc' = "check"
    /\ UNCHANGED <<wavFile, pos, walkVars, played>>

\* Mutant: the marker is not counted.
ReadDATANoMarker ==
    /\ pc = "walk" /\ HasMarker /\ wavFile.chunks[chunk].id = "data"
    /\ pos' = pos + 8
    /\ dataOffset' = offset
    /\ dataSize' = Size
    /\ pc' = "check"
    /\ UNCHANGED <<wavFile, fp, chunk, offset, format, played>>

ReadDATA ==
    /\ pc = "walk" /\ HasMarker /\ wavFile.chunks[chunk].id = "data"
    /\ pos' = pos + 8
    /\ offset' = offset + 8
    /\ dataOffset' = offset + 8
    /\ dataSize' = Size
    /\ pc' = "check"
    /\ UNCHANGED <<wavFile, fp, chunk, format, played>>

\* The format decides what open returns; whether getMarker has closed the file
\* is not asked (fseeko64 for a null FILE does nothing here, at best).
OpenOkay ==
    /\ pc = "check" /\ format /\ wavFile.supported
    /\ pos' = dataOffset
    /\ pc' = "ready"
    /\ UNCHANGED <<wavFile, fp, walkVars, played>>

OpenFails ==
    /\ pc = "check" /\ ~(format /\ wavFile.supported)
    /\ fp' = FALSE /\ pc' = "failed"
    /\ UNCHANGED <<wavFile, pos, walkVars, played>>

Open ==
    \/ OpenFileFails \/ OpenFile \/ CheckFileHeaderFails \/ CheckFileHeader
    \/ GetMarkerFails \/ WalkOther \/ ReadFMT \/ ReadFMTFails \/ ReadDATA
    \/ OpenOkay \/ OpenFails

-----------------------------------------------------------------------------
(* getAudioFrame, for a frame of n samples.                                *)

FrameBytes(n) == n * wavFile.block

\* No file is open: the frame stays muted.
GetAudioFrameClosed(n) ==
    /\ pc \in {"ready", "failed"} /\ ~fp
    /\ played' = NothingPlayed
    /\ UNCHANGED <<wavFile, pc, fp, pos, walkVars>>

ReadOn(n) ==
    /\ pc = "ready" /\ fp /\ Left(pos) >= FrameBytes(n)
    /\ played' = [from |-> pos, to |-> pos + FrameBytes(n)]
    /\ pos' = pos + FrameBytes(n)
    /\ UNCHANGED <<wavFile, pc, fp, walkVars>>

\* Mutant: only what is missing is read from the data on.
ReadAgainRest(n) ==
    /\ pc = "ready" /\ fp /\ Left(pos) < FrameBytes(n) /\ Left(dataOffset) >= FrameBytes(n)
    /\ pos' = dataOffset + FrameBytes(n) - Left(pos)
    /\ played' = [from |-> dataOffset, to |-> pos']
    /\ UNCHANGED <<wavFile, pc, fp, walkVars>>

\* The rest of the file is too short: it is read again from the data on.
ReadAgain(n) ==
    /\ pc = "ready" /\ fp /\ Left(pos) < FrameBytes(n) /\ Left(dataOffset) >= FrameBytes(n)
    /\ played' = [from |-> dataOffset, to |-> dataOffset + FrameBytes(n)]
    /\ pos' = dataOffset + FrameBytes(n)
    /\ UNCHANGED <<wavFile, pc, fp, walkVars>>

\* Mutant: the short read is taken for a full one.
ReadFailsUnchecked(n) ==
    /\ pc = "ready" /\ fp /\ Left(pos) < FrameBytes(n) /\ Left(dataOffset) < FrameBytes(n)
    /\ played' = [from |-> dataOffset, to |-> dataOffset + FrameBytes(n)]
    /\ pos' = dataOffset + Left(dataOffset)
    /\ UNCHANGED <<wavFile, pc, fp, walkVars>>

\* All of the data is too short: the frame stays muted.
ReadFails(n) ==
    /\ pc = "ready" /\ fp /\ Left(pos) < FrameBytes(n) /\ Left(dataOffset) < FrameBytes(n)
    /\ played' = NothingPlayed
    /\ pos' = dataOffset + Left(dataOffset)
    /\ UNCHANGED <<wavFile, pc, fp, walkVars>>

GetAudioFrame(n) ==
    GetAudioFrameClosed(n) \/ ReadOn(n) \/ ReadAgain(n) \/ ReadFails(n)

\* The destructor; a file that open has closed is not closed again.
Close ==
    /\ pc \in {"new", "ready", "failed"}
    /\ fp' = FALSE /\ pc' = "closed"
    /\ UNCHANGED <<wavFile, pos, walkVars, played>>

ReaderNext == Open \/ (\E n \in SampleCounts : GetAudioFrame(n)) \/ Close

ReaderSpec == ReaderInit /\ [][ReaderNext]_readerVars

-----------------------------------------------------------------------------
(* Properties.                                                             *)

\* The chunk of the data: the first one with that name.
DataChunk(f) ==
    CHOOSE i \in DOMAIN f.chunks :
        /\ f.chunks[i].id = "data"
        /\ \A j \in 1 .. i - 1 : f.chunks[j].id # "data"

Playing == pc = "ready" /\ fp

\* The offset that open adds up is where the data of the file really starts,
\* whatever chunks come before it, and the reader is never before it.
DataFound ==
    Playing =>
        /\ dataOffset = wavFile.chunks[DataChunk(wavFile)].at + 8
        /\ dataSize = wavFile.chunks[DataChunk(wavFile)].size
        /\ pos >= dataOffset

\* An audio frame starts and ends between two samples of all channels, after
\* any number of frames and restarts: the channels never change places.
AtSample(p) == \E k \in 0 .. p : p = dataOffset + k * wavFile.block
Aligned == played # NothingPlayed => AtSample(played.from) /\ AtSample(played.to)

\* What the provider plays is data.  WaveHeader.h says that Subchunk2Size is
\* "the number of bytes in the data"; but fillBufferFromDisk never asks for it
\* and reads on to the end of the file, chunks behind the data included.
HeardIsData ==
    played # NothingPlayed =>
        dataOffset <= played.from /\ played.to <= dataOffset + dataSize

\* Nothing follows the data of a file: ImplementsTape needs it.
DataIsLast ==
    \A f \in Files : \A i \in DOMAIN f.chunks :
        f.chunks[i].id = "data" => f.length <= f.chunks[i].at + 8 + f.chunks[i].size

\* Audio is played as from a tape with the data chunk on it, as much of it as
\* the file has.  The frames are those of the tape: in order, without a gap,
\* and from the start again when less than a frame is left.  That is so when
\* nothing follows the data; otherwise what follows is played as well.
Loaded == pc \in {"ready", "closed"} /\ format /\ wavFile.supported /\ dataOffset # 0
InData(p) == IF p >= dataOffset THEN p - dataOffset ELSE 0
Recorded == IF dataSize < Left(dataOffset) THEN dataSize ELSE Left(dataOffset)
FrameSizes == {n * f.block : n \in SampleCounts, f \in Files}

TapeLength == IF Loaded THEN Recorded ELSE 0
TapeAt == IF Loaded THEN InData(pos) ELSE 0
TapeHeard == IF played = NothingPlayed THEN NothingPlayed
             ELSE [from |-> InData(played.from), to |-> InData(played.to)]

Tape == INSTANCE LoopingTape WITH
    Pieces <- FrameSizes, length <- TapeLength, at <- TapeAt, heard <- TapeHeard

ImplementsTape == Tape!Spec

\* What the steps rely on: the offset that open adds up is the position of the
\* FILE, which is at the start of a chunk; an open file has a data chunk behind
\* whose start it is read; and what is played lies in the file.
Walk ==
    /\ pc = "new" => ~fp /\ pos = 0
    /\ pc \in {"header", "walk"} => fp
    /\ pc \in {"new", "header", "walk"} =>
          dataOffset = 0 /\ offset = IF pc = "walk" THEN pos ELSE 12
    /\ pc \in {"new", "header"} => chunk = 1 /\ ~format
    /\ pc = "failed" => ~format \/ ~wavFile.supported
    /\ pc = "walk" /\ chunk <= Len(wavFile.chunks) => pos = wavFile.chunks[chunk].at
    /\ \A i \in DOMAIN wavFile.chunks : i < chunk => wavFile.chunks[i].id # "data"
    /\ pc = "ready" => format /\ wavFile.supported
Position ==
    /\ pc \in {"check", "ready"} /\ (fp \/ dataOffset # 0) =>
          /\ fp /\ dataOffset >= 8
          /\ dataOffset <= pos /\ pos <= wavFile.length
          /\ chunk \in DOMAIN wavFile.chunks
          /\ wavFile.chunks[chunk].id = "data"
          /\ dataOffset = wavFile.chunks[chunk].at + 8
          /\ dataSize = wavFile.chunks[chunk].size
    /\ pc = "check" /\ fp => pos = dataOffset
    /\ played # NothingPlayed =>
          /\ pc \in {"ready", "closed"} /\ Loaded
          /\ dataOffset <= played.from /\ played.from <= played.to
          /\ played.to <= wavFile.length
ReaderInv == ReaderTypeOK /\ Walk /\ Position
=============================================================================
