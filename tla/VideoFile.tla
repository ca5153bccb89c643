----------------------------- MODULE VideoFile -----------------------------
(***************************************************************************)
(* The video file of CFrameProviderYuvFile: initVideo opens it, and        *)
(* loadVideoFrameFromDisk reads one picture after the other into the       *)
(* buffers of frames, from the start of the file again when it ends.       *)
(* Positions and sizes are in bytes.                                       *)
(***************************************************************************)
EXTENDS VideoFrame

CONSTANTS
    Formats,        \* the formats of a channel
    VideoFiles      \* the files that may be given to addChannel

\* How long a file is, and whether it starts with "ID4.".
VideoFileType == [length : Nat, id4 : BOOLEAN]

ASSUME FileAssumption == Formats \subseteq Listed /\ VideoFiles \subseteq VideoFileType

VARIABLES
    fpVideoFormat,  \* the format of the channel
    videoFile,      \* szFileName
    m_fpVideo,      \* new, open, failed or closed
    pos,            \* its position
    picture         \* the bytes of the file in the last frame, [from, to)

fileVars == <<fpVideoFormat, videoFile, m_fpVideo, pos, picture>>

Black == [from |-> 0, to |-> 0]

InitFile ==
    /\ fpVideoFormat \in Formats /\ videoFile \in VideoFiles
    /\ m_fpVideo = "new" /\ pos = 0 /\ picture = Black

m_usedSize == BufferSize(fpVideoFormat)

-----------------------------------------------------------------------------
(* initVideo                                                               *)

\* There is no such file.
OpenVideoFails ==
    /\ m_fpVideo = "new"
    /\ m_fpVideo' = "failed"
    /\ UNCHANGED <<fpVideoFormat, videoFile, pos, picture>>

\* What id holds after fread is not asked: of a file with less than 8 bytes, or
\* less than 4, it may be anything.
OldYuvFile ==
    /\ m_fpVideo = "new"
    /\ videoFile.id4 \/ videoFile.length < 8
    /\ m_fpVideo' = "failed"
    /\ UNCHANGED <<fpVideoFormat, videoFile, pos, picture>>

\* Mutant: the file is read on behind the bytes of id.
InitVideoNoSeek ==
    /\ m_fpVideo = "new"
    /\ ~videoFile.id4 \/ videoFile.length < 8
    /\ m_fpVideo' = "open"
    /\ pos' = IF videoFile.length < 8 THEN videoFile.length ELSE 8
    /\ UNCHANGED <<fpVideoFormat, videoFile, picture>>

InitVideoOkay ==
    /\ m_fpVideo = "new"
    /\ ~videoFile.id4 \/ videoFile.length < 8
    /\ m_fpVideo' = "open" /\ pos' = 0
    /\ UNCHANGED <<fpVideoFormat, videoFile, picture>>

InitVideo == OpenVideoFails \/ OldYuvFile \/ InitVideoOkay

-----------------------------------------------------------------------------
(* loadVideoFrameFromDisk                                                  *)

ReadOn ==
    /\ pos + m_usedSize <= videoFile.length
    /\ picture' = [from |-> pos, to |-> pos + m_usedSize]
    /\ pos' = pos + m_usedSize

\* Less than a picture is left.
ReadAgain ==
    /\ pos + m_usedSize > videoFile.length /\ m_usedSize <= videoFile.length
    /\ picture' = [from |-> 0, to |-> m_usedSize]
    /\ pos' = m_usedSize

\* The file has no whole picture: what was read of it is made black.
SetToBlack ==
    /\ m_usedSize > videoFile.length
    /\ picture' = Black
    /\ pos' = videoFile.length

loadVideoFrameFromDisk ==
    /\ m_fpVideo = "open"
    /\ ReadOn \/ ReadAgain \/ SetToBlack
    /\ UNCHANGED <<fpVideoFormat, videoFile, m_fpVideo>>

CloseVideoFile ==
    /\ m_fpVideo = "open"
    /\ m_fpVideo' = "closed"
    /\ UNCHANGED <<fpVideoFormat, videoFile, pos, picture>>

-----------------------------------------------------------------------------

FileTypeOK ==
    /\ fpVideoFormat \in Formats /\ videoFile \in VideoFiles
    /\ m_fpVideo \in {"new", "open", "failed", "closed"}
    /\ pos \in 0 .. videoFile.length
    /\ picture \in [from : Nat, to : Nat]

\* The tables agree, for every listed format: a buffer is as large as the
\* picture that NDI is told to find in it, its lines are of the kind it is told,
\* and dropped numbers are asked for where a frame lasts 1001/1000 of its time.
TablesAgree ==
    LET told == Described(fpVideoFormat) IN
    /\ m_usedSize = told.line_stride_in_bytes * told.yres /\ m_usedSize > 0
    /\ FrameSize(fpVideoFormat).width = told.xres
    /\ FrameSize(fpVideoFormat).isInterlaced <=> told.interleaved
    /\ isDropNTSC(fpVideoFormat) <=> getFrameRateDen(fpVideoFormat) = 1001

\* Pictures are played as from a tape with the file on it: whole ones, in order
\* without a gap, from the start again when less than one is left, and black
\* when the file has none.
Opened == m_fpVideo \in {"open", "closed"}
TapeLength == IF Opened THEN videoFile.length ELSE 0
Tape == INSTANCE LoopingTape WITH
    Pieces <- {BufferSize(f) : f \in Formats},
    length <- TapeLength, at <- pos, heard <- picture

PicturesInOrder == Tape!Spec
=============================================================================
