--------------------------- MODULE WaveReaderProof ---------------------------
(***************************************************************************)
(* Proofs about WaveReader, for every set of files and every number of     *)
(* samples in a video frame.  That it is a looping tape needs the data to  *)
(* be the last chunk of its file (DataIsLast).                             *)
(***************************************************************************)
EXTENDS WaveReader, SequenceTheorems, TLAPS

(* A file is what ReaderAssumption says, and chunks follow each other.     *)
LEMMA FileType ==
  ASSUME NEW f \in Files
  PROVE  /\ f.length \in Nat /\ f.block \in Nat \ {0}
         /\ f.riff \in BOOLEAN /\ f.supported \in BOOLEAN
         /\ f.chunks \in Seq(Chunk)
         /\ DOMAIN f.chunks = 1 .. Len(f.chunks)
         /\ Len(f.chunks) \in Nat
         /\ \A i \in DOMAIN f.chunks : f.chunks[i] \in Chunk
         /\ 1 \in DOMAIN f.chunks => f.chunks[1].at = 12
         /\ \A i \in Nat \ {0} : i + 1 \in DOMAIN f.chunks =>
               f.chunks[i + 1].at = f.chunks[i].at + 8 + f.chunks[i].size
<1>1. f \in File /\ Consecutive(f.chunks)
  BY ReaderAssumption DEF ReaderAssumption
<1>2. f.chunks \in Seq(Chunk)
  BY <1>1 DEF File
<1>3. DOMAIN f.chunks = 1 .. Len(f.chunks) /\ Len(f.chunks) \in Nat
  BY <1>2, LenProperties
<1>4. \A i \in DOMAIN f.chunks : f.chunks[i] \in Chunk
  BY <1>2, <1>3, ElementOfSeq
<1>5. ASSUME NEW i \in Nat \ {0}, i + 1 \in DOMAIN f.chunks
      PROVE  f.chunks[i + 1].at = f.chunks[i].at + 8 + f.chunks[i].size
  <2>1. i + 1 # 1 /\ (i + 1) - 1 = i
    OBVIOUS
  <2> QED
    BY <1>1, <1>5, <2>1 DEF Consecutive
<1> QED
  BY <1>1, <1>2, <1>3, <1>4, <1>5 DEF File, Consecutive

(* The bytes of a video frame's samples, at least one.                     *)
LEMMA BytesType ==
  ASSUME ReaderTypeOK, NEW n \in SampleCounts
  PROVE  FrameBytes(n) \in Nat /\ FrameBytes(n) > 0 /\ FrameBytes(n) \in FrameSizes
<1>1. n \in Nat \ {0} /\ wavFile \in Files
  BY ReaderAssumption DEF ReaderAssumption, ReaderTypeOK
<1>2. wavFile.block \in Nat \ {0}
  BY <1>1, FileType
<1>3. \A a, b \in Nat \ {0} : a * b \in Nat /\ a * b > 0
  OBVIOUS
<1> QED
  BY <1>1, <1>2, <1>3 DEF FrameBytes, FrameSizes

-----------------------------------------------------------------------------
(* The inductive invariant.                                                *)

(* Nothing is open at first.                                               *)
LEMMA InitInvariant == ReaderInit => ReaderInv
<1> SUFFICES ASSUME ReaderInit PROVE ReaderInv
  OBVIOUS
<1>1. ReaderTypeOK
  <2>1. played \in [from : Nat, to : Nat]
    BY DEF ReaderInit, NothingPlayed
  <2>2. fp \in BOOLEAN /\ format \in BOOLEAN
    BY Zenon DEF ReaderInit
  <2>3. /\ pos \in Nat /\ offset \in Nat /\ chunk \in Nat \ {0}
        /\ dataOffset \in Nat /\ dataSize \in Nat
    BY DEF ReaderInit
  <2>4. /\ wavFile \in Files
        /\ pc \in {"new", "header", "walk", "check", "ready", "failed", "closed"}
    BY DEF ReaderInit
  <2> QED
    BY <2>1, <2>2, <2>3, <2>4 DEF ReaderTypeOK
<1>2. Walk
  <2>1. wavFile \in Files /\ chunk = 1
    BY DEF ReaderInit
  <2>2. \A i \in DOMAIN wavFile.chunks : ~(i < chunk)
    BY <2>1, FileType
  <2> QED
    BY <2>2 DEF ReaderInit, Walk
<1>3. Position
  BY DEF ReaderInit, Position
<1> QED
  BY <1>1, <1>2, <1>3 DEF ReaderInv

(* The chunk at the position of the FILE, when its marker can be read.     *)
LEMMA AtMarker ==
  ASSUME ReaderInv, pc = "walk", HasMarker
  PROVE  /\ chunk \in DOMAIN wavFile.chunks /\ wavFile.chunks[chunk] \in Chunk
         /\ Size \in Nat
         /\ pos = wavFile.chunks[chunk].at /\ pos = offset
         /\ pos + 8 <= wavFile.length
         /\ chunk + 1 \in DOMAIN wavFile.chunks =>
               wavFile.chunks[chunk + 1].at = pos + 8 + Size
<1>1. wavFile \in Files /\ chunk \in Nat \ {0} /\ pos \in Nat
  BY DEF ReaderInv, ReaderTypeOK
<1>2. chunk \in DOMAIN wavFile.chunks
  BY <1>1, FileType DEF HasMarker
<1>3. pos = wavFile.chunks[chunk].at /\ pos = offset
  BY DEF ReaderInv, Walk, HasMarker
<1>4. pos + 8 <= wavFile.length
  BY <1>1, FileType DEF HasMarker, Left
<1> QED
  BY <1>1, <1>2, <1>3, <1>4, FileType DEF Size, Chunk

(* Every step of open keeps the invariant.                                 *)
LEMMA OpenInvariant == ReaderInv /\ Open => ReaderInv'
<1> SUFFICES ASSUME ReaderInv, Open PROVE ReaderInv'
  OBVIOUS
<1> USE DEF walkVars, NothingPlayed
<1>0. wavFile \in Files /\ (wavFile.supported \in BOOLEAN) /\ wavFile.length \in Nat
  BY FileType DEF ReaderInv, ReaderTypeOK
<1>1. CASE OpenFileFails \/ OpenFile \/ CheckFileHeaderFails
  <2>1. /\ UNCHANGED <<wavFile, pos, walkVars, played>>
        /\ pc \in {"new", "header"} /\ pc' \in {"failed", "header"}
        /\ fp' \in BOOLEAN /\ (pc' = "header" => fp')
    BY <1>1 DEF OpenFileFails, OpenFile, CheckFileHeaderFails, ReaderInv, ReaderTypeOK
  <2>2. ReaderTypeOK'
    BY <2>1 DEF ReaderInv, ReaderTypeOK
  <2>3. Walk'
    BY <2>1 DEF ReaderInv, Walk
  <2>4. Position'
    BY <2>1 DEF ReaderInv, Position
  <2> QED
    BY <2>2, <2>3, <2>4 DEF ReaderInv
<1>2. CASE CheckFileHeader
  <2>1. chunk <= Len(wavFile.chunks) /\ chunk = 1 => wavFile.chunks[chunk].at = 12
    BY <1>0, FileType
  <2> QED
    BY <1>0, <1>2, <2>1 DEF CheckFileHeader, ReaderInv, ReaderTypeOK, Walk, Position, Loaded
<1>3. CASE GetMarkerFails \/ ReadFMTFails
  BY <1>3 DEF GetMarkerFails, ReadFMTFails, ReaderInv, ReaderTypeOK, Walk, Position, Loaded
<1>4. CASE WalkOther \/ ReadFMT
  <2>1. pc = "walk" /\ HasMarker
    BY <1>4 DEF WalkOther, ReadFMT
  <2>2. chunk + 1 <= Len(wavFile.chunks) => wavFile.chunks[chunk + 1].at = pos + 8 + Size
    BY <1>0, <2>1, AtMarker, FileType DEF ReaderInv, ReaderTypeOK
  <2>3. Size \in Nat /\ pos = offset
    BY <2>1, AtMarker
  <2>4. /\ UNCHANGED <<wavFile, pc, fp, dataOffset, dataSize, played>>
        /\ pos' = pos + 8 + Size /\ offset' = offset + 8 + Size /\ chunk' = chunk + 1
        /\ format' \in BOOLEAN
    BY <1>4 DEF WalkOther, ReadFMT, ReaderInv, ReaderTypeOK
  <2>5. wavFile.chunks[chunk].id # "data" /\ chunk \in Nat
    BY <1>4 DEF WalkOther, ReadFMT, ReaderInv, ReaderTypeOK
  <2>6. \A i \in DOMAIN wavFile.chunks : i < chunk + 1 => i < chunk \/ i = chunk
    BY <1>0, <2>5, FileType
  <2>7. \A i \in DOMAIN wavFile.chunks : i < chunk + 1 => wavFile.chunks[i].id # "data"
    BY <2>5, <2>6 DEF ReaderInv, Walk
  <2> QED
    BY <2>1, <2>2, <2>3, <2>4, <2>7 DEF ReaderInv, ReaderTypeOK, Walk, Position, Loaded
<1>5. CASE ReadDATA
  <2>1. pc = "walk" /\ HasMarker
    BY <1>5 DEF ReadDATA
  <2>2. /\ chunk \in DOMAIN wavFile.chunks /\ Size \in Nat
        /\ pos = wavFile.chunks[chunk].at /\ pos = offset
        /\ pos + 8 <= wavFile.length
    BY <2>1, AtMarker
  <2> QED
    BY <1>0, <1>5, <2>1, <2>2 DEF ReadDATA, Size, ReaderInv, ReaderTypeOK, Walk, Position, Loaded
<1>6. CASE OpenOkay
  BY <1>0, <1>6 DEF OpenOkay, ReaderInv, ReaderTypeOK, Walk, Position, Loaded
<1>7. CASE OpenFails
  BY <1>0, <1>7 DEF OpenFails, ReaderInv, ReaderTypeOK, Walk, Position, Loaded
<1> QED
  BY <1>1, <1>2, <1>3, <1>4, <1>5, <1>6, <1>7 DEF Open

(* What getAudioFrame finds when a file is open.                           *)
LEMMA WhilePlaying ==
  ASSUME ReaderInv, pc = "ready", fp
  PROVE  /\ Loaded /\ dataOffset \in Nat /\ dataOffset >= 8
         /\ dataOffset <= pos /\ pos <= wavFile.length
         /\ pos \in Nat /\ wavFile.length \in Nat /\ dataSize \in Nat
         /\ Left(pos) = wavFile.length - pos
         /\ Left(dataOffset) = wavFile.length - dataOffset
<1>1. wavFile \in Files /\ wavFile.length \in Nat
  BY FileType DEF ReaderInv, ReaderTypeOK
<1> QED
  BY <1>1 DEF ReaderInv, ReaderTypeOK, Walk, Position, Loaded, Left

(* Every call of getAudioFrame keeps the invariant.                        *)
LEMMA GetAudioFrameInvariant ==
  ASSUME ReaderInv, NEW n \in SampleCounts, GetAudioFrame(n)
  PROVE  ReaderInv'
<1> USE DEF walkVars, NothingPlayed
<1>0. FrameBytes(n) \in Nat /\ FrameBytes(n) > 0
  BY BytesType DEF ReaderInv
<1>1. CASE GetAudioFrameClosed(n)
  BY <1>1 DEF GetAudioFrameClosed, ReaderInv, ReaderTypeOK, Walk, Position, Loaded
<1>2. CASE ReadOn(n)
  BY <1>0, <1>2, WhilePlaying DEF ReadOn, ReaderInv, ReaderTypeOK, Walk, Position, Loaded
<1>3. CASE ReadAgain(n)
  BY <1>0, <1>3, WhilePlaying DEF ReadAgain, ReaderInv, ReaderTypeOK, Walk, Position, Loaded
<1>4. CASE ReadFails(n)
  BY <1>0, <1>4, WhilePlaying DEF ReadFails, ReaderInv, ReaderTypeOK, Walk, Position, Loaded
<1> QED
  BY <1>1, <1>2, <1>3, <1>4 DEF GetAudioFrame

(* Every step keeps the invariant.                                         *)
LEMMA StepInvariant == ReaderInv /\ [ReaderNext]_readerVars => ReaderInv'
<1> SUFFICES ASSUME ReaderInv, [ReaderNext]_readerVars PROVE ReaderInv'
  OBVIOUS
<1>1. CASE Close
  BY <1>1 DEF Close, ReaderInv, ReaderTypeOK, Walk, Position, Loaded, walkVars
<1>2. CASE UNCHANGED readerVars
  BY <1>2 DEF readerVars, walkVars, ReaderInv, ReaderTypeOK, Walk, Position, Loaded
<1> QED
  BY <1>1, <1>2, OpenInvariant, GetAudioFrameInvariant DEF ReaderNext

(* open's offset is always the position of the FILE, an open file is read  *)
(* behind the start of its data, and an audio frame lies inside the file.  *)
THEOREM Invariance == ReaderSpec => []ReaderInv
<1>1. ReaderInit => ReaderInv
  BY InitInvariant
<1>2. ReaderInv /\ [ReaderNext]_readerVars => ReaderInv'
  BY StepInvariant
<1> QED
  BY <1>1, <1>2, PTL DEF ReaderSpec

(* The offset that open adds up is where the first data chunk really is,   *)
(* whatever chunks come before it.                                         *)
THEOREM OffsetCorrect == ReaderSpec => []DataFound
<1>1. ReaderInv => DataFound
  <2> SUFFICES ASSUME ReaderInv, pc = "ready", fp
               PROVE  /\ DataChunk(wavFile) = chunk
                      /\ dataOffset = wavFile.chunks[chunk].at + 8
                      /\ dataSize = wavFile.chunks[chunk].size
                      /\ pos >= dataOffset
    BY DEF DataFound, Playing
  <2>1. /\ wavFile \in Files /\ chunk \in DOMAIN wavFile.chunks
        /\ wavFile.chunks[chunk].id = "data"
        /\ dataOffset = wavFile.chunks[chunk].at + 8
        /\ dataSize = wavFile.chunks[chunk].size
        /\ dataOffset <= pos
        /\ \A i \in DOMAIN wavFile.chunks : i < chunk => wavFile.chunks[i].id # "data"
        /\ pos \in Nat /\ dataOffset \in Nat
    BY DEF ReaderInv, ReaderTypeOK, Walk, Position
  <2>2. DOMAIN wavFile.chunks = 1 .. Len(wavFile.chunks) /\ Len(wavFile.chunks) \in Nat
    BY <2>1, FileType
  <2>3. \A j \in 1 .. chunk - 1 : wavFile.chunks[j].id # "data"
    BY <2>1, <2>2
  <2>4. \A i \in DOMAIN wavFile.chunks :
           /\ wavFile.chunks[i].id = "data"
           /\ \A j \in 1 .. i - 1 : wavFile.chunks[j].id # "data"
           => i = chunk
    BY <2>1, <2>2
  <2>5. DataChunk(wavFile) = chunk
    BY <2>1, <2>3, <2>4 DEF DataChunk
  <2> QED
    BY <2>1, <2>5
<1> QED
  BY <1>1, Invariance, PTL

-----------------------------------------------------------------------------
(* What is played.                                                         *)

(* With nothing behind the data, the recorded part of the data is the rest *)
(* of the file.                                                            *)
LEMMA RecordedToEnd ==
  ASSUME DataIsLast, ReaderInv, pc = "ready", fp
  PROVE  /\ Recorded = wavFile.length - dataOffset
         /\ wavFile.length <= dataOffset + dataSize
<1>1. /\ wavFile \in Files /\ chunk \in DOMAIN wavFile.chunks
      /\ wavFile.chunks[chunk].id = "data"
      /\ dataOffset = wavFile.chunks[chunk].at + 8
      /\ dataSize = wavFile.chunks[chunk].size
  BY DEF ReaderInv, ReaderTypeOK, Position
<1>2. wavFile.length <= dataOffset + dataSize
  BY <1>1 DEF DataIsLast
<1> QED
  BY <1>2, WhilePlaying DEF Recorded

(* What the tape shows of a reader that plays.                             *)
LEMMA TapeOfPlaying ==
  ASSUME DataIsLast, ReaderInv, pc = "ready", fp
  PROVE  TapeLength = wavFile.length - dataOffset /\ TapeAt = pos - dataOffset
  BY WhilePlaying, RecordedToEnd DEF TapeLength, TapeAt, InData

(* A call of getAudioFrame plays a piece of the tape, or does nothing.     *)
LEMMA GetAudioFrameTape ==
  ASSUME DataIsLast, ReaderInv, ReaderInv', NEW n \in SampleCounts, GetAudioFrame(n)
  PROVE  Tape!Next \/ UNCHANGED <<TapeLength, TapeAt, TapeHeard>>
<1>0. FrameBytes(n) \in Nat /\ FrameBytes(n) > 0 /\ FrameBytes(n) \in FrameSizes
  BY BytesType DEF ReaderInv
<1>1. CASE GetAudioFrameClosed(n)
  <2>1. (played = NothingPlayed /\ ~Loaded) \/ pc = "ready"
    BY <1>1 DEF GetAudioFrameClosed, Loaded, ReaderInv, Position
  <2>2. played = NothingPlayed /\ ~Loaded
    BY <1>1, <2>1 DEF GetAudioFrameClosed, Loaded, ReaderInv, Position
  <2> QED
    BY <1>1, <2>2 DEF GetAudioFrameClosed, walkVars, TapeLength, TapeAt, TapeHeard, Loaded
<1>2. ASSUME pc = "ready", fp,
             pc' = pc, fp' = fp, UNCHANGED <<wavFile, walkVars>>,
             \/ ReadOn(n) \/ ReadAgain(n) \/ ReadFails(n)
      PROVE  Tape!Next
  <2>1. /\ TapeLength = wavFile.length - dataOffset /\ TapeAt = pos - dataOffset
        /\ TapeLength' = TapeLength
        /\ TapeAt' = pos' - dataOffset
        /\ dataOffset' = dataOffset
    <3>1. Loaded /\ Loaded' /\ UNCHANGED <<dataOffset, dataSize, wavFile>>
      BY <1>2, WhilePlaying DEF Loaded, walkVars
    <3>2. TapeLength' = TapeLength
      BY <3>1 DEF TapeLength, Recorded, Left
    <3>3. pos' \in Nat /\ pos' >= dataOffset
      BY <1>2, <3>1 DEF ReaderInv, ReaderTypeOK, Position
    <3> QED
      BY <1>2, <3>1, <3>2, <3>3, TapeOfPlaying DEF TapeAt, InData
  <2>2. /\ dataOffset \in Nat /\ dataOffset >= 8
        /\ dataOffset <= pos /\ pos <= wavFile.length
        /\ pos \in Nat /\ wavFile.length \in Nat
        /\ Left(pos) = wavFile.length - pos
        /\ Left(dataOffset) = wavFile.length - dataOffset
    BY <1>2, WhilePlaying
  <2>3. CASE ReadOn(n)
    <3>1. TapeHeard' = [from |-> pos - dataOffset, to |-> pos + FrameBytes(n) - dataOffset]
      BY <1>0, <2>1, <2>2, <2>3 DEF ReadOn, TapeHeard, InData, NothingPlayed
    <3>2. Tape!Play(FrameBytes(n))
      BY <1>0, <2>1, <2>2, <2>3, <3>1 DEF ReadOn, Tape!Play
    <3> QED
      BY <1>0, <3>2 DEF Tape!Next
  <2>4. CASE ReadAgain(n)
    <3>1. TapeHeard' = [from |-> 0, to |-> FrameBytes(n)]
      BY <1>0, <2>1, <2>2, <2>4 DEF ReadAgain, TapeHeard, InData, NothingPlayed
    <3>2. Tape!Restart(FrameBytes(n))
      BY <1>0, <2>1, <2>2, <2>4, <3>1 DEF ReadAgain, Tape!Restart
    <3> QED
      BY <1>0, <3>2 DEF Tape!Next
  <2>5. CASE ReadFails(n)
    <3>1. TapeHeard' = NothingPlayed
      BY <2>5 DEF ReadFails, TapeHeard
    <3>2. Tape!PlayNothing(FrameBytes(n))
      BY <1>0, <2>1, <2>2, <2>5, <3>1 DEF ReadFails, Tape!PlayNothing, Tape!Silence, NothingPlayed
    <3> QED
      BY <1>0, <3>2 DEF Tape!Next
  <2> QED
    BY <1>2, <2>3, <2>4, <2>5
<1> QED
  BY <1>1, <1>2 DEF GetAudioFrame, ReadOn, ReadAgain, ReadFails, walkVars

(* Every step of the reader is one of the tape, or the tape sees nothing.  *)
LEMMA StepTape ==
  ASSUME DataIsLast
  PROVE  ReaderInv /\ ReaderInv' /\ [ReaderNext]_readerVars
      => [Tape!Next]_<<TapeLength, TapeAt, TapeHeard>>
<1> SUFFICES ASSUME ReaderInv, ReaderInv', [ReaderNext]_readerVars
             PROVE  [Tape!Next]_<<TapeLength, TapeAt, TapeHeard>>
  OBVIOUS
<1> USE DEF walkVars
<1>1. CASE OpenOkay
  <2>1. ~Loaded /\ played = NothingPlayed /\ played' = NothingPlayed
    BY <1>1 DEF OpenOkay, Loaded, ReaderInv, Position
  <2>2. CASE fp
    <3>1. /\ UNCHANGED <<wavFile, dataOffset, dataSize>> /\ pos' = dataOffset
          /\ dataOffset \in Nat /\ dataSize \in Nat /\ wavFile.length \in Nat
      BY <1>1, FileType DEF OpenOkay, ReaderInv, ReaderTypeOK
    <3>2. TapeLength' \in Nat
      BY <3>1 DEF TapeLength, Recorded, Left
    <3>3. TapeAt' = 0
      BY <3>1 DEF TapeAt, InData
    <3>4. Tape!Insert
      BY <2>1, <3>2, <3>3 DEF Tape!Insert, TapeLength, TapeHeard
    <3> QED
      BY <3>4 DEF Tape!Next
  <2>3. CASE ~fp
    <3>1. ~Loaded'
      BY <1>1, <2>3 DEF OpenOkay, Loaded, ReaderInv, Position
    <3> QED
      BY <2>1, <3>1 DEF TapeLength, TapeAt, TapeHeard
  <2> QED
    BY <2>2, <2>3
<1>2. CASE Open /\ ~OpenOkay
  <2>1. /\ ~Loaded /\ ~Loaded'
        /\ played = NothingPlayed /\ played' = NothingPlayed
    BY <1>2 DEF Open, OpenFileFails, OpenFile, CheckFileHeaderFails, CheckFileHeader,
       GetMarkerFails, WalkOther, ReadFMT, ReadFMTFails, ReadDATA, OpenFails,
       Loaded, ReaderInv, Position
  <2> QED
    BY <2>1 DEF TapeLength, TapeAt, TapeHeard
<1>3. CASE Close
  <2>1. Loaded' <=> Loaded
    BY <1>3 DEF Close, Loaded, ReaderInv, Walk
  <2> QED
    BY <1>3, <2>1 DEF Close, TapeLength, TapeAt, TapeHeard, Recorded, InData, Left
<1>4. CASE UNCHANGED readerVars
  BY <1>4 DEF readerVars, TapeLength, TapeAt, TapeHeard, Loaded, Recorded, InData, Left
<1> QED
  BY <1>1, <1>2, <1>3, <1>4, GetAudioFrameTape DEF ReaderNext

(* The reader implements the tape: whatever files are opened and however   *)
(* many frames are asked for, audio is played in order and without a gap,  *)
(* and from the start again when less than a frame is left.                *)
THEOREM Implementation == ASSUME DataIsLast PROVE ReaderSpec => ImplementsTape
<1>1. ReaderInit => Tape!Init
  BY DEF ReaderInit, Tape!Init, Tape!Silence, TapeLength, TapeAt, TapeHeard, Loaded, NothingPlayed
<1>2. ReaderInv /\ ReaderInv' /\ [ReaderNext]_readerVars
      => [Tape!Next]_<<TapeLength, TapeAt, TapeHeard>>
  BY StepTape
<1> QED
  BY <1>1, <1>2, Invariance, PTL DEF ReaderSpec, ImplementsTape, Tape!Spec

-----------------------------------------------------------------------------
(* Alignment.                                                              *)

(* Where the FILE is when audio is played: between two samples, or at its  *)
(* end.                                                                    *)
PositionAligned == Playing => AtSample(pos) \/ pos = wavFile.length

(* n samples behind the start of a sample another one starts.              *)
LEMMA AddSamples ==
  ASSUME NEW d \in Nat, NEW b \in Nat \ {0}, NEW k \in Nat, NEW n \in Nat
  PROVE  /\ d + k * b + n * b = d + (k + n) * b
         /\ k + n \in 0 .. d + (k + n) * b
<1>1. (k + n) * b = k * b + n * b /\ k * b \in Nat /\ n * b \in Nat
  OBVIOUS
<1>2. \A m \in Nat : m <= m * b
  OBVIOUS
<1>3. k + n <= (k + n) * b
  BY <1>2
<1> QED
  BY <1>1, <1>3

(* A frame of n samples read from the start of a sample ends at one.       *)
LEMMA ReadAligned ==
  ASSUME ReaderInv, NEW n \in SampleCounts, NEW p \in Nat, AtSample(p)
  PROVE  AtSample(p + FrameBytes(n))
<1>1. n \in Nat /\ dataOffset \in Nat /\ wavFile.block \in Nat \ {0}
  BY ReaderAssumption, FileType DEF ReaderAssumption, ReaderInv, ReaderTypeOK
<1>2. PICK k \in 0 .. p : p = dataOffset + k * wavFile.block
  BY DEF AtSample
<1>3. /\ p + n * wavFile.block = dataOffset + (k + n) * wavFile.block
      /\ k + n \in 0 .. p + n * wavFile.block
  BY <1>1, <1>2, AddSamples
<1> QED
  BY <1>3 DEF AtSample, FrameBytes

(* Every audio frame starts and ends between two samples, after any number *)
(* of frames and restarts and for every BlockAlign: the channels of the    *)
(* file never change places.                                               *)
THEOREM ChannelsStay == ReaderSpec => []Aligned
<1>1. ReaderInit => PositionAligned /\ Aligned
  BY DEF ReaderInit, PositionAligned, Playing, Aligned
<1>2. ReaderInv /\ PositionAligned /\ Aligned /\ [ReaderNext]_readerVars
      => PositionAligned' /\ Aligned'
  <2> SUFFICES ASSUME ReaderInv, PositionAligned, Aligned, [ReaderNext]_readerVars
               PROVE  PositionAligned' /\ Aligned'
    OBVIOUS
  <2>1. CASE Open
    <3>1. played' = NothingPlayed
      BY <2>1 DEF Open, OpenFileFails, OpenFile, CheckFileHeaderFails, CheckFileHeader,
         GetMarkerFails, WalkOther, ReadFMT, ReadFMTFails, ReadDATA, OpenOkay, OpenFails,
         ReaderInv, Position
    <3>2. CASE OpenOkay
      <4>1. /\ pos' = dataOffset' /\ wavFile' = wavFile
            /\ dataOffset' \in Nat /\ wavFile.block \in Nat
        BY <3>2, FileType DEF OpenOkay, walkVars, ReaderInv, ReaderTypeOK
      <4>2. 0 \in 0 .. pos' /\ pos' = dataOffset' + 0 * wavFile'.block
        BY <4>1
      <4> QED
        BY <3>1, <4>2 DEF PositionAligned, Aligned, AtSample, NothingPlayed
    <3>3. CASE pc' # "ready"
      BY <3>1, <3>3 DEF PositionAligned, Playing, Aligned, NothingPlayed
    <3> QED
      BY <2>1, <3>2, <3>3 DEF Open, OpenFileFails, OpenFile, CheckFileHeaderFails,
         CheckFileHeader, GetMarkerFails, WalkOther, ReadFMT, ReadFMTFails, ReadDATA,
         OpenFails
  <2>2. ASSUME NEW n \in SampleCounts, GetAudioFrame(n) PROVE PositionAligned' /\ Aligned'
    <3>1. CASE GetAudioFrameClosed(n)
      BY <3>1 DEF GetAudioFrameClosed, PositionAligned, Playing, Aligned, NothingPlayed
    <3>2. ASSUME pc = "ready", fp, UNCHANGED <<wavFile, pc, fp, walkVars>>,
                 ReadOn(n) \/ ReadAgain(n) \/ ReadFails(n)
          PROVE  PositionAligned' /\ Aligned'
      <4>1. /\ dataOffset \in Nat /\ dataOffset <= pos /\ pos \in Nat
            /\ wavFile.length \in Nat /\ pos <= wavFile.length
            /\ Left(pos) = wavFile.length - pos
            /\ Left(dataOffset) = wavFile.length - dataOffset
            /\ FrameBytes(n) \in Nat /\ FrameBytes(n) > 0
        BY <3>2, WhilePlaying, BytesType DEF ReaderInv
      <4>2. \A p \in Nat : AtSample(p)' <=> AtSample(p)
        BY <3>2 DEF AtSample, walkVars
      <4>3. AtSample(dataOffset)
        <5>1. wavFile.block \in Nat
          BY FileType DEF ReaderInv, ReaderTypeOK
        <5>2. 0 \in 0 .. dataOffset /\ dataOffset = dataOffset + 0 * wavFile.block
          BY <4>1, <5>1
        <5> QED
          BY <5>2 DEF AtSample
      <4>4. CASE ReadOn(n)
        <5>1. AtSample(pos)
          BY <3>2, <4>1, <4>4 DEF ReadOn, PositionAligned, Playing
        <5>2. AtSample(pos + FrameBytes(n))
          BY <4>1, <5>1, ReadAligned
        <5>3. pos' = pos + FrameBytes(n) /\ played'.from = pos /\ played'.to = pos + FrameBytes(n)
          BY <4>4 DEF ReadOn
        <5>4. AtSample(pos)' /\ AtSample(played.from)' /\ AtSample(played.to)'
          BY <4>1, <5>1, <5>2, <5>3, <3>2 DEF AtSample, walkVars
        <5> QED
          BY <5>4 DEF PositionAligned, Aligned
      <4>5. CASE ReadAgain(n)
        <5>1. AtSample(dataOffset + FrameBytes(n))
          BY <4>1, <4>3, ReadAligned
        <5>2. /\ pos' = dataOffset + FrameBytes(n)
              /\ played'.from = dataOffset /\ played'.to = dataOffset + FrameBytes(n)
          BY <4>5 DEF ReadAgain
        <5>3. AtSample(pos)' /\ AtSample(played.from)' /\ AtSample(played.to)'
          BY <4>1, <4>3, <5>1, <5>2, <3>2 DEF AtSample, walkVars
        <5> QED
          BY <5>3 DEF PositionAligned, Aligned
      <4>6. CASE ReadFails(n)
        <5>1. pos' = wavFile'.length /\ played' = NothingPlayed
          BY <3>2, <4>1, <4>6 DEF ReadFails
        <5> QED
          BY <5>1 DEF PositionAligned, Aligned, NothingPlayed
      <4> QED
        BY <3>2, <4>4, <4>5, <4>6
    <3> QED
      BY <2>2, <3>1, <3>2 DEF GetAudioFrame, ReadOn, ReadAgain, ReadFails
  <2>3. CASE Close
    BY <2>3 DEF Close, walkVars, PositionAligned, Playing, Aligned, AtSample, NothingPlayed
  <2>4. CASE UNCHANGED readerVars
    BY <2>4 DEF readerVars, walkVars, PositionAligned, Playing, Aligned, AtSample, NothingPlayed
  <2> QED
    BY <2>1, <2>2, <2>3, <2>4 DEF ReaderNext
<1>3. ReaderSpec => [](PositionAligned /\ Aligned)
  BY <1>1, <1>2, Invariance, PTL DEF ReaderSpec
<1> QED
  BY <1>3, PTL
=============================================================================
