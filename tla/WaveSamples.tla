----------------------------- MODULE WaveSamples -----------------------------
(***************************************************************************)
(* CWaveReader::getAudioFrame: one audio frame after the other is filled   *)
(* from m_pRawWave, into which a read of the file puts as many samples as  *)
(* the frame has.  Five pointers run through the two buffers: pDest32,     *)
(* pDest16, pSource32, pSource16 and pSource8.                             *)
(*                                                                         *)
(* A value is known by the frame and the sample of the file it comes from; *)
(* a pointer is the number of bytes it has moved.                          *)
(***************************************************************************)
EXTENDS AudioFrame

CONSTANTS
    NbChannel,      \* 16: what SetMonoCnt and the resampler are called with
    Counts,         \* the numbers of samples that frames may have
    BitsPerSample,  \* the values of BitsPerSample that a file may have
    NumChannels,    \* the values of NumChannels that a file may have
    MaxFrames       \* bound: frames made

ASSUME SamplesAssumption ==
    /\ InitSamples \in Nat \ {0}
    /\ NbChannel \in Nat \ {0} /\ InitChannels = NbChannel
    /\ Counts \subseteq Nat \ {0}
    /\ BitsPerSample \subseteq {16, 24, 32}
    /\ NumChannels \subseteq 1 .. NbChannel
    /\ MaxFrames \in Nat
    /\ Mute # Garbage /\ {Mute, Garbage} \cap (Nat \X Nat) = {}

VARIABLES
    bits, channels,         \* the format of the file
    frame,                  \* the number of the frame, m_dwTimes
    read,                   \* the file gave the samples of this frame
    phase,                  \* where loadAudioFrameFromDisk is, then sentToNDI
    i, cnl,                 \* the counters of the loops
    dest32, dest16,         \* pDest32 and pDest16
    source32, source8       \* pSource32 and pSource8

file     == <<bits, channels>>
pointers == <<i, cnl, dest32, dest16, source32, source8>>
waveVars == <<file, frame, read, phase, pointers>>

InitWave ==
    /\ InitFrame
    /\ bits \in BitsPerSample /\ channels \in NumChannels
    /\ frame = 0 /\ read = FALSE /\ phase = "samples"
    /\ i = 0 /\ cnl = 0 /\ dest32 = 0 /\ dest16 = 0 /\ source32 = 0 /\ source8 = 0

\* loadAudioFrameFromDisk prepares the frame ...
LoadSamples ==
    /\ phase = "samples" /\ frame < MaxFrames
    /\ \E cnt \in Counts : SetSampleCnt(cnt)
    /\ phase' = "channels"
    /\ UNCHANGED <<file, frame, read, pointers>>

LoadChannels ==
    /\ phase = "channels"
    /\ SetMonoCnt(NbChannel)
    /\ phase' = "read"
    /\ UNCHANGED <<file, frame, read, pointers>>

\* ... and getAudioFrame mutes it.  There may be no file, or one too short.
ReadNothing ==
    /\ phase = "read"
    /\ raw' = Muted
    /\ read' = FALSE
    /\ phase' = "resample"
    /\ UNCHANGED <<totalSize, rawSize, sampleCnt, monoCnt, file, frame, pointers>>

ReadSamples ==
    /\ phase = "read"
    /\ raw' = Muted
    /\ read' = TRUE
    /\ i' = 0 /\ cnl' = 0 /\ dest32' = 0 /\ dest16' = 0 /\ source32' = 0 /\ source8' = 0
    /\ phase' = "convert"
    /\ UNCHANGED <<totalSize, rawSize, sampleCnt, monoCnt, file, frame>>

\* The sample of the file that starts at a byte of m_pRawWave, if one does.
SampleAt(byte) ==
    IF byte % (bits \div 8) = 0 /\ byte \div (bits \div 8) < sampleCnt * channels
    THEN <<frame, byte \div (bits \div 8)>>
    ELSE Garbage

Write32(value) == raw' = [raw EXCEPT ![dest32 \div 2] = value, ![dest32 \div 2 + 1] = value]
Write16(value) == raw' = [raw EXCEPT ![dest16 \div 2] = value]

-----------------------------------------------------------------------------
(* One turn of the inner loop.                                             *)

InLoop == phase = "convert" /\ i < sampleCnt

NextCnl ==
    IF cnl + 1 < monoCnt
    THEN cnl' = cnl + 1 /\ i' = i
    ELSE cnl' = 0 /\ i' = i + 1

InFrame == UNCHANGED <<totalSize, rawSize, sampleCnt, monoCnt, file, frame, read, phase>>

\* The frame has 32 bits in a sample: the upper half of 32 bits of the file,
\* which are two samples, goes into 16 bits of the frame.
Convert16 ==
    /\ InLoop /\ cnl < channels /\ bits = 16
    /\ Write16(SampleAt(source32 + 2))
    /\ dest16' = dest16 + 2
    /\ source32' = source32 + 4
    /\ NextCnl /\ InFrame
    /\ UNCHANGED <<dest32, source8>>

\* The 24 bits, and the sign in the lowest byte.
Convert24 ==
    /\ InLoop /\ cnl < channels /\ bits = 24
    /\ Write32(SampleAt(source8))
    /\ dest32' = dest32 + 4
    /\ source8' = source8 + 3
    /\ NextCnl /\ InFrame
    /\ UNCHANGED <<dest16, source32>>

Convert32 ==
    /\ InLoop /\ cnl < channels /\ bits = 32
    /\ Write32(SampleAt(source32))
    /\ dest32' = dest32 + 4
    /\ source32' = source32 + 4
    /\ NextCnl /\ InFrame
    /\ UNCHANGED <<dest16, source8>>

\* A channel that the file does not have is mute.
MuteChannel ==
    /\ InLoop /\ cnl >= channels
    /\ Write32(Mute)
    /\ dest32' = dest32 + 4
    /\ NextCnl /\ InFrame
    /\ UNCHANGED <<dest16, source32, source8>>

Converted ==
    /\ phase = "convert" /\ i = sampleCnt
    /\ phase' = "resample"
    /\ UNCHANGED <<frameVars, file, frame, read, pointers>>

Convert == Convert16 \/ Convert24 \/ Convert32 \/ MuteChannel \/ Converted

LoadFrame == LoadSamples \/ LoadChannels \/ ReadNothing \/ ReadSamples \/ Convert

-----------------------------------------------------------------------------
(* What a frame should be: sample s of channel c, in 32 bits.              *)

Want(s, c) == IF read /\ c < channels THEN <<frame, s * channels + c>> ELSE Mute

Sample(s, c) == 2 * (s * NbChannel + c)

Holds(s, c, value) == raw[Sample(s, c)] = value /\ raw[Sample(s, c) + 1] = value
=============================================================================
