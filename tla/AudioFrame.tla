----------------------------- MODULE AudioFrame -----------------------------
(***************************************************************************)
(* The buffer of an AudioFrame: a header with the size of the audio, then  *)
(* the audio.  A frame of the pool is used again and again for frames of   *)
(* the cadence's different lengths; its buffer is allocated anew only when *)
(* it is too small.                                                        *)
(*                                                                         *)
(* Sizes are in bytes; the audio is a function of its 16-bit halves.       *)
(***************************************************************************)
EXTENDS Integers

CONSTANTS
    InitSamples,    \* the 2000 of init
    InitChannels,   \* the 16 of init
    Mute,           \* the value of zero bytes
    Garbage         \* bytes nobody wrote, or that are no sample of the file

VARIABLES
    raw,            \* m_raw behind its header
    totalSize,      \* m_totalSize
    rawSize,        \* rawSize in the header
    sampleCnt,      \* m_sampleCnt
    monoCnt         \* m_monoCnt

buffer == <<raw, totalSize, rawSize>>
frameVars == <<buffer, sampleCnt, monoCnt>>

Header == 4         \* sizeof(header)
Bytes == 4          \* m_nbBitPerSample / 8: the 32 bits of init, never changed

Halves(size) == 0 .. size \div 2 - 1

\* The constructor.
InitFrame ==
    LET size == InitSamples * Bytes * InitChannels IN
    /\ monoCnt = InitChannels /\ sampleCnt = InitSamples
    /\ rawSize = size /\ totalSize = size + Header
    /\ raw = [h \in Halves(size) |-> Garbage]

\* Mutant: the buffer is kept although it is too small.
setBufferSizeKeeps(size) ==
    /\ rawSize' = size
    /\ UNCHANGED <<raw, totalSize>>

setBufferSize(size) ==
    /\ rawSize' = size
    /\ IF totalSize >= size + Header
       THEN UNCHANGED <<raw, totalSize>>
       ELSE totalSize' = size + Header /\ raw' = [h \in Halves(size) |-> Garbage]

SetSampleCnt(cnt) ==
    /\ sampleCnt' = cnt
    /\ setBufferSize(cnt * Bytes * monoCnt)
    /\ UNCHANGED monoCnt

\* setBufferSize computes m_sampleCnt from the size again.
SetMonoCnt(cnt) ==
    /\ monoCnt' = cnt
    /\ setBufferSize(cnt * sampleCnt * Bytes)
    /\ UNCHANGED sampleCnt

\* setToMute() of all the audio.
Muted == [h \in DOMAIN raw |-> IF h \in Halves(rawSize) THEN Mute ELSE raw[h]]
=============================================================================
