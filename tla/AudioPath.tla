------------------------------ MODULE AudioPath ------------------------------
(***************************************************************************)
(* An audio frame on its way from the file to NDI: the provider fills it   *)
(* (WaveSamples), and the consumer sorts its samples by channel, has them  *)
(* converted to floats and sends them.  Then the frame is used again.      *)
(*                                                                         *)
(* The two ends are on two threads; that the frame arrives unchanged is    *)
(* what the FramePipe of FrameProviderYuvFile and FrameConsumerNDI says.   *)
(***************************************************************************)
EXTENDS WaveSamples

CONSTANT MaxSamples     \* getAudioSampleCount() of the configuration

ASSUME PathAssumption == MaxSamples \in Nat \ {0}

VARIABLES
    nIndex, k,      \* the counters of ProcessAudioToFLT (k is its i)
    pAudioNew,      \* its pointer into planar, in samples
    planar,         \* m_pSrcAudioNew, a function of its 32-bit samples
    p_data,         \* NDI_audio_frame.p_data, a function of its floats
    no_channels, no_samples, stride     \* of NDI_audio_frame; the stride in floats

ndiVars  == <<p_data, no_channels, no_samples, stride>>
sortVars == <<nIndex, k, pAudioNew, planar>>
vars == <<frameVars, waveVars, ndiVars, sortVars>>

Floats == 0 .. MaxSamples * NbChannel - 1

\* The constructors, and addChannel.
Init ==
    /\ InitWave
    /\ nIndex = 0 /\ k = 0 /\ pAudioNew = 0
    /\ planar = [f \in Floats |-> Garbage]
    /\ p_data = [f \in Floats |-> Garbage]
    /\ no_channels = NbChannel /\ no_samples = MaxSamples /\ stride = MaxSamples

Load == LoadFrame /\ UNCHANGED <<ndiVars, sortVars>>

-----------------------------------------------------------------------------
(* sentToNDI.                                                              *)

\* A frame longer than the buffers is replaced by silence.
TooLong ==
    /\ phase = "resample" /\ sampleCnt > MaxSamples
    /\ no_samples' = MaxSamples
    /\ p_data' = [f \in Floats |-> IF f < MaxSamples * no_channels THEN Mute ELSE p_data[f]]
    /\ phase' = "sent"
    /\ UNCHANGED <<frameVars, file, frame, read, pointers, no_channels, stride, sortVars>>

\* Mutant: the distance of the channels stays that of the longest frame.
DescribeKeepsStride ==
    /\ phase = "resample" /\ sampleCnt <= MaxSamples
    /\ no_channels' = monoCnt /\ no_samples' = sampleCnt
    /\ nIndex' = 0 /\ k' = 0 /\ pAudioNew' = 0
    /\ phase' = "sort"
    /\ UNCHANGED <<frameVars, file, frame, read, pointers, p_data, stride, planar>>

Describe ==
    /\ phase = "resample" /\ sampleCnt <= MaxSamples
    /\ no_channels' = monoCnt /\ no_samples' = sampleCnt /\ stride' = sampleCnt
    /\ nIndex' = 0 /\ k' = 0 /\ pAudioNew' = 0
    /\ phase' = "sort"
    /\ UNCHANGED <<frameVars, file, frame, read, pointers, p_data, planar>>

\* The 32 bits at pSrc[nIndex], when pSrc has moved k times 16 samples on.
SourceSample ==
    LET half == Sample(k, nIndex) IN
    IF raw[half] = raw[half + 1] THEN raw[half] ELSE Garbage

\* One turn of the inner loop of ProcessAudioToFLT.
Sort ==
    /\ phase = "sort" /\ nIndex < no_channels
    /\ planar' = [planar EXCEPT ![pAudioNew] = SourceSample]
    /\ pAudioNew' = pAudioNew + 1
    /\ IF k + 1 < sampleCnt THEN k' = k + 1 /\ nIndex' = nIndex
                            ELSE k' = 0 /\ nIndex' = nIndex + 1
    /\ UNCHANGED <<frameVars, waveVars, ndiVars>>

\* swr_convert: one long channel at one rate, each sample becomes a float.
Resampled ==
    /\ phase = "sort" /\ nIndex = no_channels
    /\ p_data' = [f \in Floats |-> IF f < no_channels * sampleCnt THEN planar[f] ELSE p_data[f]]
    /\ phase' = "sent"
    /\ UNCHANGED <<frameVars, file, frame, read, pointers, no_channels, no_samples,
                   stride, sortVars>>

\* NDI takes the frame, and the pool gives it out for the next one.
SendAudio ==
    /\ phase = "sent"
    /\ frame' = frame + 1
    /\ phase' = "samples"
    /\ UNCHANGED <<frameVars, file, read, pointers, ndiVars, sortVars>>

SentToNDI == TooLong \/ Describe \/ Sort \/ Resampled \/ SendAudio

Next == Load \/ SentToNDI

Spec == Init /\ [][Next]_vars

-----------------------------------------------------------------------------
(* Properties.                                                             *)

TypeOK ==
    /\ bits \in BitsPerSample /\ channels \in NumChannels
    /\ frame \in Nat /\ read \in BOOLEAN
    /\ phase \in {"samples", "channels", "read", "convert", "resample", "sort", "sent"}
    /\ i \in Nat /\ cnl \in Nat /\ dest32 \in Nat /\ dest16 \in Nat
    /\ source32 \in Nat /\ source8 \in Nat
    /\ nIndex \in Nat /\ k \in Nat /\ pAudioNew \in Nat
    /\ sampleCnt \in Nat \ {0} /\ monoCnt = NbChannel
    /\ no_channels = NbChannel /\ no_samples \in 1 .. MaxSamples /\ stride \in 1 .. MaxSamples
    /\ DOMAIN planar = Floats /\ DOMAIN p_data = Floats

\* The buffer of the frame is large enough for its samples.
BufferFits ==
    /\ rawSize = sampleCnt * NbChannel * Bytes
    /\ totalSize \in Nat /\ totalSize >= rawSize + Header
    /\ DOMAIN raw = Halves(totalSize - Header)

\* Each pointer is where the counters of the loops say.
Taken == IF cnl < channels THEN cnl ELSE channels
AtCounters ==
    phase = "convert" =>
        /\ read /\ i <= sampleCnt /\ cnl < NbChannel /\ (i = sampleCnt => cnl = 0)
        /\ bits # 16 => dest32 = 4 * (i * NbChannel + cnl)
        /\ bits = 32 => source32 = 4 * (i * channels + Taken)
        /\ bits = 24 => source8 = 3 * (i * channels + Taken)

SortAtCounters ==
    phase = "sort" =>
        /\ no_samples = sampleCnt /\ stride = sampleCnt
        /\ nIndex <= NbChannel /\ k < sampleCnt /\ (nIndex = NbChannel => k = 0)
        /\ pAudioNew = nIndex * sampleCnt + k

\* What has been converted is in its place, each channel from the same channel
\* of the file, and the rest of the frame is still mute.  Files with 16 bits
\* are left out: Convert16 neither moves pDest32 nor fills a sample.
Done(s, c) == phase # "convert" \/ s < i \/ (s = i /\ c < cnl)
ChannelsConverted ==
    bits # 16 /\ phase \in {"convert", "resample", "sort", "sent"} =>
        \A s \in 0 .. sampleCnt - 1, c \in 0 .. NbChannel - 1 :
            Holds(s, c, IF Done(s, c) THEN Want(s, c) ELSE Mute)

\* What has been sorted is in the plane of its channel.
ChannelsSorted ==
    bits # 16 /\ phase = "sort" =>
        \A s \in 0 .. sampleCnt - 1, c \in 0 .. NbChannel - 1 :
            c < nIndex \/ (c = nIndex /\ s < k) => planar[c * sampleCnt + s] = Want(s, c)

\* What NDI is given is the audio of this frame, sample by sample, each channel
\* of the file in the channel of the same number and silence in the others,
\* whatever frames of other lengths have used the buffers before; it is silence
\* when the frame is too long or nothing could be read.
HeardRight ==
    bits # 16 /\ phase = "sent" =>
        \A s \in 0 .. no_samples - 1, c \in 0 .. no_channels - 1 :
            p_data[c * stride + s] = IF sampleCnt > MaxSamples THEN Mute ELSE Want(s, c)

\* The inductive invariant.
IInv ==
    /\ TypeOK /\ BufferFits /\ AtCounters /\ SortAtCounters
    /\ ChannelsConverted /\ ChannelsSorted /\ HeardRight
=============================================================================
