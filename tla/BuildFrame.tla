----------------------------- MODULE BuildFrame -----------------------------
(***************************************************************************)
(* The frames that CFrameProviderYuvFile builds: frame number m_dwTimes    *)
(* gets m_dwCycleValue[m_dwTimes % m_maxAudioSample] samples of audio and  *)
(* the next picture of the video file.  The number advances whether the    *)
(* picture could be read or not.                                           *)
(***************************************************************************)
EXTENDS VideoFile

CONSTANT MaxTimes       \* bound: frames built

ASSUME CadenceAssumption == MaxTimes \in Nat

VARIABLES
    m_dwTimes,          \* the number of the next frame
    heard               \* samples of the frames before

vars == <<fileVars, m_dwTimes, heard>>

\* The constructor, and the start of addChannel.
Init == InitFile /\ m_dwTimes = 0 /\ heard = 0

\* loadAudioFrameFromDisk: the samples of the frame.
nCurSampleCnt == SamplesOf(fpVideoFormat, m_dwTimes)

buildFrame ==
    /\ m_dwTimes < MaxTimes
    /\ loadVideoFrameFromDisk
    /\ heard' = heard + nCurSampleCnt
    /\ m_dwTimes' = m_dwTimes + 1

Next ==
    \/ buildFrame
    \/ (InitVideo \/ CloseVideoFile) /\ UNCHANGED <<m_dwTimes, heard>>

Spec == Init /\ [][Next]_vars

-----------------------------------------------------------------------------

TypeOK == FileTypeOK /\ m_dwTimes \in 0 .. MaxTimes /\ heard \in Nat

\* Where the audio stands in a cadence, in the unit of Actual and Exact.
Lead(f, place) ==
    CASE getFrameRateDen(f) = 1001 /\ getFrameRateNum(f) = 30000 -> <<0, 12000, -6000, 6000, -12000>>[place + 1]
      [] getFrameRateDen(f) = 1001 /\ getFrameRateNum(f) = 60000 -> 12000 * place
      [] OTHER -> 0

\* How many samples the frames before this one last, times the frame rate.
Exact == 48000 * getFrameRateDen(fpVideoFormat) * m_dwTimes
Actual == heard * getFrameRateNum(fpVideoFormat)

\* The audio is where the cadence puts it, whatever the number of frames.
InPhase == Actual - Exact = Lead(fpVideoFormat, m_dwTimes % Len(getFrameSamples(fpVideoFormat)))

\* The inductive invariant.
IInv == TypeOK /\ InPhase

\* Audio and video never drift apart by a sample, after any number of frames:
\* the cadences of mxf_spf add up to the frame rates of mxf_spfx.
WithinOneSample ==
    /\ Actual - Exact < getFrameRateNum(fpVideoFormat)
    /\ Exact - Actual < getFrameRateNum(fpVideoFormat)
=============================================================================
