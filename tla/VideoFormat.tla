---------------------------- MODULE VideoFormat ----------------------------
(***************************************************************************)
(* The video formats (VideoFormatDef.h) and what AudioSampleHeader.h lists *)
(* of them: the duration of a frame and the numbers of audio samples that  *)
(* successive frames carry, at 48000 samples a second.                     *)
(***************************************************************************)
EXTENDS Integers, Sequences, FiniteSets

Format(lines, scan, rates) == [lines : {lines}, scan : {scan}, rate : rates]

\* The formats with a row in mxf_spfx.
Listed ==
    Format(1080, "i", {5000, 5994, 6000})
    \cup Format(1080, "p", {2398, 2400, 2500, 2997, 3000, 5000, 5994, 6000})
    \cup Format(720, "p", {2500, 2997, 5000, 5994, 6000})
    \cup UNION {Format(lines, "p", {2400, 2500, 2997, 3000, 5000, 5994, 6000}) : lines \in {2160, 4320}}

UNKNOWN == [lines |-> 0, scan |-> "none", rate |-> 0]
SD_525_5994 == [lines |-> 525, scan |-> "none", rate |-> 5994]
SD_625_5000 == [lines |-> 625, scan |-> "none", rate |-> 5000]

\* The values of the enumeration.
FPTVideoFormat == Listed \cup {UNKNOWN, SD_525_5994, SD_625_5000}

\* The two fields of a frame every 100/99.9 of the nominal time.
Den(f) == IF f.rate \in {2398, 2997, 5994} THEN 1001 ELSE 1000

\* Frames in Den(f) seconds. An interlaced frame is two fields.
Nominal(f) ==
    CASE f.rate \in {2398, 2400} -> 24000
      [] f.rate = 2500 \/ (f.rate = 5000 /\ f.scan = "i") -> 25000
      [] f.rate \in {2997, 3000} \/ (f.rate \in {5994, 6000} /\ f.scan = "i") -> 30000
      [] f.rate = 5000 /\ f.scan = "p" -> 50000
      [] f.rate \in {5994, 6000} /\ f.scan = "p" -> 60000

\* getFrameRateNum and getFrameRateDen: the row of UNKNOWN has zeros, and is
\* taken for a format without a row too, unless what is behind the 31 rows looks
\* like one of it: the loop reads 33. Zeros here; the modules that use these for a
\* format that is not listed allow for other values.
getFrameRateNum(f) == IF f \in Listed THEN Nominal(f) ELSE 0
getFrameRateDen(f) == IF f \in Listed THEN Den(f) ELSE 0

\* getFrameWidth and getFrameHeight, of the same rows.
getFrameHeight(f) == IF f \in Listed THEN f.lines ELSE 0
getFrameWidth(f) ==
    CASE getFrameHeight(f) = 1080 -> 1920
      [] getFrameHeight(f) = 720 -> 1280
      [] getFrameHeight(f) = 2160 -> 3840
      [] getFrameHeight(f) = 4320 -> 7680
      [] OTHER -> 0

\* Mutant: 59.94 frames a second with the same number of samples in each.
CadenceFlat(den, num) ==
    CASE den = 1001 /\ num = 24000 -> <<2002>>
      [] den = 1001 /\ num = 30000 -> <<1602, 1601, 1602, 1601, 1602>>
      [] den = 1001 /\ num = 60000 -> <<801>>
      [] den = 1000 /\ num # 0 -> <<48000000 \div num>>
      [] OTHER -> <<>>

\* The rows of mxf_spf without their zeros, by the duration of a frame; the
\* rows for 24, 25, 30, 50 and 60 have one number.
Cadence(den, num) ==
    CASE den = 1001 /\ num = 24000 -> <<2002>>
      [] den = 1001 /\ num = 30000 -> <<1602, 1601, 1602, 1601, 1602>>
      [] den = 1001 /\ num = 60000 -> <<801, 801, 801, 801, 800>>
      [] den = 1000 /\ num # 0 -> <<48000000 \div num>>
      [] OTHER -> <<>>

\* getFrameSamples of a format: what is found before the first zero.
getFrameSamples(f) == Cadence(getFrameRateDen(f), getFrameRateNum(f))

\* The samples of the frame that m_dwTimes numbers.
SamplesOf(f, times) ==
    LET arr == getFrameSamples(f) IN arr[(times % Len(arr)) + 1]
=============================================================================
