------------------------- MODULE BuildFrameProof -------------------------
(***************************************************************************)
(* Proofs about BuildFrame and Configurator, and that Playback is both: for *)
(* any set of listed formats, any number of frames and any Config.ini.     *)
(***************************************************************************)
EXTENDS Playback, WellFoundedInduction, TLAPS

(* The formats of the channels are listed ones, the files have a length.   *)
LEMMA Assumed == Formats \subseteq Listed /\ VideoFiles \subseteq VideoFileType /\ MaxTimes \in Nat
  BY FileAssumption, CadenceAssumption DEF FileAssumption, CadenceAssumption

\* The durations of a frame in mxf_spfx.
Durations == {<<1001, 24000>>, <<1000, 24000>>, <<1000, 25000>>, <<1001, 30000>>,
              <<1000, 30000>>, <<1000, 50000>>, <<1001, 60000>>, <<1000, 60000>>}

\* A listed format has one of these durations, and so a row in mxf_spf:
\* no format of mxf_spfx is refused by initAudio.
LEMMA ListedDuration ==
    ASSUME NEW f \in Listed
    PROVE  <<getFrameRateDen(f), getFrameRateNum(f)>> \in Durations
<1>1. /\ f.scan = "i" => f.rate \in {5000, 5994, 6000}
      /\ f.scan \in {"i", "p"}
      /\ f.rate \in {2398, 2400, 2500, 2997, 3000, 5000, 5994, 6000}
    BY DEF Listed, Format
<1>2. CASE f.scan = "i"
    BY <1>1, <1>2 DEF getFrameRateDen, getFrameRateNum, Den, Nominal, Durations
<1>3. CASE f.scan = "p"
    BY <1>1, <1>3 DEF getFrameRateDen, getFrameRateNum, Den, Nominal, Durations
<1> QED BY <1>1, <1>2, <1>3

(* Each listed format has its row in each of the tables.                   *)
LEMMA Sizes ==
  ASSUME NEW f \in Listed
  PROVE  /\ BufferSize(f) \in Nat \ {0}
         /\ BufferSize(f) = Described(f).line_stride_in_bytes * Described(f).yres
         /\ FrameSize(f).width = Described(f).xres
         /\ FrameSize(f).isInterlaced <=> Described(f).interleaved
<1> DEFINE Told(w, h) == /\ Described(f).xres = w /\ Described(f).yres = h
                         /\ Described(f).line_stride_in_bytes = w * 2
<1>0. /\ Described(f).interleaved <=> ~isProgressive(f)
      /\ \A w, h : getFrameWidth(f) = w /\ getFrameHeight(f) = h => Told(w, h)
  BY DEF Described
<1>1. CASE f \in Format(1080, "i", {5000, 5994, 6000})
  <2>1. videoFormatToHeight(f) = 1080 /\ getFrameHeight(f) = 1080
    BY <1>1 DEF videoFormatToHeight, getFrameHeight, Format
  <2>2. isVideoFormatInterlaced(f) /\ ~isProgressive(f)
    BY <1>1 DEF isVideoFormatInterlaced, isProgressive, Format
  <2>3. FrameSize(f) = Picture(1920, 1080, isVideoFormatInterlaced(f))
    BY <2>1 DEF FrameSize
  <2>4. /\ FrameSize(f).width = 1920 /\ FrameSize(f).height = 1080
        /\ FrameSize(f).isInterlaced <=> ~isProgressive(f)
    BY <2>2, <2>3 DEF Picture
  <2>5. Told(1920, 1080)
    BY <1>0, <2>1 DEF getFrameWidth
  <2> QED BY <1>0, <2>4, <2>5 DEF BufferSize
<1>2. CASE f \in Format(1080, "p", {2398, 2400, 2500, 2997, 3000, 5000, 5994, 6000})
  <2>1. videoFormatToHeight(f) = 1080 /\ getFrameHeight(f) = 1080
    BY <1>2 DEF videoFormatToHeight, getFrameHeight, Format
  <2>2. ~isVideoFormatInterlaced(f) /\ isProgressive(f)
    BY <1>2 DEF isVideoFormatInterlaced, isProgressive, Format
  <2>3. FrameSize(f) = Picture(1920, 1080, isVideoFormatInterlaced(f))
    BY <2>1 DEF FrameSize
  <2>4. /\ FrameSize(f).width = 1920 /\ FrameSize(f).height = 1080
        /\ FrameSize(f).isInterlaced <=> ~isProgressive(f)
    BY <2>2, <2>3 DEF Picture
  <2>5. Told(1920, 1080)
    BY <1>0, <2>1 DEF getFrameWidth
  <2> QED BY <1>0, <2>4, <2>5 DEF BufferSize
<1>3. CASE f \in Format(720, "p", {2500, 2997, 5000, 5994, 6000})
  <2>1. videoFormatToHeight(f) = 720 /\ getFrameHeight(f) = 720
    BY <1>3 DEF videoFormatToHeight, getFrameHeight, Format
  <2>2. ~isVideoFormatInterlaced(f) /\ isProgressive(f)
    BY <1>3 DEF isVideoFormatInterlaced, isProgressive, Format
  <2>3. FrameSize(f) = Picture(1280, 720, FALSE)
    BY <2>1 DEF FrameSize
  <2>4. /\ FrameSize(f).width = 1280 /\ FrameSize(f).height = 720
        /\ FrameSize(f).isInterlaced <=> ~isProgressive(f)
    BY <2>2, <2>3 DEF Picture
  <2>5. Told(1280, 720)
    BY <1>0, <2>1 DEF getFrameWidth
  <2> QED BY <1>0, <2>4, <2>5 DEF BufferSize
<1>4. CASE f \in Format(2160, "p", {2400, 2500, 2997, 3000, 5000, 5994, 6000})
  <2>1. videoFormatToHeight(f) = 2160 /\ getFrameHeight(f) = 2160
    BY <1>4 DEF videoFormatToHeight, getFrameHeight, Format
  <2>2. ~isVideoFormatInterlaced(f) /\ isProgressive(f)
    BY <1>4 DEF isVideoFormatInterlaced, isProgressive, Format
  <2>3. FrameSize(f) = Picture(3840, 2160, FALSE)
    BY <2>1 DEF FrameSize
  <2>4. /\ FrameSize(f).width = 3840 /\ FrameSize(f).height = 2160
        /\ FrameSize(f).isInterlaced <=> ~isProgressive(f)
    BY <2>2, <2>3 DEF Picture
  <2>5. Told(3840, 2160)
    BY <1>0, <2>1 DEF getFrameWidth
  <2> QED BY <1>0, <2>4, <2>5 DEF BufferSize
<1>5. CASE f \in Format(4320, "p", {2400, 2500, 2997, 3000, 5000, 5994, 6000})
  <2>1. videoFormatToHeight(f) = 4320 /\ getFrameHeight(f) = 4320
    BY <1>5 DEF videoFormatToHeight, getFrameHeight, Format
  <2>2. ~isVideoFormatInterlaced(f) /\ isProgressive(f)
    BY <1>5 DEF isVideoFormatInterlaced, isProgressive, Format
  <2>3. FrameSize(f) = Picture(7680, 4320, FALSE)
    BY <2>1 DEF FrameSize
  <2>4. /\ FrameSize(f).width = 7680 /\ FrameSize(f).height = 4320
        /\ FrameSize(f).isInterlaced <=> ~isProgressive(f)
    BY <2>2, <2>3 DEF Picture
  <2>5. Told(7680, 4320)
    BY <1>0, <2>1 DEF getFrameWidth
  <2> QED BY <1>0, <2>4, <2>5 DEF BufferSize
<1> QED BY <1>1, <1>2, <1>3, <1>4, <1>5 DEF Listed

\* What one frame adds to the lead of the audio is what the phase says.
LEMMA OneFrame ==
    ASSUME NEW f \in Listed, NEW t \in Nat
    PROVE  LET den == getFrameRateDen(f)
               num == getFrameRateNum(f)
               len == Len(getFrameSamples(f))
           IN  /\ SamplesOf(f, t) \in Nat
               /\ SamplesOf(f, t) * num - 48000 * den = Lead(f, (t + 1) % len) - Lead(f, t % len)
<1> DEFINE den == getFrameRateDen(f)
           num == getFrameRateNum(f)
<1> HIDE DEF den, num
<1>1. <<den, num>> \in Durations
    BY ListedDuration DEF den, num
<1>2. getFrameSamples(f) = Cadence(den, num)
    BY DEF getFrameSamples, den, num
<1>3. \A p : Lead(f, p) = CASE den = 1001 /\ num = 30000 -> <<0, 12000, -6000, 6000, -12000>>[p + 1]
                            [] den = 1001 /\ num = 60000 -> 12000 * p
                            [] OTHER -> 0
    BY DEF Lead, den, num
<1>4. SamplesOf(f, t) = Cadence(den, num)[(t % Len(Cadence(den, num))) + 1]
    BY <1>2 DEF SamplesOf
<1>5. CASE den = 1001 /\ num = 30000
  <2>1. Cadence(den, num) = <<1602, 1601, 1602, 1601, 1602>>
      BY <1>5 DEF Cadence
  <2>2. Len(Cadence(den, num)) = 5
      BY <2>1
  <2>3. PICK p \in 0 .. 4 : t % 5 = p /\ (t + 1) % 5 = IF p = 4 THEN 0 ELSE p + 1
      OBVIOUS
  <2>4. SamplesOf(f, t) = <<1602, 1601, 1602, 1601, 1602>>[p + 1]
      BY <1>4, <2>1, <2>2, <2>3
  <2>5. Lead(f, p) = <<0, 12000, -6000, 6000, -12000>>[p + 1]
      BY <1>3, <1>5
  <2>6. Lead(f, (t + 1) % 5) = IF p = 4 THEN 0 ELSE <<0, 12000, -6000, 6000, -12000>>[p + 2]
      BY <1>3, <1>5, <2>3
  <2>7. SamplesOf(f, t) \in Nat /\ SamplesOf(f, t) * num - 48000 * den = Lead(f, (t + 1) % 5) - Lead(f, p)
      BY <1>5, <2>4, <2>5, <2>6
  <2> QED BY <1>2, <2>2, <2>3, <2>7 DEF den, num
<1>6. CASE den = 1001 /\ num = 60000
  <2>1. Cadence(den, num) = <<801, 801, 801, 801, 800>>
      BY <1>6 DEF Cadence
  <2>2. Len(Cadence(den, num)) = 5
      BY <2>1
  <2>3. PICK p \in 0 .. 4 : t % 5 = p /\ (t + 1) % 5 = IF p = 4 THEN 0 ELSE p + 1
      OBVIOUS
  <2>4. SamplesOf(f, t) = <<801, 801, 801, 801, 800>>[p + 1]
      BY <1>4, <2>1, <2>2, <2>3
  <2>5. Lead(f, p) = 12000 * p
      BY <1>3, <1>6
  <2>6. Lead(f, (t + 1) % 5) = IF p = 4 THEN 0 ELSE 12000 * (p + 1)
      BY <1>3, <1>6, <2>3
  <2>7. SamplesOf(f, t) \in Nat /\ SamplesOf(f, t) * num - 48000 * den = Lead(f, (t + 1) % 5) - Lead(f, p)
      BY <1>6, <2>4, <2>5, <2>6
  <2> QED BY <1>2, <2>2, <2>3, <2>7 DEF den, num
<1>7. CASE den = 1001 /\ num = 24000
  <2>1. Cadence(den, num) = <<2002>>
      BY <1>7 DEF Cadence
  <2>2. SamplesOf(f, t) = 2002
      BY <1>4, <2>1
  <2>3. \A p : Lead(f, p) = 0
      BY <1>3, <1>7
  <2> QED BY <1>7, <2>2, <2>3 DEF den, num
<1>8. CASE den = 1000
  <2>1. num \in {24000, 25000, 30000, 50000, 60000}
      BY <1>1, <1>8 DEF Durations
  <2>2. Cadence(den, num) = <<48000000 \div num>>
      BY <1>8, <2>1 DEF Cadence
  <2>3. SamplesOf(f, t) = 48000000 \div num
      BY <1>4, <2>2
  <2>4. 48000000 \div num \in Nat /\ (48000000 \div num) * num = 48000000
      BY <2>1
  <2>5. \A p : Lead(f, p) = 0
      BY <1>3, <1>8
  <2> QED BY <1>8, <2>3, <2>4, <2>5 DEF den, num
<1> QED BY <1>1, <1>5, <1>6, <1>7, <1>8 DEF Durations

\* The lead is always less than a sample, ahead or behind.
LEMMA LeadBound ==
    ASSUME NEW f \in Listed, NEW t \in Nat
    PROVE  LET lead == Lead(f, t % Len(getFrameSamples(f)))
           IN  /\ lead \in Int /\ (t = 0 => lead = 0)
               /\ lead < getFrameRateNum(f) /\ -lead < getFrameRateNum(f)
<1> DEFINE den == getFrameRateDen(f)
           num == getFrameRateNum(f)
           len == Len(getFrameSamples(f))
<1> HIDE DEF den, num
<1>1. <<den, num>> \in Durations
    BY ListedDuration DEF den, num
<1>2. getFrameSamples(f) = Cadence(den, num)
    BY DEF getFrameSamples, den, num
<1>3. CASE den = 1001 /\ num = 30000
  <2>1. len = 5
      BY <1>2, <1>3 DEF Cadence
  <2>2. Lead(f, t % len) = <<0, 12000, -6000, 6000, -12000>>[(t % len) + 1]
      BY <1>3 DEF Lead, den, num
  <2>3. t % 5 \in {0, 1, 2, 3, 4} /\ (t = 0 => t % 5 = 0)
      OBVIOUS
  <2> QED BY <1>3, <2>1, <2>2, <2>3 DEF num
<1>4. CASE den = 1001 /\ num = 60000
  <2>1. len = 5
      BY <1>2, <1>4 DEF Cadence
  <2>2. Lead(f, t % len) = 12000 * (t % len)
      BY <1>4 DEF Lead, den, num
  <2>3. t % 5 \in 0 .. 4 /\ (t = 0 => t % 5 = 0)
      OBVIOUS
  <2> QED BY <1>4, <2>1, <2>2, <2>3 DEF num
<1>5. CASE ~(den = 1001 /\ num \in {30000, 60000})
  <2>1. Lead(f, t % len) = 0
      BY <1>5 DEF Lead, den, num
  <2>2. num > 0 /\ num \in Int
      BY <1>1 DEF Durations
  <2> QED BY <2>1, <2>2 DEF num
<1> QED BY <1>3, <1>4, <1>5

-----------------------------------------------------------------------------

(* What the file part keeps of its types, and of the format.               *)
LEMMA FileStep ==
  ASSUME FileTypeOK,
         InitVideo \/ loadVideoFrameFromDisk \/ CloseVideoFile \/ UNCHANGED fileVars
  PROVE  FileTypeOK' /\ fpVideoFormat' = fpVideoFormat
<1>1. videoFile.length \in Nat /\ fpVideoFormat \in Listed
  BY Assumed DEF FileTypeOK, VideoFileType
<1>2. m_usedSize \in Nat
  BY <1>1, Sizes DEF m_usedSize
<1>3. CASE InitVideo
  BY <1>1, <1>3 DEF InitVideo, OpenVideoFails, OldYuvFile, InitVideoOkay, FileTypeOK
<1>4. CASE loadVideoFrameFromDisk
  <2>1. pos \in 0 .. videoFile.length
    BY DEF FileTypeOK
  <2>2. pos' \in 0 .. videoFile.length /\ picture' \in [from : Nat, to : Nat]
    BY <1>1, <1>2, <1>4, <2>1 DEF loadVideoFrameFromDisk, ReadOn, ReadAgain, SetToBlack, Black
  <2> QED BY <1>4, <2>2 DEF loadVideoFrameFromDisk, FileTypeOK
<1>5. CASE CloseVideoFile \/ UNCHANGED fileVars
  BY <1>5 DEF CloseVideoFile, fileVars, FileTypeOK
<1> QED BY <1>3, <1>4, <1>5

LEMMA InitIInv == Init => IInv
<1> SUFFICES ASSUME Init PROVE IInv
    OBVIOUS
<1>1. fpVideoFormat \in Listed
    BY Assumed DEF Init, InitFile
<1>2. getFrameRateDen(fpVideoFormat) \in Nat /\ getFrameRateNum(fpVideoFormat) \in Nat
    BY <1>1, ListedDuration DEF Durations
<1>3. Actual = 0 /\ Exact = 0
    BY <1>2 DEF Init, Actual, Exact
<1>4. InPhase
    BY <1>1, <1>3, LeadBound DEF Init, InPhase
<1>5. TypeOK
    BY Assumed DEF Init, InitFile, TypeOK, FileTypeOK, VideoFileType, Black
<1> QED BY <1>4, <1>5 DEF IInv

LEMMA NextIInv == IInv /\ [Next]_vars => IInv'
<1> SUFFICES ASSUME IInv, [Next]_vars PROVE IInv'
    OBVIOUS
<1> USE DEF IInv
<1>1. CASE buildFrame
  <2> DEFINE f == fpVideoFormat
             den == getFrameRateDen(f)
             num == getFrameRateNum(f)
             s == SamplesOf(f, m_dwTimes)
             len == Len(getFrameSamples(f))
  <2>1. f \in Listed /\ m_dwTimes \in Nat /\ heard \in Nat
      BY Assumed DEF TypeOK, FileTypeOK
  <2>2. den \in Nat /\ num \in Nat
      BY <2>1, ListedDuration DEF Durations
  <2>3. s \in Nat /\ s * num - 48000 * den = Lead(f, (m_dwTimes + 1) % len) - Lead(f, m_dwTimes % len)
      BY <2>1, OneFrame
  <2>4. TypeOK'
    <3>1. FileTypeOK'
        BY <1>1, FileStep DEF buildFrame, TypeOK
    <3>2. m_dwTimes + 1 \in 0 .. MaxTimes /\ heard + s \in Nat
        BY <1>1, <2>1, <2>3, Assumed DEF buildFrame
    <3>3. m_dwTimes' = m_dwTimes + 1 /\ heard' = heard + s
        BY <1>1 DEF buildFrame, nCurSampleCnt
    <3> QED BY <3>1, <3>2, <3>3 DEF TypeOK
  <2>5. Lead(f, (m_dwTimes + 1) % len) \in Int /\ Lead(f, m_dwTimes % len) \in Int
    <3>1. m_dwTimes + 1 \in Nat
        BY <2>1
    <3>2. \A t \in Nat : Lead(f, t % len) \in Int
        BY <2>1, LeadBound
    <3> QED BY <2>1, <3>1, <3>2
  <2>6. heard * num - 48000 * den * m_dwTimes = Lead(f, m_dwTimes % len)
      BY DEF InPhase, Actual, Exact
  <2>7. (heard + s) * num - 48000 * den * (m_dwTimes + 1) = Lead(f, (m_dwTimes + 1) % len)
    <3>1. \A a, b, n, d, k \in Int :
             (a + b) * n - 48000 * d * (k + 1) = (a * n - 48000 * d * k) + (b * n - 48000 * d)
        OBVIOUS
    <3>2. (heard + s) * num - 48000 * den * (m_dwTimes + 1)
             = (heard * num - 48000 * den * m_dwTimes) + (s * num - 48000 * den)
        BY <2>1, <2>2, <2>3, <3>1
    <3> HIDE DEF den, num, s, len, f
    <3> QED BY <2>3, <2>5, <2>6, <3>2
  <2>8. InPhase'
      BY <1>1, <2>7 DEF InPhase, Actual, Exact, buildFrame, loadVideoFrameFromDisk, nCurSampleCnt
  <2> QED BY <2>4, <2>8
<1>2. CASE (InitVideo \/ CloseVideoFile \/ UNCHANGED fileVars) /\ UNCHANGED <<m_dwTimes, heard>>
  <2>1. FileTypeOK' /\ fpVideoFormat' = fpVideoFormat
      BY <1>2, FileStep DEF TypeOK
  <2> QED BY <1>2, <2>1 DEF TypeOK, InPhase, Actual, Exact
<1> QED BY <1>1, <1>2 DEF Next, vars

\* After any number of frames the audio is where its cadence puts it.
THEOREM Invariance == Spec => []IInv
<1> QED BY InitIInv, NextIInv, PTL DEF Spec

\* Audio and video never drift apart by a sample, however long the channel
\* plays, in every format that mxf_spfx lists.
THEOREM NoDrift == Spec => []WithinOneSample
<1>1. IInv => WithinOneSample
  <2> SUFFICES ASSUME IInv PROVE WithinOneSample
      OBVIOUS
  <2> DEFINE f == fpVideoFormat
             lead == Lead(f, m_dwTimes % Len(getFrameSamples(f)))
  <2>1. f \in Listed /\ m_dwTimes \in Nat /\ heard \in Nat
      BY Assumed DEF IInv, TypeOK, FileTypeOK
  <2>2. getFrameRateDen(f) \in Nat /\ getFrameRateNum(f) \in Nat
      BY <2>1, ListedDuration DEF Durations
  <2>3. lead \in Int /\ lead < getFrameRateNum(f) /\ -lead < getFrameRateNum(f)
      BY <2>1, LeadBound
  <2>4. Actual \in Int /\ Exact \in Int
      BY <2>1, <2>2 DEF Actual, Exact
  <2>5. Actual - Exact = lead
      BY DEF IInv, InPhase
  <2> HIDE DEF lead
  <2> QED BY <2>2, <2>3, <2>4, <2>5 DEF WithinOneSample
<1> QED BY <1>1, Invariance, PTL

-----------------------------------------------------------------------------
(* The pictures.                                                           *)

(* In every listed format NDI is told the picture that the buffer holds:   *)
(* the tables of three files agree.                                        *)
THEOREM OneFormatEverywhere == Spec => []TablesAgree
<1>1. IInv => TablesAgree
  <2> SUFFICES ASSUME IInv PROVE TablesAgree
    OBVIOUS
  <2> DEFINE f == fpVideoFormat
  <2>1. f \in Listed
    BY Assumed DEF IInv, TypeOK, FileTypeOK
  <2>2. isDropNTSC(f) <=> getFrameRateDen(f) = 1001
    <3>1. f.rate \in {2398, 2997, 5994} <=> isDropNTSC(f)
      BY <2>1 DEF Listed, Format, isDropNTSC
    <3> QED BY <2>1, <3>1 DEF getFrameRateDen, Den
  <2> QED BY <2>1, <2>2, Sizes DEF TablesAgree, m_usedSize
<1> QED BY <1>1, Invariance, PTL

(* The pictures of the file are played whole, in order, and from its start *)
(* again when less than one is left, for files of every length.            *)
THEOREM PicturesPlayed == Spec => PicturesInOrder
<1>1. Init => Tape!Init
  BY DEF Init, InitFile, Tape!Init, Tape!Silence, TapeLength, Opened, Black
<1>2. IInv /\ [Next]_vars => [Tape!Next]_<<TapeLength, pos, picture>>
  <2> SUFFICES ASSUME IInv, [Next]_vars PROVE [Tape!Next]_<<TapeLength, pos, picture>>
    OBVIOUS
  <2>0. videoFile.length \in Nat /\ fpVideoFormat \in Formats
    BY Assumed DEF IInv, TypeOK, FileTypeOK, VideoFileType
  <2>1. CASE loadVideoFrameFromDisk
    <3> DEFINE n == m_usedSize
    <3>1. n \in {BufferSize(f) : f \in Formats}
      BY <2>0 DEF m_usedSize
    <3>2. TapeLength = videoFile.length /\ TapeLength' = TapeLength
      BY <2>1 DEF loadVideoFrameFromDisk, TapeLength, Opened
    <3>3. Tape!Play(n) \/ Tape!Restart(n) \/ Tape!PlayNothing(n)
      BY <2>1, <3>2 DEF loadVideoFrameFromDisk, ReadOn, ReadAgain, SetToBlack, Black,
         Tape!Play, Tape!Restart, Tape!PlayNothing, Tape!Silence
    <3> QED BY <3>1, <3>3 DEF Tape!Next
  <2>2. CASE InitVideoOkay
    <3>1. TapeLength = 0 /\ TapeLength' = videoFile.length
      BY <2>2 DEF InitVideoOkay, TapeLength, Opened
    <3> QED BY <2>0, <2>2, <3>1 DEF InitVideoOkay, Tape!Next, Tape!Insert
  <2>3. CASE OpenVideoFails \/ OldYuvFile \/ CloseVideoFile \/ UNCHANGED fileVars
    BY <2>3 DEF OpenVideoFails, OldYuvFile, CloseVideoFile, fileVars, TapeLength, Opened
  <2> QED BY <2>1, <2>2, <2>3 DEF Next, vars, buildFrame, InitVideo
<1> QED BY <1>1, <1>2, Invariance, PTL DEF Spec, PicturesInOrder, Tape!Spec

-----------------------------------------------------------------------------
(* Configurator.                                                           *)

(* A set of lines has a first one.                                         *)
LEMMA FirstIsFound ==
    ASSUME NEW found, found \subseteq Nat, found # {}
    PROVE  LET first == CHOOSE i \in found : \A j \in found : i <= j
           IN  first \in found /\ \A j \in found : first <= j
<1> DEFINE R == {ss \in Nat \X Nat : ss[1] < ss[2]}
<1>1. IsWellFoundedOn(R, Nat)
    BY NatLessThanWellFounded DEF OpToRel
<1>2. \A x, y \in Nat : x < y => <<x, y>> \in R
    OBVIOUS
<1> HIDE DEF R
<1>3. PICK x \in found : \A y \in found : ~ (<<y, x>> \in R)
    BY <1>1, WFMin
<1>4. ASSUME NEW y \in found PROVE x <= y
  <2>1. x \in Nat /\ y \in Nat
    OBVIOUS
  <2>2. ~(y < x)
    BY <1>2, <1>3, <2>1, Zenon
  <2> QED BY <2>1, <2>2
<1> QED BY <1>4

(* The files have lines, the buffer holds no line yet.                     *)
LEMMA ConfigAssumed ==
    /\ \A f \in WindowsFiles \cup LinuxFiles : f.lines \in Seq(Line)
    /\ \A b \in Buffers : b.of = NoLine /\ b.strlen \in Nat
    /\ NbRecorders \in 0 .. 99
  BY ConfiguratorAssumption DEF ConfiguratorAssumption

(* The line that a camera is given is one with its key.                    *)
LEMMA OwnLine ==
    ASSUME file.lines \in Seq(Line), NEW c \in Nat
    PROVE  /\ LinesOf(c) # {} => FirstOf(LinesOf(c)) \in Line /\ FirstOf(LinesOf(c)).key = c
           /\ LinesWith(c) # {} => FirstOf(LinesWith(c)) \in Line
<1> DEFINE n == Len(file.lines)
           first(found) == CHOOSE i \in found : \A j \in found : i <= j
<1>1. n \in Nat /\ DOMAIN file.lines = 1 .. n /\ \A i \in 1 .. n : file.lines[i] \in Line
    OBVIOUS
<1>2. LinesOf(c) \subseteq LinesWith(c) /\ LinesWith(c) \subseteq 1 .. n
    BY <1>1 DEF LinesOf, LinesWith, StartsWith
<1>3. LinesOf(c) # {} =>
        first(LinesOf(c)) \in LinesOf(c) /\ \A j \in LinesOf(c) : first(LinesOf(c)) <= j
  <2>1. LinesOf(c) \subseteq Nat
    BY <1>2
  <2> QED BY <2>1, FirstIsFound
<1>4. LinesWith(c) # {} =>
        first(LinesWith(c)) \in LinesWith(c) /\ \A j \in LinesWith(c) : first(LinesWith(c)) <= j
  <2>1. LinesWith(c) \subseteq Nat
    BY <1>2
  <2> QED BY <2>1, FirstIsFound
<1>5. FirstOf(LinesOf(c)) = file.lines[first(LinesOf(c))]
      /\ FirstOf(LinesWith(c)) = file.lines[first(LinesWith(c))]
    BY DEF FirstOf
<1> HIDE DEF first
<1>6. LinesOf(c) # {} => FirstOf(LinesOf(c)) \in Line /\ FirstOf(LinesOf(c)).key = c
    BY <1>1, <1>2, <1>3, <1>5 DEF LinesOf
<1>7. LinesWith(c) # {} => FirstOf(LinesWith(c)) \in Line
    BY <1>1, <1>2, <1>4, <1>5
<1> QED BY <1>6, <1>7

(* What is found in a text that stands in the buffer: of a text alone both *)
(* names, of one with quotation marks behind it the name of the video.     *)
LEMMA NamesFound ==
    ASSUME NEW l \in Line, l.kind = "FILE", NEW value, value.of = l, Quotes(l) \subseteq value.quotes
    PROVE  /\ LoadLSMConfigValue(value).ok
           /\ LoadLSMConfigValue(value).video \in {l.key, 0}
           /\ value.quotes = Quotes(l) => LoadLSMConfigValue(value).audio = l.key
<1>1. l.v \in Nat /\ l.a \in Nat
    BY DEF Line
<1>2. VideoQuotes(l) \subseteq value.quotes /\ AudioQuotes(l) \subseteq value.quotes
    BY DEF Quotes
<1>3. \A q \in Quotes(l) : q <= 10 + l.v + l.a
    BY <1>1 DEF Quotes, VideoQuotes, AudioQuotes
<1> QED BY <1>2, <1>3 DEF LoadLSMConfigValue

(* What load of the Windows build has in its buffer after it has asked for *)
(* the next camera: the files of this camera when the file names them,     *)
(* else none.                                                              *)
LEMMA AsksForOwn ==
    ASSUME ConfigInv, windows, NEW c \in 1 .. NbRecorders, c = Len(recorder) + 1,
           NEW value \in readStringValue(c)
    PROVE  LET loaded == LoadLSMConfigValue(value) IN
           /\ loaded.ok <=> Given(c)
           /\ loaded.ok => loaded.video \in {c, 0} /\ loaded.audio = c
<1>1. file.lines \in Seq(Line) /\ c \in Nat
    BY ConfigAssumed DEF ConfigInv
<1> DEFINE l == FirstOf(LinesOf(c))
<1>2. LinesOf(c) # {} => l \in Line /\ l.key = c
    BY <1>1, OwnLine
<1>3. Given(c) <=> LinesOf(c) # {} /\ l.kind = "FILE"
    BY DEF Given
<1>4. CASE LinesOf(c) = {}
  <2>1. value.of.kind = "BLANK"
    BY <1>4 DEF readStringValue, ReadWindows, Text, NoLine
  <2> QED BY <1>3, <1>4, <2>1 DEF LoadLSMConfigValue
<1>5. CASE LinesOf(c) # {}
  <2>1. value.of = l /\ value.quotes = Quotes(l)
    BY <1>5 DEF readStringValue, ReadWindows, Text
  <2>2. CASE l.kind = "FILE"
    BY <1>2, <1>3, <1>5, <2>1, <2>2, NamesFound
  <2>3. CASE l.kind # "FILE"
    BY <1>3, <2>1, <2>3 DEF LoadLSMConfigValue
  <2> QED BY <2>2, <2>3
<1> QED BY <1>4, <1>5

(* Whatever the file, the text in the buffer is that of a line or of none. *)
LEMMA BufferTyped ==
    ASSUME ConfigInv, NEW c \in Nat, NEW value \in readStringValue(c)
    PROVE  /\ value.of \in Line \cup {NoLine} /\ value.strlen \in Nat
           /\ LoadLSMConfigValue(value) \in [ok : BOOLEAN, video : Nat, audio : Nat]
<1>1. file.lines \in Seq(Line)
    BY ConfigAssumed DEF ConfigInv
<1>2. \A l \in Line \cup {NoLine} : Size(l) \in Nat /\ Position(l) \in 6 .. 8 /\ l.key \in Nat
  <2>1. \A l \in Line \cup {NoLine} : l.v \in Nat /\ l.a \in Nat /\ l.key \in Nat
    BY DEF Line, NoLine
  <2> QED BY <2>1 DEF Size, Position
<1>3. value.of \in Line \cup {NoLine} /\ value.strlen \in Nat
  <2>1. CASE windows
    <3>1. value = Text(NoLine) \/ (LinesOf(c) # {} /\ value = Text(FirstOf(LinesOf(c))))
      BY <2>1 DEF readStringValue, ReadWindows
    <3> QED BY <1>1, <1>2, <3>1, OwnLine DEF Text
  <2>2. CASE ~windows
    <3>1. strValue.of \in Line \cup {NoLine} /\ strValue.strlen \in Nat
      BY DEF ConfigInv
    <3>2. CASE LinesWith(c) = {}
      BY <2>2, <3>1, <3>2 DEF readStringValue, IniReadValue
    <3>3. CASE LinesWith(c) # {}
      <4> DEFINE l == FirstOf(LinesWith(c))
      <4>1. l \in Line /\ value \in Overwritten(l)
        BY <1>1, <2>2, <3>3, OwnLine DEF readStringValue, IniReadValue
      <4> HIDE DEF l
      <4>2. Size(l) \in Nat /\ Position(l) \in 6 .. 8
        BY <1>2, <4>1
      <4> QED BY <3>1, <4>1, <4>2 DEF Overwritten
    <3> QED BY <3>2, <3>3
  <2> QED BY <2>1, <2>2
<1>4. LoadLSMConfigValue(value) \in [ok : BOOLEAN, video : Nat, audio : Nat]
    BY <1>2, <1>3 DEF LoadLSMConfigValue
<1> QED BY <1>3, <1>4

(* No camera has been found at first.                                      *)
LEMMA InitConfigInv == ConfigInit => ConfigInv
<1> SUFFICES ASSUME ConfigInit PROVE ConfigInv
    OBVIOUS
<1>1. file \in IF windows THEN WindowsFiles ELSE LinuxFiles
    BY DEF ConfigInit
<1>2. strValue.of = NoLine /\ strValue.strlen \in Nat /\ NoLine.kind # "FILE" /\ NbRecorders \in Nat
    BY ConfigAssumed DEF ConfigInit, NoLine
<1> QED BY <1>1, <1>2 DEF ConfigInit, ConfigInv

(* A camera that is found is the one that was asked for.                   *)
LEMMA NextConfigInv == ConfigInv /\ [ConfigNext]_configVars => ConfigInv'
<1> SUFFICES ASSUME ConfigInv, [ConfigNext]_configVars PROVE ConfigInv'
    OBVIOUS
<1>1. UNCHANGED <<windows, file>>
    BY DEF ConfigNext, configVars, ReadCamera, LastCamera, NoMoreRecorders, prepareData, OpenChannels
<1>2. \A c : Given(c)' <=> Given(c)
    BY <1>1 DEF Given, FirstOf, LinesOf
<1> DEFINE n == Len(recorder)
<1>3. n \in Nat /\ NbRecorders \in Nat
    BY ConfigAssumed DEF ConfigInv
<1>4. CASE ReadCamera
  <2>1. PICK value \in readStringValue(n + 1) :
          /\ phase = "cameras" /\ n < NbRecorders
          /\ LoadLSMConfigValue(value).ok
          /\ strValue' = value
          /\ recorder' = Append(recorder, LoadLSMConfigValue(value))
          /\ UNCHANGED <<windows, file, phase, opened>>
    BY <1>4 DEF ReadCamera
  <2> DEFINE loaded == LoadLSMConfigValue(value)
  <2>2. value.of \in Line \cup {NoLine} /\ value.strlen \in Nat
        /\ loaded \in [ok : BOOLEAN, video : Nat, audio : Nat]
    BY <1>3, BufferTyped
  <2>3. n + 1 \in 1 .. NbRecorders
    BY <1>3, <2>1
  <2>4. windows => Given(n + 1) /\ loaded.video \in {n + 1, 0} /\ loaded.audio = n + 1
    BY <2>1, <2>3, AsksForOwn
  <2> HIDE DEF loaded
  <2>5. /\ recorder' \in Seq([ok : BOOLEAN, video : Nat, audio : Nat])
        /\ Len(recorder') = n + 1 /\ recorder'[n + 1] = loaded
        /\ \A c \in 1 .. n : recorder'[c] = recorder[c]
    BY <2>1, <2>2 DEF ConfigInv, loaded
  <2>6. windows => \A c \in 1 .. n + 1 :
          Given(c) /\ recorder'[c].video \in {c, 0} /\ recorder'[c].audio = c
    <3> SUFFICES ASSUME windows, NEW c \in 1 .. n + 1
                 PROVE  Given(c) /\ recorder'[c].video \in {c, 0} /\ recorder'[c].audio = c
      OBVIOUS
    <3>1. c \in 1 .. n \/ c = n + 1
      BY <1>3
    <3>2. CASE c \in 1 .. n
      BY <2>5, <3>2 DEF ConfigInv
    <3>3. CASE c = n + 1
      BY <2>4, <2>5, <3>3
    <3> QED BY <3>1, <3>2, <3>3
  <2> QED BY <1>1, <1>2, <1>3, <2>1, <2>2, <2>3, <2>4, <2>5, <2>6 DEF ConfigInv
<1>5. CASE LastCamera
  <2>1. PICK value \in readStringValue(n + 1) :
          /\ phase = "cameras" /\ n < NbRecorders
          /\ ~LoadLSMConfigValue(value).ok /\ strValue' = value
          /\ phase' = "prepare"
          /\ UNCHANGED <<windows, file, recorder, opened>>
    BY <1>5 DEF LastCamera
  <2>2. value.of \in Line \cup {NoLine} /\ value.strlen \in Nat
    BY <1>3, BufferTyped
  <2>3. n + 1 \in 1 .. NbRecorders
    BY <1>3, <2>1
  <2>4. windows => ~Given(n + 1)
    BY <2>1, <2>3, AsksForOwn
  <2> QED BY <1>1, <1>2, <1>3, <2>1, <2>2, <2>4 DEF ConfigInv
<1>6. CASE NoMoreRecorders
    BY <1>1, <1>2, <1>6 DEF NoMoreRecorders, ConfigInv
<1>7. CASE prepareData
    BY <1>1, <1>2, <1>7 DEF prepareData, ConfigInv
<1>8. CASE OpenChannels
  <2>1. opened' \subseteq 1 .. n /\ \A c \in opened' : recorder[c].video # 0
    BY <1>3, <1>8 DEF OpenChannels
  <2>2. phase = "loaded" /\ phase' = "opened" /\ UNCHANGED <<windows, file, strValue, recorder>>
    BY <1>8 DEF OpenChannels
  <2> QED BY <1>1, <1>2, <2>1, <2>2 DEF ConfigInv
<1>9. CASE UNCHANGED configVars
    BY <1>1, <1>2, <1>9 DEF configVars, ConfigInv
<1> QED BY <1>4, <1>5, <1>6, <1>7, <1>8, <1>9 DEF ConfigNext

(* In the Windows build each camera that load has found has the files that *)
(* Config.ini gives it, and load ends where a camera has none; in both     *)
(* builds the buffer holds the text of some line and only cameras with a   *)
(* video are opened.                                                       *)
THEOREM ConfigInvariance == ConfigSpec => []ConfigInv
BY InitConfigInv, NextConfigInv, PTL DEF ConfigSpec

(* load of the Windows build finds the cameras before the first one        *)
(* without files, for any Config.ini and whatever its buffer holds before. *)
(* The Linux build does not: the run config_linux has a file for which it  *)
(* goes on behind the hole.                                                *)
THEOREM NoCameraBehindHole == ConfigSpec => [](windows => StopsAtHole)
<1>1. ConfigInv => (windows => StopsAtHole)
  <2> SUFFICES ASSUME ConfigInv, phase # "cameras", windows
               PROVE  1 .. Len(recorder) = {c \in 1 .. NbRecorders : \A d \in 1 .. c : Given(d)}
    BY DEF StopsAtHole
  <2> DEFINE n == Len(recorder)
  <2>1. n \in Nat /\ NbRecorders \in Nat /\ n <= NbRecorders
    <3>1. recorder \in Seq([ok : BOOLEAN, video : Nat, audio : Nat]) /\ n <= NbRecorders
      BY DEF ConfigInv
    <3> QED BY <3>1, ConfigAssumed
  <2>2. \A d \in 1 .. n : Given(d)
    BY DEF ConfigInv
  <2>3. n = NbRecorders \/ ~Given(n + 1)
    BY DEF ConfigInv
  <2> HIDE DEF n
  <2>4. ASSUME NEW c \in 1 .. NbRecorders, \A d \in 1 .. c : Given(d) PROVE c \in 1 .. n
    BY <2>1, <2>3, <2>4
  <2>5. ASSUME NEW c \in 1 .. n
        PROVE  c \in 1 .. NbRecorders /\ \A d \in 1 .. c : Given(d)
    BY <2>1, <2>2
  <2> QED BY <2>4, <2>5 DEF n
<1> QED BY <1>1, ConfigInvariance, PTL

(* A channel that main opens in the Windows build plays the video and the  *)
(* audio that Config.ini gives it, for any file.                           *)
THEOREM OwnFilesOpened == ConfigSpec => [](windows => OwnFiles)
<1>1. ConfigInv => (windows => OwnFiles)
    BY DEF ConfigInv, OwnFiles
<1> QED BY <1>1, ConfigInvariance, PTL

(* The frames of a channel are those of BuildFrame, for any Config.ini: no *)
(* frame is built before the format is known, and it never changes.        *)
THEOREM FramesInPlayback == PlaybackSpec => Spec
<1>1. PlaybackInit => Init
    BY DEF PlaybackInit
<1>2. [PlaybackNext]_playbackVars => [Next]_vars
    BY DEF PlaybackNext, Configure, Play, playbackVars
<1> QED BY <1>1, <1>2, PTL DEF PlaybackSpec, Spec

(* Config is loaded as Configurator says, whatever the channels do then.   *)
THEOREM ConfigInPlayback == PlaybackSpec => ConfigSpec
<1>1. PlaybackInit => ConfigInit
    BY DEF PlaybackInit
<1>2. [PlaybackNext]_playbackVars => [ConfigNext]_configVars
    BY DEF PlaybackNext, Configure, Play, playbackVars
<1> QED BY <1>1, <1>2, PTL DEF PlaybackSpec, ConfigSpec
=============================================================================
