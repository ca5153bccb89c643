--------------------------- MODULE AudioPathProof ---------------------------
(***************************************************************************)
(* Proofs about AudioPath, for all numbers of channels and all lengths of  *)
(* frames: what NDI is given is the audio of the file.  At the end, that   *)
(* AudioFile is made of AudioPath and WaveReader, so that what is proved   *)
(* of each of them holds together.                                         *)
(***************************************************************************)
EXTENDS AudioFile, TLAPS

(* What is assumed of the constants.                                       *)
LEMMA Constants ==
  /\ NbChannel \in Nat \ {0} /\ MaxSamples \in Nat \ {0} /\ InitSamples \in Nat \ {0}
  /\ InitChannels = NbChannel /\ Counts \subseteq Nat \ {0}
  /\ BitsPerSample \subseteq {16, 24, 32} /\ NumChannels \subseteq 1 .. NbChannel
  BY SamplesAssumption, PathAssumption DEF SamplesAssumption, PathAssumption

-----------------------------------------------------------------------------
(* Rows of n places, one after the other.                                  *)

(* Place c of row s, of m rows.                                            *)
LEMMA PlaceInside ==
  ASSUME NEW n \in Nat \ {0}, NEW m \in Nat, NEW s \in 0 .. m - 1, NEW c \in 0 .. n - 1
  PROVE  s * n + c \in 0 .. m * n - 1
<1>1. PICK d \in Nat : m = s + 1 + d
  <2>1. m - (s + 1) \in Nat
    OBVIOUS
  <2> QED BY <2>1
<1>2. (s + 1 + d) * n = s * n + n + d * n /\ d * n \in Nat /\ s * n \in Nat
  OBVIOUS
<1> QED BY <1>1, <1>2

(* No place belongs to two rows.                                           *)
LEMMA PlaceBefore ==
  ASSUME NEW n \in Nat \ {0}, NEW s \in Nat, NEW t \in Nat, s < t,
         NEW c \in 0 .. n - 1, NEW d \in 0 .. n - 1
  PROVE  s * n + c < t * n + d
<1>1. PICK gap \in Nat : t = s + 1 + gap
  <2>1. t - (s + 1) \in Nat
    OBVIOUS
  <2> QED BY <2>1
<1>2. (s + 1 + gap) * n = s * n + n + gap * n /\ gap * n \in Nat /\ s * n \in Nat
  OBVIOUS
<1> QED BY <1>1, <1>2

LEMMA PlaceUnique ==
  ASSUME NEW n \in Nat \ {0}, NEW s \in Nat, NEW t \in Nat,
         NEW c \in 0 .. n - 1, NEW d \in 0 .. n - 1, s * n + c = t * n + d
  PROVE  s = t /\ c = d
<1>0. s * n \in Nat /\ t * n \in Nat
  OBVIOUS
<1>1. CASE s < t
  BY <1>0, <1>1, PlaceBefore
<1>2. CASE t < s
  BY <1>0, <1>2, PlaceBefore
<1>3. CASE s = t
  BY <1>0, <1>3
<1> QED BY <1>1, <1>2, <1>3

-----------------------------------------------------------------------------
(* The buffer of the frame.                                                *)

(* A sample lies in the audio, and so in the buffer.                       *)
LEMMA SampleInside ==
  ASSUME TypeOK, BufferFits, NEW s \in 0 .. sampleCnt - 1, NEW c \in 0 .. NbChannel - 1
  PROVE  /\ Sample(s, c) \in Halves(rawSize) /\ Sample(s, c) + 1 \in Halves(rawSize)
         /\ Sample(s, c) \in DOMAIN raw /\ Sample(s, c) + 1 \in DOMAIN raw
         /\ Sample(s, c) = 2 * (s * NbChannel + c) /\ s * NbChannel + c \in Nat
<1> DEFINE all == sampleCnt * NbChannel
           place == s * NbChannel + c
<1>1. NbChannel \in Nat \ {0} /\ sampleCnt \in Nat
  BY Constants DEF TypeOK
<1>2. place \in 0 .. all - 1 /\ all \in Nat
  BY <1>1, PlaceInside
<1>3. rawSize = all * 4 /\ totalSize >= rawSize + 4 /\ DOMAIN raw = Halves(totalSize - 4)
  BY DEF BufferFits, Bytes, Header
<1>4. totalSize \in Int
  BY DEF BufferFits
<1> HIDE DEF all, place
<1>5. 2 * place \in 0 .. rawSize \div 2 - 1 /\ 2 * place + 1 \in 0 .. rawSize \div 2 - 1
  BY <1>2, <1>3
<1>6. rawSize \div 2 <= (totalSize - 4) \div 2
  BY <1>2, <1>3, <1>4
<1>7. Sample(s, c) = 2 * place
  BY DEF Sample, place
<1> QED BY <1>2, <1>3, <1>4, <1>5, <1>6, <1>7 DEF Halves, place

(* What one Write32 changes: the sample of the counters.                   *)
LEMMA WriteSample ==
  ASSUME TypeOK, BufferFits, NEW value,
         i < sampleCnt, cnl < NbChannel, dest32 = 4 * (i * NbChannel + cnl), Write32(value)
  PROVE  /\ DOMAIN raw' = DOMAIN raw
         /\ \A s \in 0 .. sampleCnt - 1, c \in 0 .. NbChannel - 1 :
               /\ raw'[Sample(s, c)] = IF s = i /\ c = cnl THEN value ELSE raw[Sample(s, c)]
               /\ raw'[Sample(s, c) + 1] = IF s = i /\ c = cnl THEN value ELSE raw[Sample(s, c) + 1]
<1>1. /\ NbChannel \in Nat \ {0} /\ i \in 0 .. sampleCnt - 1 /\ cnl \in 0 .. NbChannel - 1
      /\ sampleCnt \in Nat
  BY Constants DEF TypeOK
<1>2. dest32 \div 2 = Sample(i, cnl)
  <2>1. i * NbChannel + cnl \in Nat
    BY <1>1, SampleInside
  <2>2. \A x \in Nat : (4 * x) \div 2 = 2 * x
    OBVIOUS
  <2> QED BY <2>1, <2>2 DEF Sample
<1> DEFINE at == Sample(i, cnl)
<1>3. raw' = [raw EXCEPT ![at] = value, ![at + 1] = value]
  BY <1>2 DEF Write32
<1>4. /\ at \in DOMAIN raw /\ at + 1 \in DOMAIN raw
      /\ at = 2 * (i * NbChannel + cnl) /\ i * NbChannel + cnl \in Nat
  BY <1>1, SampleInside
<1>5. ASSUME NEW s \in 0 .. sampleCnt - 1, NEW c \in 0 .. NbChannel - 1
      PROVE  /\ raw'[Sample(s, c)] = IF s = i /\ c = cnl THEN value ELSE raw[Sample(s, c)]
             /\ raw'[Sample(s, c) + 1] = IF s = i /\ c = cnl THEN value ELSE raw[Sample(s, c) + 1]
  <2> DEFINE here == Sample(s, c)
  <2>1. /\ here \in DOMAIN raw /\ here + 1 \in DOMAIN raw
        /\ here = 2 * (s * NbChannel + c) /\ s * NbChannel + c \in Nat
    BY SampleInside
  <2>2. CASE s = i /\ c = cnl
    <3> HIDE DEF at
    <3> QED BY <1>3, <1>4, <2>2 DEF at
  <2>3. CASE ~(s = i /\ c = cnl)
    <3>1. s * NbChannel + c # i * NbChannel + cnl
      BY <1>1, <2>3, PlaceUnique
    <3>2. here \notin {at, at + 1} /\ here + 1 \notin {at, at + 1}
      BY <1>4, <2>1, <3>1
    <3> HIDE DEF at, here
    <3>3. raw'[here] = raw[here] /\ raw'[here + 1] = raw[here + 1]
      BY <1>3, <2>1, <3>2
    <3> QED BY <2>3, <3>3 DEF here
  <2> QED BY <2>2, <2>3
<1>6. DOMAIN raw' = DOMAIN raw
  BY <1>3
<1> QED BY <1>5, <1>6

-----------------------------------------------------------------------------
(* The loops of getAudioFrame.                                             *)

(* One turn of the inner loop moves the counters to the next place.        *)
LEMMA Advance ==
  ASSUME TypeOK, AtCounters, InLoop, NextCnl, UNCHANGED <<channels, sampleCnt>>
  PROVE  /\ i' \in Nat /\ cnl' \in 0 .. NbChannel - 1 /\ i' <= sampleCnt
         /\ i' = sampleCnt => cnl' = 0
         /\ i' * NbChannel + cnl' = i * NbChannel + cnl + 1
         /\ i' * channels + Taken' = i * channels + Taken + (IF cnl < channels THEN 1 ELSE 0)
         /\ \A s \in Nat, c \in 0 .. NbChannel - 1 :
               s < i' \/ (s = i' /\ c < cnl') <=> s < i \/ (s = i /\ c < cnl) \/ (s = i /\ c = cnl)
<1>1. /\ NbChannel \in Nat \ {0} /\ channels \in 1 .. NbChannel /\ monoCnt = NbChannel
      /\ i \in Nat /\ cnl \in 0 .. NbChannel - 1 /\ i < sampleCnt /\ sampleCnt \in Nat
  BY Constants DEF TypeOK, AtCounters, InLoop
<1>2. (i + 1) * NbChannel = i * NbChannel + NbChannel /\ (i + 1) * channels = i * channels + channels
      /\ i * NbChannel \in Nat /\ i * channels \in Nat
  BY <1>1
<1>3. Taken' = IF cnl' < channels THEN cnl' ELSE channels
  BY DEF Taken
<1>4. CASE cnl + 1 < NbChannel
  <2>1. cnl' = cnl + 1 /\ i' = i
    BY <1>1, <1>4 DEF NextCnl
  <2> QED BY <1>1, <1>2, <1>3, <1>4, <2>1 DEF Taken
<1>5. CASE ~(cnl + 1 < NbChannel)
  <2>1. cnl' = 0 /\ i' = i + 1 /\ cnl + 1 = NbChannel
    BY <1>1, <1>5 DEF NextCnl
  <2>2. i' * NbChannel = i * NbChannel + NbChannel /\ i' * channels = i * channels + channels
    BY <1>2, <2>1
  <2> QED BY <1>1, <1>2, <1>3, <2>1, <2>2 DEF Taken
<1> QED BY <1>4, <1>5

(* Writing what is wanted at the counters keeps all that is converted.     *)
LEMMA ConvertWanted ==
  ASSUME IInv, InLoop, NextCnl, InFrame, UNCHANGED <<channels, bits>>,
         bits # 16 => Write32(Want(i, cnl))
  PROVE  ChannelsConverted'
<1> SUFFICES ASSUME bits # 16,
                    NEW s \in 0 .. sampleCnt - 1, NEW c \in 0 .. NbChannel - 1
             PROVE  /\ raw'[Sample(s, c)] = IF Done(s, c)' THEN Want(s, c)' ELSE Mute
                    /\ raw'[Sample(s, c) + 1] = IF Done(s, c)' THEN Want(s, c)' ELSE Mute
  BY DEF ChannelsConverted, InFrame, Holds, Sample
<1>1. /\ TypeOK /\ BufferFits /\ AtCounters /\ phase = "convert" /\ phase' = "convert"
      /\ i < sampleCnt /\ cnl < NbChannel /\ dest32 = 4 * (i * NbChannel + cnl)
      /\ UNCHANGED <<frame, read, sampleCnt>>
  BY DEF IInv, AtCounters, InLoop, InFrame
<1>2. s \in Nat /\ (Done(s, c)' <=> Done(s, c) \/ (s = i /\ c = cnl))
  BY <1>1, Advance DEF TypeOK, Done
<1>3. /\ raw'[Sample(s, c)] = IF s = i /\ c = cnl THEN Want(i, cnl) ELSE raw[Sample(s, c)]
      /\ raw'[Sample(s, c) + 1] = IF s = i /\ c = cnl THEN Want(i, cnl) ELSE raw[Sample(s, c) + 1]
  BY <1>1, WriteSample
<1>4. /\ raw[Sample(s, c)] = IF Done(s, c) THEN Want(s, c) ELSE Mute
      /\ raw[Sample(s, c) + 1] = IF Done(s, c) THEN Want(s, c) ELSE Mute
  BY <1>1 DEF IInv, ChannelsConverted, Holds
<1>5. Want(s, c)' = Want(s, c)
  BY <1>1 DEF Want
<1>6. CASE s = i /\ c = cnl
  BY <1>2, <1>3, <1>5, <1>6
<1>7. CASE ~(s = i /\ c = cnl)
  BY <1>2, <1>3, <1>4, <1>5, <1>7
<1> QED BY <1>6, <1>7

(* While the loops run, the sample read is the one that is wanted.         *)
LEMMA SourceIsWanted ==
  ASSUME IInv, InLoop, cnl < channels
  PROVE  /\ bits = 24 => SampleAt(source8) = Want(i, cnl)
         /\ bits = 32 => SampleAt(source32) = Want(i, cnl)
<1> DEFINE at == i * channels + cnl
<1>1. /\ channels \in Nat \ {0} /\ i \in Nat /\ sampleCnt \in Nat /\ cnl \in Nat
      /\ i < sampleCnt /\ read /\ Taken = cnl
      /\ bits = 24 => source8 = 3 * at
      /\ bits = 32 => source32 = 4 * at
  BY Constants DEF IInv, TypeOK, AtCounters, InLoop, Taken
<1>2. at \in 0 .. sampleCnt * channels - 1
  BY <1>1, PlaceInside
<1>3. sampleCnt * channels \in Nat
  BY <1>1
<1>4. Want(i, cnl) = <<frame, at>>
  BY <1>1 DEF Want
<1> HIDE DEF at
<1>5. (3 * at) % 3 = 0 /\ (3 * at) \div 3 = at /\ (4 * at) % 4 = 0 /\ (4 * at) \div 4 = at
  BY <1>2
<1>6. CASE bits = 24
  <2>1. bits \div 8 = 3
    BY <1>6
  <2> QED BY <1>1, <1>2, <1>3, <1>4, <1>5, <1>6, <2>1 DEF SampleAt
<1>7. CASE bits = 32
  <2>1. bits \div 8 = 4
    BY <1>7
  <2> QED BY <1>1, <1>2, <1>3, <1>4, <1>5, <1>7, <2>1 DEF SampleAt
<1> QED BY <1>6, <1>7

(* Every turn keeps the invariant.                                         *)
LEMMA ConvertStep ==
  ASSUME IInv, Convert16 \/ Convert24 \/ Convert32 \/ MuteChannel,
         UNCHANGED <<ndiVars, sortVars>>
  PROVE  IInv'
<1>0. /\ InLoop /\ NextCnl /\ InFrame /\ phase = "convert" /\ phase' = "convert"
      /\ UNCHANGED <<bits, channels, sampleCnt, frame, read, totalSize, rawSize, monoCnt>>
      /\ TypeOK /\ BufferFits /\ AtCounters
  BY DEF Convert16, Convert24, Convert32, MuteChannel, InLoop, InFrame, IInv, file
<1>1. /\ i' \in Nat /\ cnl' \in 0 .. NbChannel - 1 /\ i' <= sampleCnt
      /\ i' = sampleCnt => cnl' = 0
      /\ i' * NbChannel + cnl' = i * NbChannel + cnl + 1
      /\ i' * channels + Taken' = i * channels + Taken + (IF cnl < channels THEN 1 ELSE 0)
  BY <1>0, Advance
<1>2. /\ i * NbChannel + cnl \in Nat /\ i * channels + Taken \in Nat
      /\ NbChannel \in Nat \ {0} /\ channels \in Nat /\ i \in Nat /\ cnl \in Nat
  <2>1. /\ NbChannel \in Nat \ {0} /\ channels \in Nat /\ i \in Nat /\ cnl \in Nat
    BY <1>0, Constants DEF TypeOK
  <2> QED BY <2>1 DEF Taken
<1>3. /\ bits = 16 /\ cnl < channels => Convert16
      /\ bits = 24 /\ cnl < channels => Convert24
      /\ bits = 32 /\ cnl < channels => Convert32
      /\ cnl >= channels => MuteChannel
      /\ bits \in {16, 24, 32}
  BY <1>0, <1>2, Constants DEF Convert16, Convert24, Convert32, MuteChannel, TypeOK
<1>4. bits # 16 => Write32(Want(i, cnl)) /\ dest32' = dest32 + 4
  <2>1. CASE cnl >= channels
    BY <1>2, <1>3, <2>1 DEF MuteChannel, Want
  <2>2. CASE ~(cnl >= channels)
    BY <1>0, <1>2, <1>3, <2>2, SourceIsWanted DEF Convert24, Convert32
  <2> QED BY <2>1, <2>2
<1>5. ChannelsConverted'
  BY <1>0, <1>4, ConvertWanted
<1>6. /\ dest32' \in Nat /\ dest16' \in Nat /\ source32' \in Nat /\ source8' \in Nat
      /\ DOMAIN raw' = DOMAIN raw
  BY <1>0, <1>3 DEF Convert16, Convert24, Convert32, MuteChannel, Write32, Write16, TypeOK
<1>7. TypeOK'
  BY <1>0, <1>1, <1>6 DEF TypeOK, ndiVars, sortVars
<1>8. BufferFits'
  BY <1>0, <1>6 DEF BufferFits
<1>9. AtCounters'
  <2>1. bits # 16 => dest32' = 4 * (i' * NbChannel + cnl')
    <3> DEFINE here == i * NbChannel + cnl
    <3>1. bits # 16 => dest32 = 4 * here /\ dest32' = dest32 + 4
      BY <1>0, <1>4 DEF AtCounters
    <3>2. here \in Nat /\ i' * NbChannel + cnl' = here + 1
      BY <1>1, <1>2
    <3> HIDE DEF here
    <3> QED BY <3>1, <3>2
  <2>2. bits = 32 => source32' = 4 * (i' * channels + Taken')
    BY <1>0, <1>1, <1>2, <1>3 DEF AtCounters, Convert32, MuteChannel
  <2>3. bits = 24 => source8' = 3 * (i' * channels + Taken')
    BY <1>0, <1>1, <1>2, <1>3 DEF AtCounters, Convert24, MuteChannel
  <2>4. cnl' < NbChannel
    BY <1>1, <1>2
  <2> QED BY <1>0, <1>1, <2>1, <2>2, <2>3, <2>4 DEF AtCounters
<1>10. SortAtCounters' /\ ChannelsSorted' /\ HeardRight'
  BY <1>0 DEF SortAtCounters, ChannelsSorted, HeardRight
<1> QED BY <1>5, <1>7, <1>8, <1>9, <1>10 DEF IInv

-----------------------------------------------------------------------------
(* What comes before and behind the loops.                                 *)

(* setBufferSize leaves room for the size asked for.                       *)
LEMMA RoomMade ==
  ASSUME TypeOK, BufferFits, NEW size \in Nat, setBufferSize(size)
  PROVE  /\ rawSize' = size
         /\ totalSize' \in Nat /\ totalSize' >= size + Header
         /\ DOMAIN raw' = Halves(totalSize' - Header)
<1>1. CASE totalSize >= size + Header
  BY <1>1 DEF setBufferSize, BufferFits
<1>2. CASE ~(totalSize >= size + Header)
  <2>1. totalSize' = size + 4 /\ raw' = [h \in Halves(size) |-> Garbage] /\ rawSize' = size
    BY <1>2 DEF setBufferSize, Header
  <2>2. totalSize' - 4 = size
    BY <2>1
  <2> QED BY <2>1, <2>2 DEF Header
<1> QED BY <1>1, <1>2

(* The frame is made ready.                                                *)
LEMMA LoadStep ==
  ASSUME IInv, LoadSamples \/ LoadChannels, UNCHANGED <<ndiVars, sortVars>>
  PROVE  IInv'
<1>1. /\ NbChannel \in Nat \ {0} /\ sampleCnt \in Nat \ {0} /\ monoCnt = NbChannel
      /\ TypeOK /\ BufferFits /\ Counts \subseteq Nat \ {0}
  BY Constants DEF IInv, TypeOK
<1>2. /\ sampleCnt' \in Nat \ {0} /\ monoCnt' = NbChannel /\ phase' \in {"channels", "read"}
      /\ UNCHANGED <<file, frame, read, pointers>>
      /\ setBufferSize(sampleCnt' * NbChannel * Bytes)
  <2>1. CASE LoadSamples
    <3>1. PICK cnt \in Counts : SetSampleCnt(cnt)
      BY <2>1 DEF LoadSamples
    <3>2. cnt * 4 * NbChannel = cnt * NbChannel * 4
      BY <1>1
    <3> QED BY <1>1, <2>1, <3>1, <3>2 DEF LoadSamples, SetSampleCnt, Bytes
  <2>2. CASE LoadChannels
    <3>1. NbChannel * sampleCnt * 4 = sampleCnt * NbChannel * 4
      BY <1>1
    <3> QED BY <1>1, <2>2, <3>1 DEF LoadChannels, SetMonoCnt, Bytes
  <2> QED BY <2>1, <2>2
<1>3. sampleCnt' * NbChannel * Bytes \in Nat
  <2>1. \A a, b \in Nat : a * b * 4 \in Nat
    OBVIOUS
  <2> QED BY <1>1, <1>2, <2>1 DEF Bytes
<1>4. BufferFits'
  BY <1>1, <1>2, <1>3, RoomMade DEF BufferFits
<1>5. TypeOK'
  BY <1>1, <1>2 DEF TypeOK, ndiVars, sortVars, file, pointers
<1>6. phase' \notin {"convert", "resample", "sort", "sent"}
  BY <1>2
<1> QED
  BY <1>4, <1>5, <1>6 DEF IInv, AtCounters, SortAtCounters, ChannelsConverted,
     ChannelsSorted, HeardRight

(* A muted frame is mute in every sample.                                  *)
LEMMA AllMute ==
  ASSUME IInv, raw' = Muted, UNCHANGED <<totalSize, rawSize, sampleCnt, monoCnt>>
  PROVE  /\ BufferFits'
         /\ \A s \in 0 .. sampleCnt - 1, c \in 0 .. NbChannel - 1 :
               raw'[Sample(s, c)] = Mute /\ raw'[Sample(s, c) + 1] = Mute
<1>1. TypeOK /\ BufferFits
  BY DEF IInv
<1>2. DOMAIN raw' = DOMAIN raw
  BY DEF Muted
<1>3. BufferFits'
  BY <1>1, <1>2 DEF BufferFits
<1>4. ASSUME NEW h \in DOMAIN raw, h \in Halves(rawSize) PROVE raw'[h] = Mute
  BY <1>4 DEF Muted
<1> QED BY <1>1, <1>3, <1>4, SampleInside

(* The frame is muted, and filled or not.                                  *)
LEMMA ReadStep ==
  ASSUME IInv, ReadNothing \/ ReadSamples, UNCHANGED <<ndiVars, sortVars>>
  PROVE  IInv'
<1>1. /\ raw' = Muted /\ UNCHANGED <<totalSize, rawSize, sampleCnt, monoCnt, file, frame>>
      /\ read' \in BOOLEAN /\ phase' \in {"convert", "resample"}
      /\ phase' = "resample" => ~read' /\ UNCHANGED pointers
      /\ phase' = "convert" =>
            /\ read' /\ i' = 0 /\ cnl' = 0 /\ dest32' = 0 /\ dest16' = 0
            /\ source32' = 0 /\ source8' = 0
  BY DEF ReadNothing, ReadSamples
<1>2. BufferFits'
  BY <1>1, AllMute
<1>3. TypeOK'
  BY <1>1 DEF IInv, TypeOK, ndiVars, sortVars, file, pointers
<1>4. /\ NbChannel \in Nat \ {0} /\ channels \in Nat \ {0} /\ UNCHANGED <<channels, bits>>
      /\ sampleCnt \in Nat \ {0}
  BY <1>1, Constants DEF IInv, TypeOK, file
<1>5. AtCounters'
  <2>1. phase' = "convert" => Taken' = 0
    BY <1>1, <1>4 DEF Taken
  <2> QED BY <1>1, <1>4, <2>1 DEF AtCounters
<1>6. ChannelsConverted'
  <2> SUFFICES ASSUME NEW s \in 0 .. sampleCnt - 1, NEW c \in 0 .. NbChannel - 1
               PROVE  /\ raw'[Sample(s, c)] = IF Done(s, c)' THEN Want(s, c)' ELSE Mute
                      /\ raw'[Sample(s, c) + 1] = IF Done(s, c)' THEN Want(s, c)' ELSE Mute
    BY <1>1 DEF ChannelsConverted, Holds, Sample
  <2>1. Done(s, c)' => Want(s, c)' = Mute
    BY <1>1 DEF Done, Want
  <2> QED BY <1>1, <2>1, AllMute
<1>7. phase' \notin {"sort", "sent"}
  BY <1>1
<1> QED
  BY <1>2, <1>3, <1>5, <1>6, <1>7 DEF IInv, SortAtCounters, ChannelsSorted, HeardRight

(* The loops have ended.                                                   *)
LEMMA ConvertedStep ==
  ASSUME IInv, Converted, UNCHANGED <<ndiVars, sortVars>>
  PROVE  IInv'
<1>1. /\ phase = "convert" /\ i = sampleCnt /\ phase' = "resample"
      /\ UNCHANGED <<frameVars, file, frame, read, pointers>>
  BY DEF Converted
<1>2. TypeOK' /\ BufferFits'
  BY <1>1 DEF IInv, TypeOK, BufferFits, frameVars, buffer, file, pointers, ndiVars, sortVars
<1>3. ChannelsConverted'
  <2> SUFFICES ASSUME bits # 16, NEW s \in 0 .. sampleCnt - 1, NEW c \in 0 .. NbChannel - 1
               PROVE  raw[Sample(s, c)] = Want(s, c) /\ raw[Sample(s, c) + 1] = Want(s, c)
    BY <1>1 DEF ChannelsConverted, Holds, Sample, Done, Want, frameVars, buffer, file
  <2>1. Done(s, c)
    BY <1>1 DEF Done, IInv, TypeOK
  <2> QED BY <1>1, <2>1 DEF IInv, ChannelsConverted, Holds
<1> QED
  BY <1>1, <1>2, <1>3 DEF IInv, AtCounters, SortAtCounters, ChannelsSorted, HeardRight

-----------------------------------------------------------------------------
(* sentToNDI.                                                              *)

(* A sample of a channel lies in the consumer's buffers, whatever distance *)
(* of the channels up to that of the longest frame.                        *)
LEMMA FloatInside ==
  ASSUME NEW x \in 1 .. MaxSamples, NEW s \in 0 .. MaxSamples - 1, NEW c \in 0 .. NbChannel - 1
  PROVE  c * x + s \in Floats /\ c * x + s < MaxSamples * NbChannel
<1>1. NbChannel \in Nat \ {0} /\ MaxSamples \in Nat \ {0}
  BY Constants
<1>2. c * MaxSamples + s \in 0 .. NbChannel * MaxSamples - 1
  BY <1>1, PlaceInside
<1>3. c * x <= c * MaxSamples /\ c * x \in Nat
  <2>1. PICK d \in Nat : MaxSamples = x + d
    <3>1. MaxSamples - x \in Nat
      BY <1>1
    <3> QED BY <1>1, <3>1
  <2>2. c * (x + d) = c * x + c * d /\ c * d \in Nat /\ c * x \in Nat
    BY <1>1
  <2> QED BY <2>1, <2>2
<1>4. NbChannel * MaxSamples = MaxSamples * NbChannel /\ MaxSamples * NbChannel \in Nat
  BY <1>1
<1> QED BY <1>1, <1>2, <1>3, <1>4 DEF Floats

(* A frame that is too long is silence.                                    *)
LEMMA TooLongStep == ASSUME IInv, TooLong PROVE IInv'
<1>1. /\ sampleCnt > MaxSamples /\ phase = "resample" /\ phase' = "sent"
      /\ no_samples' = MaxSamples
      /\ UNCHANGED <<frameVars, file, frame, read, pointers, no_channels, stride, sortVars>>
      /\ p_data' = [f \in Floats |-> IF f < MaxSamples * no_channels THEN Mute ELSE p_data[f]]
  BY DEF TooLong
<1>2. /\ NbChannel \in Nat \ {0} /\ MaxSamples \in Nat \ {0} /\ no_channels = NbChannel
      /\ stride \in 1 .. MaxSamples
  BY Constants DEF IInv, TypeOK
<1>3. TypeOK' /\ BufferFits'
  BY <1>1, <1>2 DEF IInv, TypeOK, BufferFits, frameVars, buffer, file, pointers, sortVars
<1>4. ChannelsConverted'
  BY <1>1 DEF IInv, ChannelsConverted, Holds, Sample, Done, Want, frameVars, buffer, file, pointers
<1>5. HeardRight'
  <2> SUFFICES ASSUME NEW s \in 0 .. MaxSamples - 1, NEW c \in 0 .. NbChannel - 1
               PROVE  p_data'[c * stride + s] = Mute
    BY <1>1, <1>2 DEF HeardRight, frameVars
  <2> QED BY <1>1, <1>2, FloatInside
<1> QED
  BY <1>1, <1>3, <1>4, <1>5 DEF IInv, AtCounters, SortAtCounters, ChannelsSorted

(* NDI is told the frame.                                                  *)
LEMMA DescribeStep == ASSUME IInv, Describe PROVE IInv'
<1>1. /\ sampleCnt <= MaxSamples /\ phase = "resample" /\ phase' = "sort"
      /\ no_channels' = NbChannel /\ no_samples' = sampleCnt /\ stride' = sampleCnt
      /\ nIndex' = 0 /\ k' = 0 /\ pAudioNew' = 0
      /\ UNCHANGED <<frameVars, file, frame, read, pointers, p_data, planar>>
      /\ sampleCnt \in Nat \ {0} /\ NbChannel \in Nat \ {0} /\ MaxSamples \in Nat
      /\ TypeOK
  BY Constants DEF Describe, IInv, TypeOK
<1>2. TypeOK' /\ BufferFits'
  BY <1>1 DEF IInv, TypeOK, BufferFits, frameVars, buffer, file, pointers
<1>3. ChannelsConverted'
  BY <1>1 DEF IInv, ChannelsConverted, Holds, Sample, Done, Want, frameVars, buffer, file, pointers
<1>4. SortAtCounters'
  <2>1. 0 * sampleCnt + 0 = 0
    BY <1>1
  <2> QED BY <1>1, <2>1 DEF SortAtCounters, frameVars
<1>5. ChannelsSorted'
  <2>1. \A s, c \in Nat : ~(c < nIndex' \/ (c = nIndex' /\ s < k'))
    BY <1>1
  <2>2. \A s \in 0 .. sampleCnt - 1, c \in 0 .. NbChannel - 1 : s \in Nat /\ c \in Nat
    BY <1>1
  <2>3. sampleCnt' = sampleCnt
    BY <1>1 DEF frameVars
  <2> QED BY <2>1, <2>2, <2>3 DEF ChannelsSorted
<1> QED
  BY <1>1, <1>2, <1>3, <1>4, <1>5 DEF IInv, AtCounters, HeardRight

(* One sample is put into the plane of its channel.                        *)
LEMMA SortStep == ASSUME IInv, Sort PROVE IInv'
<1> DEFINE here == nIndex * sampleCnt + k
<1>1. /\ phase = "sort" /\ phase' = "sort" /\ nIndex < NbChannel /\ no_channels = NbChannel
      /\ planar' = [planar EXCEPT ![here] = SourceSample] /\ pAudioNew = here
      /\ pAudioNew' = pAudioNew + 1
      /\ IF k + 1 < sampleCnt THEN k' = k + 1 /\ nIndex' = nIndex
                              ELSE k' = 0 /\ nIndex' = nIndex + 1
      /\ UNCHANGED <<frameVars, waveVars, ndiVars>>
  <2>1. phase = "sort" /\ nIndex < NbChannel /\ no_channels = NbChannel /\ phase' = "sort"
        /\ UNCHANGED <<frameVars, waveVars, ndiVars>>
    BY DEF Sort, IInv, TypeOK, waveVars
  <2>2. pAudioNew = here
    BY <2>1 DEF IInv, SortAtCounters
  <2>3. planar' = [planar EXCEPT ![pAudioNew] = SourceSample] /\ pAudioNew' = pAudioNew + 1
    BY DEF Sort
  <2>4. IF k + 1 < sampleCnt THEN k' = k + 1 /\ nIndex' = nIndex
                            ELSE k' = 0 /\ nIndex' = nIndex + 1
    BY DEF Sort
  <2> HIDE DEF here
  <2> QED BY <2>1, <2>2, <2>3, <2>4
<1>2. /\ NbChannel \in Nat \ {0} /\ MaxSamples \in Nat \ {0} /\ sampleCnt \in 1 .. MaxSamples
      /\ nIndex \in 0 .. NbChannel - 1 /\ k \in 0 .. sampleCnt - 1
      /\ no_samples = sampleCnt /\ stride = sampleCnt
  BY <1>1, Constants DEF IInv, TypeOK, SortAtCounters
<1>3. /\ k' \in 0 .. sampleCnt - 1 /\ nIndex' \in 0 .. NbChannel
      /\ nIndex' = NbChannel => k' = 0
      /\ nIndex' * sampleCnt + k' = here + 1 /\ here \in Nat
  <2>1. (nIndex + 1) * sampleCnt = nIndex * sampleCnt + sampleCnt /\ nIndex * sampleCnt \in Nat
    BY <1>2
  <2>2. CASE k + 1 < sampleCnt
    BY <1>1, <1>2, <2>1, <2>2
  <2>3. CASE ~(k + 1 < sampleCnt)
    <3>1. k' = 0 /\ nIndex' = nIndex + 1 /\ k + 1 = sampleCnt
      BY <1>1, <1>2, <2>3
    <3> QED BY <1>2, <2>1, <3>1
  <2> QED BY <2>2, <2>3
<1>4. UNCHANGED <<bits, channels, frame, read, phase, sampleCnt, monoCnt, raw, totalSize, rawSize,
                  no_channels, no_samples, stride, p_data>>
  BY <1>1 DEF frameVars, waveVars, ndiVars, buffer, file
<1>5. TypeOK' /\ BufferFits'
  <2>1. DOMAIN planar' = Floats
    BY <1>1 DEF IInv, TypeOK
  <2>2. nIndex' \in Nat /\ k' \in Nat /\ pAudioNew' \in Nat
    BY <1>1, <1>2, <1>3
  <2> QED
    BY <1>1, <2>1, <2>2 DEF IInv, TypeOK, BufferFits, frameVars, waveVars, ndiVars, buffer, file, pointers
<1>6. ChannelsConverted'
  BY <1>1 DEF IInv, ChannelsConverted, Holds, Sample, Done, Want, frameVars, waveVars, buffer, file, pointers
<1>7. SortAtCounters'
  <2>1. pAudioNew' = nIndex' * sampleCnt + k'
    <3> HIDE DEF here
    <3> QED BY <1>1, <1>3
  <2>2. sampleCnt' = sampleCnt /\ no_samples' = no_samples /\ stride' = stride
    BY <1>4
  <2>3. nIndex' <= NbChannel /\ k' < sampleCnt
    BY <1>2, <1>3
  <2> HIDE DEF here
  <2>4. pAudioNew' = nIndex' * sampleCnt' + k'
    BY <2>1, <2>2
  <2> QED BY <1>1, <1>2, <1>3, <2>2, <2>3, <2>4 DEF SortAtCounters
<1>8. ChannelsSorted'
  <2> SUFFICES ASSUME bits # 16, NEW s \in 0 .. sampleCnt - 1, NEW c \in 0 .. NbChannel - 1,
                      c < nIndex' \/ (c = nIndex' /\ s < k')
               PROVE  planar'[c * sampleCnt + s] = Want(s, c)
    BY <1>1, <1>4 DEF ChannelsSorted, Want
  <2>1. c < nIndex \/ (c = nIndex /\ s < k) \/ (c = nIndex /\ s = k)
    BY <1>1, <1>2, <1>3
  <2>2. c * sampleCnt + s \in Floats /\ here \in Floats
    <3>1. s \in 0 .. MaxSamples - 1 /\ k \in 0 .. MaxSamples - 1
      BY <1>2
    <3>2. c * sampleCnt + s \in Floats
      BY <1>2, <3>1, FloatInside
    <3>3. nIndex * sampleCnt + k \in Floats
      BY <1>2, <3>1, FloatInside
    <3> QED BY <3>2, <3>3
  <2>3. CASE c = nIndex /\ s = k
    <3>1. Done(s, c)
      BY <1>1 DEF Done
    <3>2. raw[Sample(s, c)] = Want(s, c) /\ raw[Sample(s, c) + 1] = Want(s, c)
      BY <1>1, <3>1 DEF IInv, ChannelsConverted, Holds
    <3>3. SourceSample = Want(s, c)
      BY <2>3, <3>2 DEF SourceSample
    <3>4. c * sampleCnt + s = here
      BY <2>3
    <3> HIDE DEF here
    <3> QED BY <1>1, <2>2, <3>3, <3>4 DEF IInv, TypeOK
  <2>4. CASE ~(c = nIndex /\ s = k)
    <3>1. c * sampleCnt + s # here
      BY <1>2, <2>4, PlaceUnique
    <3>2. planar[c * sampleCnt + s] = Want(s, c)
      BY <1>1, <2>1, <2>4 DEF IInv, ChannelsSorted
    <3> HIDE DEF here
    <3> QED BY <1>1, <2>2, <3>1, <3>2 DEF IInv, TypeOK
  <2> QED BY <2>3, <2>4
<1> QED
  BY <1>1, <1>5, <1>6, <1>7, <1>8 DEF IInv, AtCounters, HeardRight, waveVars

(* The planes become floats.                                               *)
LEMMA ResampledStep == ASSUME IInv, Resampled PROVE IInv'
<1>1. /\ phase = "sort" /\ phase' = "sent" /\ nIndex = NbChannel /\ no_channels = NbChannel
      /\ p_data' = [f \in Floats |-> IF f < NbChannel * sampleCnt THEN planar[f] ELSE p_data[f]]
      /\ UNCHANGED <<frameVars, file, frame, read, pointers, no_channels, no_samples, stride, sortVars>>
  BY DEF Resampled, IInv, TypeOK
<1>2. /\ NbChannel \in Nat \ {0} /\ MaxSamples \in Nat \ {0} /\ sampleCnt \in 1 .. MaxSamples
      /\ no_samples = sampleCnt /\ stride = sampleCnt
  BY <1>1, Constants DEF IInv, TypeOK, SortAtCounters
<1>3. TypeOK' /\ BufferFits'
  BY <1>1, <1>2 DEF IInv, TypeOK, BufferFits, frameVars, buffer, file, pointers, sortVars
<1>4. ChannelsConverted'
  BY <1>1 DEF IInv, ChannelsConverted, Holds, Sample, Done, Want, frameVars, buffer, file, pointers
<1>5. HeardRight'
  <2> SUFFICES ASSUME bits # 16, NEW s \in 0 .. sampleCnt - 1, NEW c \in 0 .. NbChannel - 1
               PROVE  p_data'[c * sampleCnt + s] = Want(s, c)
    BY <1>1, <1>2 DEF HeardRight, Want, frameVars, file
  <2>1. c * sampleCnt + s \in Floats
    BY <1>2, FloatInside
  <2>2. c * sampleCnt + s < NbChannel * sampleCnt
    <3>1. c * sampleCnt + s \in 0 .. NbChannel * sampleCnt - 1
      BY <1>2, PlaceInside
    <3>2. NbChannel * sampleCnt \in Nat
      BY <1>2
    <3> QED BY <3>1, <3>2
  <2>3. planar[c * sampleCnt + s] = Want(s, c)
    BY <1>1, <1>2 DEF IInv, ChannelsSorted
  <2> QED BY <1>1, <2>1, <2>2, <2>3
<1> QED
  BY <1>1, <1>3, <1>4, <1>5 DEF IInv, AtCounters, SortAtCounters, ChannelsSorted

-----------------------------------------------------------------------------
(* The theorems.                                                           *)

LEMMA InitInvariant == Init => IInv
<1> SUFFICES ASSUME Init PROVE IInv
  OBVIOUS
<1>1. /\ NbChannel \in Nat \ {0} /\ MaxSamples \in Nat \ {0} /\ InitSamples \in Nat \ {0}
      /\ InitChannels = NbChannel
  BY Constants
<1>2. phase = "samples" /\ sampleCnt = InitSamples /\ monoCnt = NbChannel
  BY <1>1 DEF Init, InitWave, InitFrame
<1>3. TypeOK
  <2>1. /\ bits \in BitsPerSample /\ channels \in NumChannels /\ frame = 0 /\ read = FALSE
        /\ i = 0 /\ cnl = 0 /\ dest32 = 0 /\ dest16 = 0 /\ source32 = 0 /\ source8 = 0
    BY DEF Init, InitWave
  <2>2. /\ nIndex = 0 /\ k = 0 /\ pAudioNew = 0 /\ DOMAIN planar = Floats
        /\ DOMAIN p_data = Floats /\ no_channels = NbChannel
        /\ no_samples = MaxSamples /\ stride = MaxSamples
    BY DEF Init
  <2>3. MaxSamples \in 1 .. MaxSamples
    BY <1>1
  <2> QED BY <1>1, <1>2, <2>1, <2>2, <2>3 DEF TypeOK
<1>4. BufferFits
  <2> DEFINE size == InitSamples * 4 * NbChannel
  <2>1. size = InitSamples * NbChannel * 4 /\ size \in Nat
    BY <1>1
  <2>2. rawSize = size /\ totalSize = size + 4 /\ DOMAIN raw = Halves(size)
    BY <1>1 DEF Init, InitWave, InitFrame, Bytes, Header
  <2> HIDE DEF size
  <2>3. totalSize - 4 = size
    BY <2>1, <2>2
  <2> QED BY <1>2, <2>1, <2>2, <2>3 DEF BufferFits, Bytes, Header
<1> QED
  BY <1>2, <1>3, <1>4 DEF IInv, AtCounters, SortAtCounters, ChannelsConverted, ChannelsSorted, HeardRight

LEMMA NextInvariant == IInv /\ [Next]_vars => IInv'
<1> SUFFICES ASSUME IInv, [Next]_vars PROVE IInv'
  OBVIOUS
<1>1. CASE Load
  BY <1>1, LoadStep, ReadStep, ConvertStep, ConvertedStep DEF Load, LoadFrame, Convert
<1>2. CASE SendAudio
  <2>1. TypeOK' /\ BufferFits'
    BY <1>2 DEF SendAudio, IInv, TypeOK, BufferFits, frameVars, buffer, file, pointers, ndiVars, sortVars
  <2>2. phase' = "samples"
    BY <1>2 DEF SendAudio
  <2> QED
    BY <2>1, <2>2 DEF IInv, AtCounters, SortAtCounters, ChannelsConverted, ChannelsSorted, HeardRight
<1>3. CASE UNCHANGED vars
  <2>1. /\ TypeOK' /\ BufferFits' /\ AtCounters' /\ SortAtCounters'
    BY <1>3 DEF IInv, TypeOK, BufferFits, AtCounters, Taken, SortAtCounters,
       vars, frameVars, buffer, waveVars, file, pointers, ndiVars, sortVars
  <2>2. ChannelsConverted' /\ ChannelsSorted' /\ HeardRight'
    BY <1>3 DEF IInv, ChannelsConverted, ChannelsSorted, HeardRight, Holds, Sample, Done, Want,
       vars, frameVars, buffer, waveVars, file, pointers, ndiVars, sortVars
  <2> QED BY <2>1, <2>2 DEF IInv
<1> QED
  BY <1>1, <1>2, <1>3, TooLongStep, DescribeStep, SortStep, ResampledStep DEF Next, SentToNDI

(* The pointers of all the loops are where their counters say, the buffer  *)
(* holds the audio of its frame, and each sample is in its place.          *)
THEOREM Invariance == Spec => []IInv
<1> QED BY InitInvariant, NextInvariant, PTL DEF Spec

(* NDI hears the file: each channel of a file with 24 or 32 bits in the    *)
(* channel of the same number, sample by sample, for any numbers of        *)
(* channels and samples and any sequence of frames in the same buffers.    *)
THEOREM NDIHearsTheFile == Spec => []HeardRight
<1>1. IInv => HeardRight
  BY DEF IInv
<1> QED BY <1>1, Invariance, PTL

-----------------------------------------------------------------------------
(* AudioFile.                                                              *)

(* A frame that is being made has a number of samples that a frame may     *)
(* have.                                                                   *)
Counted == phase # "samples" => sampleCnt \in Counts

LEMMA PathStep == [FileNext]_fileVars => [Next]_vars
<1> SUFFICES ASSUME FileNext PROVE [Next]_vars
  BY DEF fileVars
<1>1. CASE Fill \/ FillFromDisk
  BY <1>1 DEF Fill, Prepare, FillFromDisk, Next, Load, LoadFrame
<1>2. CASE SendToNDI
  BY <1>2 DEF SendToNDI, Next
<1>3. CASE OpenReader \/ CloseReader
  BY <1>3 DEF OpenReader, CloseReader
<1> QED
  BY <1>1, <1>2, <1>3 DEF FileNext

LEMMA CountedStep == Counted /\ [Next]_vars => Counted'
<1> SUFFICES ASSUME Counted, [Next]_vars PROVE Counted'
  OBVIOUS
<1>1. CASE LoadSamples
  <2>1. sampleCnt' \in Counts
    BY <1>1 DEF LoadSamples, SetSampleCnt
  <2> QED BY <2>1 DEF Counted
<1>2. CASE SendAudio
  BY <1>2 DEF SendAudio, Counted
<1>3. ASSUME phase # "samples", UNCHANGED sampleCnt PROVE Counted'
  BY <1>3 DEF Counted
<1>4. CASE LoadChannels \/ ReadNothing \/ ReadSamples \/ Convert
  <2>1. phase # "samples" /\ UNCHANGED sampleCnt
    BY <1>4 DEF LoadChannels, SetMonoCnt, ReadNothing, ReadSamples, Convert, Convert16,
       Convert24, Convert32, MuteChannel, Converted, InLoop, InFrame, frameVars
  <2> QED BY <1>3, <2>1
<1>5. CASE TooLong \/ Describe \/ Sort \/ Resampled
  <2>1. phase # "samples" /\ UNCHANGED sampleCnt
    BY <1>5 DEF TooLong, Describe, Sort, Resampled, frameVars
  <2> QED BY <1>3, <2>1
<1>6. CASE UNCHANGED vars
  BY <1>6 DEF vars, frameVars, waveVars, Counted
<1> QED
  BY <1>1, <1>2, <1>4, <1>5, <1>6 DEF Next, Load, LoadFrame, SentToNDI

(* The samples of a file take the same way whatever its chunks are: NDI    *)
(* hears what the reader has found.                                        *)
THEOREM PathInFile == FileSpec => Spec
<1>1. FileInit => Init
  BY DEF FileInit
<1> QED
  BY <1>1, PathStep, PTL DEF FileSpec, Spec

(* The reader is called as WaveReader says: after open, once for a frame,  *)
(* with a number of samples that a frame may have.                         *)
THEOREM ReaderInFile == FileSpec => ReaderSpec
<1>1. FileInit => ReaderInit /\ Counted
  BY DEF FileInit, Init, InitWave, Counted
<1>2. Counted /\ [FileNext]_fileVars => Counted'
  BY PathStep, CountedStep
<1>3. Counted /\ [FileNext]_fileVars => [ReaderNext]_readerVars
  <2> SUFFICES ASSUME Counted, FileNext PROVE [ReaderNext]_readerVars
    BY DEF fileVars
  <2>1. CASE OpenReader \/ CloseReader
    BY <2>1 DEF OpenReader, CloseReader, ReaderNext
  <2>2. CASE FillFromDisk
    <3>1. sampleCnt \in SampleCounts
      BY <2>2, FileAssumption DEF FillFromDisk, Counted, FileAssumption
    <3> QED
      BY <2>2, <3>1 DEF FillFromDisk, ReaderNext
  <2>3. CASE Fill \/ SendToNDI
    BY <2>3 DEF Fill, SendToNDI
  <2> QED
    BY <2>1, <2>2, <2>3 DEF FileNext
<1> QED
  BY <1>1, <1>2, <1>3, PTL DEF FileSpec, ReaderSpec
=============================================================================
