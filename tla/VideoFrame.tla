---------------------------- MODULE VideoFrame ----------------------------
(***************************************************************************)
(* Three tables of the same formats, each in a file of its own: the size   *)
(* of a VideoFrame's buffer comes from videoFrame.cpp, the size of the     *)
(* picture that NDI is told from AudioSampleHeader.h, and the kind of its  *)
(* lines from Configurator.cpp.                                            *)
(***************************************************************************)
EXTENDS VideoFormat

-----------------------------------------------------------------------------
(* videoFrame.cpp                                                          *)

isVideoFormatInterlaced(f) == f \in Format(1080, "i", {5000, 5994, 6000})

\* Mutant: the formats of the last generation have not been added.
videoFormatToHeightTo4K(f) ==
    CASE f \in Format(1080, "i", {5000, 5994, 6000}) -> 1080
      [] f \in Format(1080, "p", {2398, 2400, 2500, 2997, 3000, 5000, 5994, 6000}) -> 1080
      [] f \in Format(720, "p", {2500, 2997, 5000, 5994, 6000}) -> 720
      [] f \in Format(2160, "p", {2400, 2500, 2997, 3000, 5000, 5994, 6000}) -> 2160
      [] OTHER -> 0

videoFormatToHeight(f) ==
    CASE f \in Format(1080, "i", {5000, 5994, 6000}) -> 1080
      [] f \in Format(1080, "p", {2398, 2400, 2500, 2997, 3000, 5000, 5994, 6000}) -> 1080
      [] f \in Format(720, "p", {2500, 2997, 5000, 5994, 6000}) -> 720
      [] f \in Format(2160, "p", {2400, 2500, 2997, 3000, 5000, 5994, 6000}) -> 2160
      [] f \in Format(4320, "p", {2400, 2500, 2997, 3000, 5000, 5994, 6000}) -> 4320
      [] OTHER -> 0

Picture(w, h, interlaced) == [width |-> w, height |-> h, isInterlaced |-> interlaced]

\* The VideoFrameSize that init chooses, and its fields.  A height of 270 or
\* 540 is no format's; without a height, init leaves the frame as it was made.
FrameSize(f) ==
    LET height == videoFormatToHeight(f) IN
    CASE height = 720 -> Picture(1280, 720, FALSE)
      [] height = 1080 -> Picture(1920, 1080, isVideoFormatInterlaced(f))
      [] height = 2160 -> Picture(3840, 2160, FALSE)
      [] height = 4320 -> Picture(7680, 4320, FALSE)
      [] OTHER -> Picture(0, 0, FALSE)

\* The buffer of CC_422_UYVY, the colour space CapturePoolMgr asks for: the
\* m_usedSize that loadFromFile reads.
BufferSize(f) == FrameSize(f).width * FrameSize(f).height * 2

-----------------------------------------------------------------------------
(* prepareData, and addChannel of the consumer                             *)

isProgressive(f) == f \notin Format(1080, "i", {5994, 6000, 5000})

isDropNTSC(f) ==
    f \in Format(1080, "i", {5994}) \cup Format(1080, "p", {2997, 5994, 2398})
          \cup Format(720, "p", {2997, 5994})
          \cup Format(2160, "p", {2997, 5994}) \cup Format(4320, "p", {2997, 5994})

\* NDI_video_frame: xres and yres, the distance of its lines and their kind.
Described(f) ==
    [xres |-> getFrameWidth(f), yres |-> getFrameHeight(f),
     line_stride_in_bytes |-> getFrameWidth(f) * 2,
     interleaved |-> ~isProgressive(f)]
=============================================================================
