---------------------------- MODULE Configurator ----------------------------
(***************************************************************************)
(* Configurator::load, which every component's first use of Config runs:   *)
(* the video format and the cameras of Config.ini, and what main makes of  *)
(* them. The Linux build has a reader of .ini files of its own, which      *)
(* copies a value into a buffer that load uses for all cameras; of a text  *)
(* only its length and where its quotation marks are is kept.              *)
(***************************************************************************)
EXTENDS VideoFormat

CONSTANTS
    WindowsFiles,   \* the files of the Windows build: [format, lines]
    LinuxFiles,     \* those of the Linux build
    Buffers,        \* what the buffer holds before it is written
    Behind,         \* where quotation marks may be behind its NUL: sets of indices
    NbRecorders     \* EM_ProviderChannel_Max: 16, of two digits at most

\* A line "Cam<key> =<text>" and its line feed. The text of kind FILE is
\*     FILE:"<v characters>"|"<a characters>"  behind a space.
Line == [key : Nat \ {0}, kind : {"FILE", "SDI", "BLANK"}, v : Nat, a : Nat]

NoLine == [key |-> 0, kind |-> "BLANK", v |-> 0, a |-> 0]

ASSUME ConfiguratorAssumption ==
    /\ \A f \in WindowsFiles \cup LinuxFiles :
          f.format \in FPTVideoFormat /\ f.lines \in Seq(Line)
    /\ \A b \in Buffers : b.of = NoLine /\ b.strlen \in Nat
    /\ NbRecorders \in 0 .. 99

VARIABLES
    windows,        \* the build
    file,           \* Config.ini
    strValue,       \* load's buffer: whose text it begins with, its quotes, strlen
    recorder,       \* the cameras found: their video and audio files
    phase,          \* cameras, prepare, trapped, loaded, opened
    opened          \* the channels that main has opened

configVars == <<windows, file, strValue, recorder, phase, opened>>

ConfigInit ==
    /\ \/ windows = TRUE /\ file \in WindowsFiles
       \/ windows = FALSE /\ file \in LinuxFiles
    /\ strValue \in Buffers
    /\ recorder = <<>> /\ phase = "cameras" /\ opened = {}

-----------------------------------------------------------------------------
(* Texts and their quotation marks.                                        *)

Size(l) == CASE l.kind = "FILE" -> 11 + l.v + l.a [] l.kind = "SDI" -> 6 [] OTHER -> 0

\* Around the name of the video and around the name of the audio.
VideoQuotes(l) == {6, 7 + l.v}
AudioQuotes(l) == {9 + l.v, 10 + l.v + l.a}
Quotes(l) == IF l.kind = "FILE" THEN VideoQuotes(l) \cup AudioQuotes(l) ELSE {}

Text(l) == [of |-> l, quotes |-> Quotes(l), strlen |-> Size(l)]

\* Where the text of a line begins: behind "Cam", the number, " =".
Position(l) == IF l.key < 10 THEN 6 ELSE IF l.key < 100 THEN 7 ELSE 8

-----------------------------------------------------------------------------
(* Reading a value: what the buffer may hold then.                         *)

\* strncmp of a line with "Cam<key>", which does not look at what follows.
StartsWith(l, key) == key \in {l.key, l.key \div 10, l.key \div 100}

LinesOf(key) == {i \in DOMAIN file.lines : file.lines[i].key = key}
LinesWith(key) == {i \in DOMAIN file.lines : StartsWith(file.lines[i], key)}

FirstOf(found) == file.lines[CHOOSE i \in found : \A j \in found : i <= j]

\* GetPrivateProfileString: the value of the key, or an empty one.
ReadWindows(key) ==
    {IF LinesOf(key) = {} THEN Text(NoLine) ELSE Text(FirstOf(LinesOf(key)))}

\* strncpy of a text and its line feed over what the buffer holds, whose NUL may
\* be among what is overwritten: the text then goes on with what is behind it. The
\* loop that should end the text looks for the line feed in the line, not in the
\* text.
Overwritten(l) ==
    LET at == Position(l) + Size(l)
        Ended(end, rest) ==
            [of |-> IF l.kind = "BLANK" THEN strValue.of ELSE l,
             quotes |-> Quotes(l) \cup {q \in rest : Size(l) < q /\ q < end},
             strlen |-> end]
    IN  IF strValue.strlen > Size(l)
        THEN {Ended(IF at < strValue.strlen THEN at ELSE strValue.strlen, strValue.quotes)}
        ELSE {Ended(end, rest) : end \in Size(l) + 1 .. at, rest \in Behind}

\* IniReadValue: the first line that starts with the key; nothing is written
\* when there is none.
IniReadValue(key) ==
    IF LinesWith(key) = {} THEN {strValue} ELSE Overwritten(FirstOf(LinesWith(key)))

readStringValue(key) == IF windows THEN ReadWindows(key) ELSE IniReadValue(key)

\* Mutant: the name of the audio ends at the quotation mark of the video.
LoadLSMConfigValueFirstQuote(value) ==
    [ok |-> value.of.kind = "FILE" /\ VideoQuotes(value.of) \subseteq value.quotes,
     video |-> IF value.of.v > 0 THEN value.of.key ELSE 0,
     audio |-> IF /\ AudioQuotes(value.of) \subseteq value.quotes
                  /\ \A q \in value.quotes : q >= 10 + value.of.v + value.of.a
               THEN value.of.key ELSE 0]

\* LoadLSMConfigValue: the files that a value names, the video 0 when its name is
\* empty; ok says whether it names any.
\* The name of the audio ends at the last quotation mark of the buffer; it is
\* 0 when this is not the one that belongs to it.
LoadLSMConfigValue(value) ==
    [ok |-> value.of.kind = "FILE" /\ VideoQuotes(value.of) \subseteq value.quotes,
     video |-> IF value.of.v > 0 THEN value.of.key ELSE 0,
     audio |-> IF /\ AudioQuotes(value.of) \subseteq value.quotes
                  /\ \A q \in value.quotes : q <= 10 + value.of.v + value.of.a
               THEN value.of.key ELSE 0]

-----------------------------------------------------------------------------
(* load                                                                    *)

\* Mutant: a camera without files is passed over.
ReadCameraOverHole ==
    /\ phase = "cameras" /\ Len(recorder) < NbRecorders
    /\ \E value \in readStringValue(Len(recorder) + 1) :
          /\ strValue' = value
          /\ recorder' = Append(recorder, LoadLSMConfigValue(value))
    /\ UNCHANGED <<windows, file, phase, opened>>

\* One round of the loop that goes on to the next camera.
ReadCamera ==
    /\ phase = "cameras" /\ Len(recorder) < NbRecorders
    /\ \E value \in readStringValue(Len(recorder) + 1) :
          /\ LoadLSMConfigValue(value).ok
          /\ strValue' = value
          /\ recorder' = Append(recorder, LoadLSMConfigValue(value))
    /\ UNCHANGED <<windows, file, phase, opened>>

\* The round that leaves the loop: "don't support config hole".
LastCamera ==
    /\ phase = "cameras" /\ Len(recorder) < NbRecorders
    /\ \E value \in readStringValue(Len(recorder) + 1) :
          ~LoadLSMConfigValue(value).ok /\ strValue' = value
    /\ phase' = "prepare"
    /\ UNCHANGED <<windows, file, recorder, opened>>

\* Every entry of m_stConfig.recorder is taken.
NoMoreRecorders ==
    /\ phase = "cameras" /\ Len(recorder) = NbRecorders
    /\ phase' = "prepare"
    /\ UNCHANGED <<windows, file, strValue, recorder, opened>>

\* prepareData divides the two parts of the frame rate as integers. The row of
\* UNKNOWN has zeros, and the program ends here. For the two SD formats, which have
\* no row, the loops of the getters go on behind the table: what they find
\* there, or the row of UNKNOWN, is taken.
prepareData ==
    /\ phase = "prepare"
    /\ phase' \in IF file.format \in Listed THEN {"loaded"}
                  ELSE IF file.format = UNKNOWN THEN {"trapped"} ELSE {"trapped", "loaded"}
    /\ UNCHANGED <<windows, file, strValue, recorder, opened>>

-----------------------------------------------------------------------------
(* main                                                                    *)

\* What is4K may say, by the height and the width in the format's row.
is4K == IF file.format \in Listed THEN {file.format.lines = 2160} ELSE BOOLEAN

OpenChannels ==
    /\ phase = "loaded" /\ phase' = "opened"
    /\ \E uhd \in is4K :
          opened' = {c \in 1 .. (IF uhd THEN 1 ELSE 8) : c <= Len(recorder) /\ recorder[c].video # 0}
    /\ UNCHANGED <<windows, file, strValue, recorder>>

ConfigNext == ReadCamera \/ LastCamera \/ NoMoreRecorders \/ prepareData \/ OpenChannels

ConfigSpec == ConfigInit /\ [][ConfigNext]_configVars

-----------------------------------------------------------------------------
(* Properties.                                                             *)

\* Whether the file names the files of a camera.
Given(key) == LinesOf(key) # {} /\ FirstOf(LinesOf(key)).kind = "FILE"

\* The cameras that load finds are those before the first one without files,
\* whatever the buffer held: true of the Windows build only.
StopsAtHole ==
    phase # "cameras" =>
        1 .. Len(recorder) = {c \in 1 .. NbRecorders : \A d \in 1 .. c : Given(d)}

\* A channel plays the video and the audio that the file names for it, never those
\* of another camera: true of the Windows build only.
OwnFiles == \A c \in opened : recorder[c].video = c /\ recorder[c].audio = c

\* The inductive invariant.
ConfigInv ==
    /\ file \in IF windows THEN WindowsFiles ELSE LinuxFiles
    /\ phase \in {"cameras", "prepare", "trapped", "loaded", "opened"}
    /\ recorder \in Seq([ok : BOOLEAN, video : Nat, audio : Nat])
    /\ Len(recorder) <= NbRecorders
    /\ opened \subseteq 1 .. Len(recorder) /\ \A c \in opened : recorder[c].video # 0
    /\ strValue.of \in Line \cup {NoLine} /\ strValue.strlen \in Nat
    /\ windows =>
          /\ \A c \in 1 .. Len(recorder) :
                Given(c) /\ recorder[c].video \in {c, 0} /\ recorder[c].audio = c
          /\ phase = "cameras" \/ Len(recorder) = NbRecorders \/ ~Given(Len(recorder) + 1)
=============================================================================
