----------------------------- MODULE MCPlayback -----------------------------
(* Playback for TLC: each listed format with files of every kind, and lines  *)
(* for the cameras 1, 2, 3 and 10.                                           *)
EXTENDS Playback

Plain(n) == [length |-> n, id4 |-> FALSE]

\* Files of every length that matters to some format: nothing, less than id,
\* one picture of 720 lines, and of 1080, 2160 and 4320 lines some whole
\* pictures, a byte less or some more; and one of the old kind.
GoodFiles ==
    {Plain(n) : n \in {0, 7, 1843200, 2 * 4147200 + 5, 3 * 16588800 - 1, 2 * 66355200 + 1,
                       3 * 66355200}}
    \cup {[length |-> 66355200, id4 |-> TRUE]}

HD == [lines |-> 1080, scan |-> "i", rate |-> 5000]
UHD == [lines |-> 2160, scan |-> "p", rate |-> 5000]

FileLine(key) == {[key |-> key, kind |-> "FILE", v |-> n, a |-> n] : n \in {0, 5}}
Blank(key) == {[key |-> key, kind |-> "BLANK", v |-> 0, a |-> 0]}
SDI(key) == {[key |-> key, kind |-> "SDI", v |-> 0, a |-> 0]}
Choices(key) == {<<>>} \cup {<<l>> : l \in FileLine(key) \cup Blank(key) \cup SDI(key)}

\* Any of the lines, in order or with that of camera 10 first.
AnyLines ==
    UNION {{a \o b \o c \o d, d \o a \o b \o c} :
              a \in Choices(1), b \in Choices(2), c \in Choices(3), d \in Choices(10)}

AnyFile == [format : {HD, UHD}, lines : AnyLines]
\* A line for the first camera only, of any format.
OneFile == [format : FPTVideoFormat, lines : {<<l>> : l \in FileLine(1)}]
AnyWindows == AnyFile \cup OneFile

\* The first camera's files, and the third's behind a hole.
Named(key) == [key |-> key, kind |-> "FILE", v |-> 5, a |-> 5]
Hole == {[format |-> HD, lines |-> <<Named(1), Named(3)>>]}

Buffer(quotes, strlen) == [of |-> NoLine, quotes |-> quotes, strlen |-> strlen]
\* What the stack may hold where load puts its buffer.
Clean == {Buffer({}, 0)}
Dirty == {Buffer({}, 0), Buffer({20, 23, 26}, 30)}
\* Nothing, or quotation marks behind the texts.
Junk == {{}, {14, 23}}
=============================================================================
