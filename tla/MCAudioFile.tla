----------------------------- MODULE MCAudioFile -----------------------------
(* AudioFile for TLC. *)
EXTENDS AudioFile

Fmt == [id |-> "fmt", size |-> 16]
Data(n) == [id |-> "data", size |-> n]
Other(n) == [id |-> "other", size |-> n]

\* Chunks one after the other, and the place after the last of them.
End(chunks) ==
    LET end[j \in 0 .. Len(chunks)] ==
            IF j = 0 THEN 12 ELSE end[j - 1] + 8 + chunks[j].size
    IN  end

WaveFile(chunks, block, cut) ==
    [chunks |-> [j \in DOMAIN chunks |->
                    [id |-> chunks[j].id, size |-> chunks[j].size, at |-> End(chunks)[j - 1]]],
     length |-> End(chunks)[Len(chunks)] - cut, riff |-> TRUE,
     supported |-> TRUE, block |-> block]

\* Files whose last chunk is the data: with more chunks before it, with data
\* that is no whole number of samples, shorter than a video frame or empty;
\* files that open refuses; and files cut off in or before their data.
Blocks == {2, 3, 4, 6, 8, 9, 12}
DataLast ==
    {WaveFile(before \o <<Data(n)>>, block, 0) :
        before \in {<<Fmt>>, <<Other(6), Fmt>>, <<Fmt, Other(0), Other(10)>>},
        n \in {0, 6, 24, 37, 40}, block \in {4, 6}}
    \cup {WaveFile(<<Fmt, Data(5 * block + 1)>>, block, 0) : block \in Blocks}
Refused ==
    LET wav == WaveFile(<<Other(6), Fmt, Data(24)>>, 4, 0) IN
    {[wav EXCEPT !.supported = FALSE], [wav EXCEPT !.riff = FALSE],
     [wav EXCEPT !.length = 7], WaveFile(<<Data(24), Fmt>>, 4, 0),
     WaveFile(<<Other(6), Fmt>>, 4, 5)}
\* A file may have a format and no data.
Dataless == {WaveFile(<<Fmt>>, 4, 0), WaveFile(<<Fmt, Data(8)>>, 4, 12)}
GoodFiles == DataLast \cup Refused \cup Dataless \cup {WaveFile(<<Fmt, Data(24)>>, 4, 10)}

\* A file with the chunk of tags that recorders put behind the data.
TaggedFiles == {WaveFile(<<Fmt, Data(24), Other(10)>>, 4, 0)}
=============================================================================
