----------------------------- MODULE LoopingTape -----------------------------
(***************************************************************************)
(* What the readers of the audio and of the video file promise the         *)
(* provider: once a tape is in, it is played from its start, piece after   *)
(* piece.  When less than a piece is left, the tape starts again, and the  *)
(* rest is not played.                                                     *)
(***************************************************************************)
EXTENDS Naturals

CONSTANT
    Pieces      \* the lengths a piece may have

VARIABLES
    length,     \* the length of the tape, 0 when there is none
    at,         \* the place under the head
    heard       \* the piece last played, [from, to), or silence (black)

Silence == [from |-> 0, to |-> 0]

Init == length = 0 /\ at = 0 /\ heard = Silence

Insert ==
    /\ length = 0
    /\ length' \in Nat
    /\ at' = 0
    /\ UNCHANGED heard

\* The next n places.
Play(n) ==
    /\ at + n <= length
    /\ heard' = [from |-> at, to |-> at + n]
    /\ at' = at + n
    /\ UNCHANGED length

\* Too little is left: back to the start.
Restart(n) ==
    /\ at + n > length /\ n <= length
    /\ heard' = [from |-> 0, to |-> n]
    /\ at' = n
    /\ UNCHANGED length

\* The whole tape is shorter than the piece.
PlayNothing(n) ==
    /\ n > length
    /\ heard' = Silence
    /\ at' = length
    /\ UNCHANGED length

Next == Insert \/ \E n \in Pieces : Play(n) \/ Restart(n) \/ PlayNothing(n)

Spec == Init /\ [][Next]_<<length, at, heard>>
=============================================================================
