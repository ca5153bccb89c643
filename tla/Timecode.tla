------------------------------ MODULE Timecode ------------------------------
(***************************************************************************)
(* Timecode counts frames in hours, minutes, seconds and frames, with      *)
(* drop-frame counting for 29.97 and 59.94 frames a second.                *)
(* ControlerTimeCode computes the same relation between a timecode and a   *)
(* number of frames since midnight, without counting.                      *)
(***************************************************************************)
EXTENDS Integers

CONSTANTS
    Rates,                      \* the rates: [max : frames in a second, drop : BOOLEAN]
    Hours, Minutes, Seconds,    \* where the counting may begin
    MaxFrames                   \* bound: frames counted

\* The rates that both classes know; those with drop are 29.97 and 59.94.
KnownRates == [max : {24, 25, 30, 50, 60}, drop : {FALSE}] \cup [max : {30, 60}, drop : {TRUE}]

ASSUME TimecodeAssumption ==
    /\ Rates \subseteq KnownRates
    /\ Hours \subseteq 0 .. 23 /\ Minutes \subseteq 0 .. 59 /\ Seconds \subseteq 0 .. 59
    /\ MaxFrames \in Nat

VARIABLES
    rate,       \* what increase and decrease are called with
    tc,         \* the timecode
    was,        \* where the counting began
    call,       \* the calls since then: none, increase or decrease
    counted,    \* their number
    skipped     \* decrease has left out frames that increase counts

vars == <<rate, tc, was, call, counted, skipped>>

Time == [hour : 0 .. 23, minute : 0 .. 59, second : 0 .. 59, frame : Nat]

\* The numbers that drop-frame counting leaves out at the start of a minute.
Dropped == IF rate.drop THEN IF rate.max = 30 THEN 2 ELSE 4 ELSE 0

\* The timecodes that exist.
Valid(t) ==
    /\ t \in Time /\ t.frame < rate.max
    /\ t.minute % 10 # 0 /\ t.second = 0 => t.frame >= Dropped

Init ==
    /\ rate \in Rates
    /\ \E h \in Hours, m \in Minutes, s \in Seconds, f \in 0 .. rate.max - 1 :
          tc = [hour |-> h, minute |-> m, second |-> s, frame |-> f]
    /\ Valid(tc)
    /\ was = tc /\ call = "none" /\ counted = 0 /\ skipped = FALSE

-----------------------------------------------------------------------------
(* increase and decrease                                                   *)

NextHour(t) == [hour |-> (t.hour + 1) % 24, minute |-> 0, second |-> 0, frame |-> 0]

\* Mutant: the tenth minutes are no exception.
NextMinuteAlways(t) ==
    [t EXCEPT !.minute = @ + 1, !.second = 0, !.frame = Dropped]

NextMinute(t) ==
    [t EXCEPT !.minute = @ + 1, !.second = 0,
              !.frame = IF (t.minute + 1) % 10 # 0 THEN Dropped ELSE 0]

\* Timecode::increase
Increased(t) ==
    IF t.frame + 1 # rate.max THEN [t EXCEPT !.frame = @ + 1]
    ELSE IF t.second # 59 THEN [t EXCEPT !.frame = 0, !.second = @ + 1]
    ELSE IF t.minute # 59 THEN NextMinute(t)
    ELSE NextHour(t)

PreviousMinute(t) ==
    IF t.minute # 0 THEN [t EXCEPT !.minute = @ - 1]
    ELSE [t EXCEPT !.minute = 59, !.hour = IF t.hour = 0 THEN 23 ELSE @ - 1]

\* Mutant: the minute is kept when the second wraps.
PreviousSecondOnly(t) == [t EXCEPT !.second = IF @ = 0 THEN 59 ELSE @ - 1]

PreviousSecond(t) ==
    IF t.second # 0 THEN [t EXCEPT !.second = @ - 1]
    ELSE PreviousMinute([t EXCEPT !.second = 59])

\* Timecode::decrease; whether a second has just begun is not asked.
Decreased(t) ==
    IF t.frame = 0 \/ (rate.drop /\ t.frame = Dropped /\ t.minute % 10 # 0)
    THEN PreviousSecond([t EXCEPT !.frame = rate.max - 1])
    ELSE [t EXCEPT !.frame = @ - 1]

\* Where decrease takes a frame in the middle of a minute for the first one of
\* the minute, because it does not ask for the second: the frames before it in
\* its second, which increase and ControlerTimeCode do count, are passed over.
SkipsBack(t) == rate.drop /\ t.frame = Dropped /\ t.minute % 10 # 0 /\ t.second # 0

Increase ==
    /\ call \in {"none", "increase"}
    /\ tc' = Increased(tc)
    /\ counted' = counted + 1
    /\ call' = "increase"
    /\ UNCHANGED skipped

\* decrease by a number of frames is a loop of decrease.
Decrease ==
    /\ call \in {"none", "decrease"}
    /\ tc' = Decreased(tc)
    /\ counted' = counted + 1
    /\ call' = "decrease"
    /\ skipped' = (skipped \/ SkipsBack(tc))

Next == counted < MaxFrames /\ UNCHANGED <<rate, was>> /\ (Increase \/ Decrease)

Spec == Init /\ [][Next]_vars

\* operator==, and the other way round operator!=.
Same(t, u) == /\ t.hour = u.hour /\ t.minute = u.minute
              /\ t.second = u.second /\ t.frame = u.frame

\* Mutant: the minutes are shifted as far as the seconds.
CompareShift(t, u) ==
    LET bytes(x) == (x.hour * 65536 + x.minute + x.second) * 256 + x.frame
    IN  bytes(u) - bytes(t)

\* t.compare(u); no field has more than 7 bits.
Compare(t, u) ==
    LET bytes(x) == ((x.hour * 256 + x.minute) * 256 + x.second) * 256 + x.frame
    IN  bytes(u) - bytes(t)

-----------------------------------------------------------------------------
(* ControlerTimeCode                                                       *)

\* SetFps: the frames of each unit, for the rates up to 30 and doubled above.
UnitsOf(base, correction, times) ==
    LET minute == base * 60 - correction
        ten == minute * 10 + correction
    IN  [correction |-> correction * times, second |-> base * times,
         minute |-> minute * times, ten |-> ten * times,
         hour |-> ten * 6 * times, day |-> ten * 6 * 24 * times]

Units ==
    LET correction == IF rate.drop THEN 2 ELSE 0 IN
    IF rate.max <= 30 THEN UnitsOf(rate.max, correction, 1)
                      ELSE UnitsOf(rate.max \div 2, correction, 2)

ToFrame(t) ==
    t.hour * Units.hour + (t.minute \div 10) * Units.ten
        + (t.minute % 10) * Units.minute + t.second * Units.second + t.frame

\* The frames of ten minutes, counted as if none had been left out.
WithDropped(n) ==
    LET minutes == n \div Units.minute
        padded == n + minutes * Units.correction
    IN  IF minutes > 0 /\ padded % (Units.minute + Units.correction) < Units.correction
        THEN padded - Units.correction
        ELSE padded

\* Mutant: a frame at the end of a minute is not moved back.
FromFrameNoMove(n) ==
    LET inTen == (n % Units.hour) % Units.ten
        full == Units.minute + Units.correction
        padded == inTen + (inTen \div Units.minute) * Units.correction
    IN  [hour |-> (n % Units.day) \div Units.hour,
         minute |-> ((n % Units.hour) \div Units.ten) * 10 + padded \div full,
         second |-> (padded % full) \div Units.second,
         frame |-> (padded % full) % Units.second]

FromFrame(n) ==
    LET inTen == (n % Units.hour) % Units.ten
        full == Units.minute + Units.correction
        padded == WithDropped(inTen)
    IN  [hour |-> (n % Units.day) \div Units.hour,
         minute |-> ((n % Units.hour) \div Units.ten) * 10 + padded \div full,
         second |-> (padded % full) \div Units.second,
         frame |-> (padded % full) % Units.second]

-----------------------------------------------------------------------------
(* Properties.                                                             *)

\* increase goes through all the timecodes that exist: as many calls as there
\* are frames between two timecodes, in the sense of ControlerTimeCode, lead
\* from one to the other; midnight follows the last frame of the day.
IncreaseCounts ==
    call = "increase" =>
        Valid(tc) /\ ToFrame(tc) = (ToFrame(was) + counted) % Units.day

\* decrease goes back through the same timecodes, a frame a call, over every
\* change of unit and past the numbers that drop-frame counting leaves out at
\* the start of a minute.  At 29.97 and 59.94 that holds until it meets the
\* same numbers inside a minute: from there on it is ahead of its calls, by
\* frames that exist, and all that is left is that its timecode exists.
DecreaseCounts ==
    call = "decrease" =>
        /\ Valid(tc)
        /\ ~skipped => ToFrame(tc) = (ToFrame(was) - counted) % Units.day

\* compare tells the earlier from the later timecode as the numbers of their
\* frames do, and finds no difference just where == finds none.
CompareOrders ==
    /\ Compare(was, tc) > 0 <=> ToFrame(was) < ToFrame(tc)
    /\ Compare(was, tc) = 0 <=> Same(was, tc)

\* FromFrame finds the timecode back from the number of its frame.
FromFrameInverse == FromFrame(ToFrame(tc)) = tc

\* The inductive invariant.
IInv ==
    /\ rate \in Rates /\ call \in {"none", "increase", "decrease"} /\ counted \in Nat
    /\ Valid(was) /\ Valid(tc)
    /\ call = "none" => tc = was /\ counted = 0
    /\ IncreaseCounts /\ DecreaseCounts
=============================================================================
