---------------------------- MODULE TimecodeProof ----------------------------
(* Timecode and ControlerTimeCode agree at every timecode of the day, at   *)
(* each of the seven rates.  The rates are taken one by one where products *)
(* have to become numbers; what is left is arithmetic with constants.      *)
EXTENDS Timecode, TLAPS

(* The units of SetFps, from the frames of a second and those left out.    *)
LEMMA RateUnits ==
  ASSUME rate \in KnownRates
  PROVE  /\ \/ rate.max \in {24, 25, 30, 50, 60} /\ ~rate.drop /\ Dropped = 0
            \/ rate.max = 30 /\ rate.drop /\ Dropped = 2
            \/ rate.max = 60 /\ rate.drop /\ Dropped = 4
         /\ Units.correction = Dropped /\ Units.second = rate.max
         /\ Units.minute = rate.max * 60 - Dropped
         /\ Units.ten = rate.max * 600 - Dropped * 9
         /\ Units.hour = rate.max * 3600 - Dropped * 54
         /\ Units.day = rate.max * 86400 - Dropped * 1296
<1>1. rate.max \in {24, 25, 30, 50, 60} /\ rate.drop \in BOOLEAN
      /\ (rate.drop => rate.max \in {30, 60})
  BY DEF KnownRates
<1>2. CASE rate.drop
  BY <1>1, <1>2 DEF Dropped, Units, UnitsOf
<1>3. CASE ~rate.drop
  BY <1>1, <1>3 DEF Dropped, Units, UnitsOf
<1> QED BY <1>2, <1>3

(* The number of a frame, with a name for each of the units.               *)
LEMMA Numbers ==
  ASSUME rate \in KnownRates
  PROVE  \E S, D, M, T, H \in Nat :
            /\ S = rate.max /\ D = Dropped /\ D < S
            /\ M = S * 60 - D /\ T = M * 10 + D /\ H = T * 6 /\ Units.day = H * 24
            /\ \A t : ToFrame(t) = t.hour * H + (t.minute \div 10) * T + (t.minute % 10) * M
                                  + t.second * S + t.frame
<1>1. /\ Units.second \in Nat /\ Dropped \in Nat /\ Units.minute \in Nat /\ Units.ten \in Nat
      /\ Units.hour \in Nat
  BY RateUnits
<1>2. /\ Units.second = rate.max /\ Dropped < Units.second
      /\ Units.minute = Units.second * 60 - Dropped /\ Units.ten = Units.minute * 10 + Dropped
      /\ Units.hour = Units.ten * 6 /\ Units.day = Units.hour * 24
  BY RateUnits
<1>3. \A t : ToFrame(t) = t.hour * Units.hour + (t.minute \div 10) * Units.ten
                          + (t.minute % 10) * Units.minute + t.second * Units.second + t.frame
  BY DEF ToFrame
<1> QED BY <1>1, <1>2, <1>3

LEMMA Tens ==
  ASSUME NEW m \in 0 .. 59
  PROVE  m \div 10 \in 0 .. 5 /\ m % 10 \in 0 .. 9 /\ m = (m \div 10) * 10 + (m % 10)
<1>1. m \div 10 \in 0 .. 5 /\ m % 10 \in 0 .. 9
  OBVIOUS
<1>2. m = (m \div 10) * 10 + (m % 10)
  <2>1. m \in Nat
    OBVIOUS
  <2>2. m = 10 * (m \div 10) + (m % 10)
    BY <2>1
  <2>3. 10 * (m \div 10) = (m \div 10) * 10
    BY <1>1
  <2> QED BY <2>2, <2>3
<1> QED BY <1>1, <1>2

(* The fields of a timecode, its minute split at the ten.                  *)
LEMMA Fields ==
  ASSUME NEW t, Valid(t)
  PROVE  /\ t = [hour |-> t.hour, minute |-> t.minute, second |-> t.second, frame |-> t.frame]
         /\ t.hour \in 0 .. 23 /\ t.minute \in 0 .. 59 /\ t.second \in 0 .. 59 /\ t.frame \in Nat
         /\ t.frame < rate.max
         /\ t.minute % 10 # 0 /\ t.second = 0 => t.frame >= Dropped
         /\ t.minute \div 10 \in 0 .. 5 /\ t.minute % 10 \in 0 .. 9
         /\ t.minute = (t.minute \div 10) * 10 + (t.minute % 10)
<1>1. t \in Time /\ t.frame < rate.max
      /\ (t.minute % 10 # 0 /\ t.second = 0 => t.frame >= Dropped)
  BY DEF Valid
<1>2. t = [hour |-> t.hour, minute |-> t.minute, second |-> t.second, frame |-> t.frame]
      /\ t.hour \in 0 .. 23 /\ t.minute \in 0 .. 59 /\ t.second \in 0 .. 59 /\ t.frame \in Nat
  BY <1>1 DEF Time
<1>3. t.minute \div 10 \in 0 .. 5 /\ t.minute % 10 \in 0 .. 9
      /\ t.minute = (t.minute \div 10) * 10 + (t.minute % 10)
  BY <1>2, Tens
<1> QED BY <1>1, <1>2, <1>3

(* A number of units is at most the number of all units.                   *)
LEMMA Times ==
  ASSUME NEW n \in Nat, NEW m \in Nat, NEW U \in Nat, n <= m
  PROVE  n * U \in Nat /\ n * U <= m * U
<1>1. PICK d \in Nat : m = n + d
  <2>1. m - n \in Nat
    OBVIOUS
  <2> QED BY <2>1
<1>2. (n + d) * U = n * U + d * U /\ d * U \in Nat /\ n * U \in Nat
  OBVIOUS
<1> QED BY <1>1, <1>2

(* The frames of a day are numbered from 0.                                *)
LEMMA InDay ==
  ASSUME rate \in KnownRates, NEW t, Valid(t)
  PROVE  ToFrame(t) \in 0 .. Units.day - 1
<1> DEFINE h == t.hour      s == t.second    f == t.frame
           m == t.minute    q == m \div 10   r == (m % 10)
<1>1. /\ t = [hour |-> h, minute |-> m, second |-> s, frame |-> f]
      /\ h \in 0 .. 23 /\ m \in 0 .. 59 /\ s \in 0 .. 59 /\ f \in Nat /\ f < rate.max
      /\ q \in 0 .. 5 /\ r \in 0 .. 9 /\ m = q * 10 + r
      /\ r # 0 /\ s = 0 => f >= Dropped
  BY Fields
<1>2. PICK S, D, M, T, H \in Nat :
        /\ S = rate.max /\ D = Dropped /\ D < S
        /\ M = S * 60 - D /\ T = M * 10 + D /\ H = T * 6 /\ Units.day = H * 24
        /\ \A x : ToFrame(x) = x.hour * H + (x.minute \div 10) * T + (x.minute % 10) * M
                              + x.second * S + x.frame
  BY Numbers
<1> DEFINE hH == h * H      qT == q * T      rM == r * M      sS == s * S
<1>3. ToFrame(t) = hH + qT + rM + sS + f
  BY <1>2
<1>4. /\ hH \in Nat /\ qT \in Nat /\ rM \in Nat /\ sS \in Nat
      /\ hH <= 23 * H /\ qT <= 5 * T /\ rM <= 9 * M /\ sS <= 59 * S
  <2>1. h <= 23 /\ q <= 5 /\ r <= 9 /\ s <= 59 /\ h \in Nat /\ q \in Nat /\ r \in Nat /\ s \in Nat
    BY <1>1
  <2> HIDE DEF h, m, s, f, q, r
  <2> QED BY <2>1, Times
<1> HIDE DEF h, m, s, f, q, r, hH, qT, rM, sS
<1>5. sS + f <= M + D - 1
  BY <1>1, <1>2, <1>4
<1>6. rM + sS + f <= T - 1
  BY <1>1, <1>2, <1>4, <1>5
<1> QED BY <1>1, <1>2, <1>3, <1>4, <1>6

(* increase moves on by one frame.                                         *)
LEMMA IncreasedCounts ==
  ASSUME rate \in KnownRates, NEW t, Valid(t)
  PROVE  /\ Valid(Increased(t))
         /\ \/ ToFrame(Increased(t)) = ToFrame(t) + 1
            \/ ToFrame(Increased(t)) = 0 /\ ToFrame(t) + 1 = Units.day
<1> DEFINE h == t.hour      s == t.second    f == t.frame
           m == t.minute    q == m \div 10   r == (m % 10)
           u == Increased(t)
<1>1. /\ t = [hour |-> h, minute |-> m, second |-> s, frame |-> f]
      /\ h \in 0 .. 23 /\ m \in 0 .. 59 /\ s \in 0 .. 59 /\ f \in Nat /\ f < rate.max
      /\ q \in 0 .. 5 /\ r \in 0 .. 9 /\ m = q * 10 + r
      /\ r # 0 /\ s = 0 => f >= Dropped
  BY Fields
<1>2. PICK S, D, M, T, H \in Nat :
        /\ S = rate.max /\ D = Dropped /\ D < S
        /\ M = S * 60 - D /\ T = M * 10 + D /\ H = T * 6 /\ Units.day = H * 24
        /\ \A x : ToFrame(x) = x.hour * H + (x.minute \div 10) * T + (x.minute % 10) * M
                              + x.second * S + x.frame
  BY Numbers
<1> DEFINE hH == h * H      qT == q * T      rM == r * M      sS == s * S
<1>3. ToFrame(t) = hH + qT + rM + sS + f
  BY <1>2
<1>4. /\ hH \in Nat /\ qT \in Nat /\ rM \in Nat /\ sS \in Nat
      /\ hH <= 23 * H /\ qT <= 5 * T /\ rM <= 9 * M /\ sS <= 59 * S
  <2>1. h <= 23 /\ q <= 5 /\ r <= 9 /\ s <= 59 /\ h \in Nat /\ q \in Nat /\ r \in Nat /\ s \in Nat
    BY <1>1
  <2> HIDE DEF h, m, s, f, q, r
  <2> QED BY <2>1, Times
<1>5. /\ S = rate.max /\ D = Dropped /\ D < S /\ f \in Nat /\ f < S
       /\ M = S * 60 - D /\ T = M * 10 + D /\ H = T * 6 /\ Units.day = H * 24
  BY <1>1, <1>2
<1>6. /\ (h = 23 => hH = H * 23) /\ (h = 0 => hH = 0)
      /\ (q = 5 => qT = T * 5) /\ (q = 0 => qT = 0)
      /\ (r = 9 => rM = M * 9) /\ (r = 0 => rM = 0)
      /\ (s = 59 => sS = S * 59) /\ (s = 0 => sS = 0)
  <2> HIDE DEF h, m, s, f, q, r
  <2> QED OBVIOUS
<1>7. CASE f + 1 # rate.max
  <2>1. u = [hour |-> h, minute |-> m, second |-> s, frame |-> f + 1]
    BY <1>1, <1>7 DEF Increased
  <2> HIDE DEF u
  <2>2. Valid(u)
    BY <1>1, <1>7, <2>1, RateUnits DEF Valid, Time
  <2>3. ToFrame(u) = hH + qT + rM + sS + (f + 1)
    BY <1>2, <2>1
  <2> HIDE DEF h, m, s, f, q, r, hH, qT, rM, sS
  <2>4. ToFrame(u) = ToFrame(t) + 1
    BY <1>1, <1>3, <1>4, <1>6, <2>3
  <2> QED BY <2>2, <2>4 DEF u
<1>8. CASE f + 1 = rate.max /\ s # 59
  <2>1. u = [hour |-> h, minute |-> m, second |-> s + 1, frame |-> 0]
    BY <1>1, <1>8 DEF Increased
  <2> HIDE DEF u
  <2>2. Valid(u)
    BY <1>1, <1>8, <2>1, RateUnits DEF Valid, Time
  <2>3. ToFrame(u) = hH + qT + rM + (s + 1) * S + 0
    BY <1>2, <2>1
  <2> HIDE DEF h, m, s, f, q, r
  <2>4. (s + 1) * S = sS + S
    BY <1>1
  <2> HIDE DEF hH, qT, rM, sS
  <2>5. ToFrame(u) = ToFrame(t) + 1
    BY <1>1, <1>2, <1>3, <1>4, <1>6, <1>8, <2>3, <2>4
  <2> QED BY <2>2, <2>5 DEF u
<1>9. CASE f + 1 = rate.max /\ s = 59 /\ m # 59
  <2>1. u = [hour |-> h, minute |-> m + 1, second |-> 0,
             frame |-> IF (m + 1) % 10 # 0 THEN Dropped ELSE 0]
    BY <1>1, <1>9 DEF Increased, NextMinute
  <2> HIDE DEF u
  <2>2. Valid(u)
    BY <1>1, <1>9, <2>1, RateUnits DEF Valid, Time
  <2>3. CASE r # 9
    <3>1. (m + 1) \div 10 = q /\ (m + 1) % 10 = r + 1
      BY <1>1, <2>3
    <3>2. ToFrame(u) = hH + qT + (r + 1) * M + 0 * S + D
      BY <1>1, <1>2, <2>1, <3>1
    <3> HIDE DEF h, m, s, f, q, r
    <3>3. (r + 1) * M = rM + M
      BY <1>1
    <3> HIDE DEF hH, qT, rM, sS
    <3>4. ToFrame(u) = ToFrame(t) + 1
      <4>1. ToFrame(u) = hH + qT + (rM + M) + D /\ sS = S * 59
        BY <1>4, <1>9, <1>6, <3>2, <3>3
      <4> QED BY <1>3, <1>4, <1>9, <1>5, <4>1
    <3> QED BY <2>2, <3>4 DEF u
  <2>4. CASE r = 9
    <3>1. (m + 1) \div 10 = q + 1 /\ (m + 1) % 10 = 0
      BY <1>1, <2>4
    <3>2. ToFrame(u) = hH + (q + 1) * T + 0
      BY <1>1, <1>2, <2>1, <3>1
    <3> HIDE DEF h, m, s, f, q, r
    <3>3. (q + 1) * T = qT + T
      BY <1>1
    <3> HIDE DEF hH, qT, rM, sS
    <3>4. ToFrame(u) = ToFrame(t) + 1
      <4>1. ToFrame(u) = hH + (qT + T) /\ sS = S * 59 /\ rM = M * 9
        BY <1>4, <1>9, <1>6, <2>4, <3>2, <3>3
      <4> QED BY <1>3, <1>4, <1>9, <1>5, <4>1
    <3> QED BY <2>2, <3>4 DEF u
  <2> QED BY <2>3, <2>4
<1>10. CASE f + 1 = rate.max /\ s = 59 /\ m = 59
  <2>1. u = [hour |-> (h + 1) % 24, minute |-> 0, second |-> 0, frame |-> 0]
    BY <1>1, <1>10 DEF Increased, NextHour
  <2> HIDE DEF u
  <2>2. Valid(u)
    BY <1>1, <2>1, RateUnits DEF Valid, Time
  <2>3. (h # 23 /\ u.hour = h + 1) \/ (h = 23 /\ u.hour = 0)
    BY <1>1, <2>1
  <2>4. ToFrame(u) = u.hour * H + 0 * T + 0 * M + 0 * S + 0
    BY <1>2, <2>1
  <2>5. q = 5 /\ r = 9
    BY <1>1, <1>10
  <2> HIDE DEF h, m, s, f, q, r
  <2>6. (h + 1) * H = hH + H /\ u.hour * H \in Nat
    BY <1>1, <2>3
  <2>8. (u.hour = h + 1 => u.hour * H = hH + H) /\ (u.hour = 0 => u.hour * H = 0)
    BY <2>6
  <2> DEFINE uH == u.hour * H
  <2>9. ToFrame(u) = uH /\ ((h # 23 /\ uH = hH + H) \/ (h = 23 /\ uH = 0))
    <3>1. ToFrame(u) = uH
      BY <2>4, <2>6
    <3> HIDE DEF hH
    <3> QED BY <2>3, <2>8, <3>1
  <2> HIDE DEF hH, qT, rM, sS, uH
  <2>7. \/ ToFrame(u) = ToFrame(t) + 1
        \/ ToFrame(u) = 0 /\ ToFrame(t) + 1 = Units.day
    <3>1. ToFrame(t) = hH + T * 5 + M * 9 + S * 59 + (S - 1) /\ (h = 23 => hH = H * 23)
      BY <1>1, <1>2, <1>3, <1>4, <1>6, <1>10, <2>5
    <3>2. ToFrame(t) + 1 = hH + H
      BY <1>2, <1>4, <3>1
    <3> QED BY <1>2, <1>4, <2>9, <3>1, <3>2
  <2> QED BY <2>2, <2>7 DEF u
<1> QED BY <1>1, <1>7, <1>8, <1>9, <1>10

(* decrease moves back by one frame, or, where it takes a second inside a  *)
(* minute for its start, by as many more as a minute leaves out.           *)
LEMMA DecreasedCounts ==
  ASSUME rate \in KnownRates, NEW t, Valid(t),
         NEW n, n = 1 + IF SkipsBack(t) THEN Dropped ELSE 0
  PROVE  /\ n \in Nat /\ Valid(Decreased(t))
         /\ \/ ToFrame(Decreased(t)) = ToFrame(t) - n
            \/ ToFrame(Decreased(t)) = Units.day - 1 /\ ToFrame(t) = 0 /\ n = 1
<1> DEFINE h == t.hour      s == t.second    f == t.frame
           m == t.minute    q == m \div 10   r == (m % 10)
           u == Decreased(t)
           wraps == f = 0 \/ (rate.drop /\ f = Dropped /\ r # 0)
<1>1. /\ t = [hour |-> h, minute |-> m, second |-> s, frame |-> f]
      /\ h \in 0 .. 23 /\ m \in 0 .. 59 /\ s \in 0 .. 59 /\ f \in Nat /\ f < rate.max
      /\ q \in 0 .. 5 /\ r \in 0 .. 9 /\ m = q * 10 + r
      /\ r # 0 /\ s = 0 => f >= Dropped
  BY Fields
<1>2. PICK S, D, M, T, H \in Nat :
        /\ S = rate.max /\ D = Dropped /\ D < S
        /\ M = S * 60 - D /\ T = M * 10 + D /\ H = T * 6 /\ Units.day = H * 24
        /\ \A x : ToFrame(x) = x.hour * H + (x.minute \div 10) * T + (x.minute % 10) * M
                              + x.second * S + x.frame
  BY Numbers
<1> DEFINE hH == h * H      qT == q * T      rM == r * M      sS == s * S
<1>3. ToFrame(t) = hH + qT + rM + sS + f
  BY <1>2
<1>4. /\ hH \in Nat /\ qT \in Nat /\ rM \in Nat /\ sS \in Nat
      /\ hH <= 23 * H /\ qT <= 5 * T /\ rM <= 9 * M /\ sS <= 59 * S
  <2>1. h <= 23 /\ q <= 5 /\ r <= 9 /\ s <= 59 /\ h \in Nat /\ q \in Nat /\ r \in Nat /\ s \in Nat
    BY <1>1
  <2> HIDE DEF h, m, s, f, q, r
  <2> QED BY <2>1, Times
<1>5. /\ S = rate.max /\ D = Dropped /\ D < S /\ f \in Nat /\ f < S
       /\ M = S * 60 - D /\ T = M * 10 + D /\ H = T * 6 /\ Units.day = H * 24
  BY <1>1, <1>2
<1>6. /\ (h = 23 => hH = H * 23) /\ (h = 0 => hH = 0)
      /\ (q = 5 => qT = T * 5) /\ (q = 0 => qT = 0)
      /\ (r = 9 => rM = M * 9) /\ (r = 0 => rM = 0)
      /\ (s = 59 => sS = S * 59) /\ (s = 0 => sS = 0)
  <2> HIDE DEF h, m, s, f, q, r
  <2> QED OBVIOUS
<1>7. CASE ~wraps
  <2>1. u = [hour |-> h, minute |-> m, second |-> s, frame |-> f - 1]
    BY <1>1, <1>7 DEF Decreased
  <2>2. n = 1
    BY <1>7 DEF SkipsBack
  <2> HIDE DEF u
  <2>3. Valid(u)
    BY <1>1, <1>7, <2>1, RateUnits DEF Valid, Time
  <2>4. ToFrame(u) = hH + qT + rM + sS + (f - 1)
    BY <1>2, <2>1
  <2> HIDE DEF h, m, s, f, q, r, hH, qT, rM, sS
  <2>5. ToFrame(u) = ToFrame(t) - 1
    BY <1>1, <1>3, <1>4, <1>6, <2>4
  <2> QED BY <2>2, <2>3, <2>5 DEF u
<1>8. CASE wraps /\ s # 0
  <2>1. u = [hour |-> h, minute |-> m, second |-> s - 1, frame |-> rate.max - 1]
    BY <1>1, <1>8 DEF Decreased, PreviousSecond
  <2>2. n = 1 + f
    BY <1>1, <1>8, RateUnits DEF SkipsBack
  <2> HIDE DEF u
  <2>3. Valid(u)
    BY <1>1, <1>8, <2>1, RateUnits DEF Valid, Time
  <2>4. ToFrame(u) = hH + qT + rM + (s - 1) * S + (S - 1)
    BY <1>2, <2>1
  <2> HIDE DEF h, m, s, f, q, r
  <2>5. (s - 1) * S = sS - S
    BY <1>1
  <2> HIDE DEF hH, qT, rM, sS
  <2>6. ToFrame(u) = ToFrame(t) - n
    <3>1. ToFrame(u) = hH + qT + rM + (sS - S) + (S - 1)
      BY <2>4, <2>5
    <3> QED BY <1>3, <1>4, <1>5, <2>2, <3>1
  <2> QED BY <1>1, <2>2, <2>3, <2>6 DEF u
<1>9. CASE wraps /\ s = 0 /\ m # 0
  <2>1. u = [hour |-> h, minute |-> m - 1, second |-> 59, frame |-> rate.max - 1]
    BY <1>1, <1>9 DEF Decreased, PreviousSecond, PreviousMinute
  <2>2. n = 1
    BY <1>9 DEF SkipsBack
  <2> HIDE DEF u
  <2>3. Valid(u)
    BY <1>1, <1>9, <2>1, RateUnits DEF Valid, Time
  <2>4. CASE r # 0
    <3>1. (m - 1) \div 10 = q /\ (m - 1) % 10 = r - 1
      BY <1>1, <2>4
    <3>2. f = D
      BY <1>1, <1>2, <1>9, <2>4, RateUnits
    <3>3. ToFrame(u) = hH + qT + (r - 1) * M + S * 59 + (S - 1)
      BY <1>1, <1>2, <2>1, <3>1
    <3> HIDE DEF h, m, s, f, q, r
    <3>4. (r - 1) * M = rM - M
      BY <1>1
    <3> HIDE DEF hH, qT, rM, sS
    <3>5. ToFrame(u) = ToFrame(t) - 1
      BY <1>1, <1>2, <1>3, <1>4, <1>6, <1>9, <3>2, <3>3, <3>4
    <3> QED BY <2>2, <2>3, <3>5 DEF u
  <2>5. CASE r = 0
    <3>1. (m - 1) \div 10 = q - 1 /\ (m - 1) % 10 = 9
      BY <1>1, <1>9, <2>5
    <3>2. f = 0
      BY <1>9, <2>5
    <3>3. ToFrame(u) = hH + (q - 1) * T + M * 9 + S * 59 + (S - 1)
      BY <1>1, <1>2, <2>1, <3>1
    <3> HIDE DEF h, m, s, f, q, r
    <3>4. (q - 1) * T = qT - T
      BY <1>1
    <3> HIDE DEF hH, qT, rM, sS
    <3>5. ToFrame(u) = ToFrame(t) - 1
      BY <1>1, <1>2, <1>3, <1>4, <1>6, <1>9, <2>5, <3>2, <3>3, <3>4
    <3> QED BY <2>2, <2>3, <3>5 DEF u
  <2> QED BY <2>4, <2>5
<1>10. CASE wraps /\ s = 0 /\ m = 0
  <2>1. u = [hour |-> IF h = 0 THEN 23 ELSE h - 1,
             minute |-> 59, second |-> 59, frame |-> rate.max - 1]
    BY <1>1, <1>10 DEF Decreased, PreviousSecond, PreviousMinute
  <2>2. n = 1 /\ q = 0 /\ r = 0
    BY <1>1, <1>10 DEF SkipsBack
  <2>3. f = 0
    BY <1>10, <2>2
  <2> HIDE DEF u
  <2>4. Valid(u)
    BY <1>1, <2>1, RateUnits DEF Valid, Time
  <2>5. (h = 0 /\ u.hour = 23) \/ (h # 0 /\ u.hour = h - 1)
    BY <1>1, <2>1
  <2>6. ToFrame(u) = u.hour * H + T * 5 + M * 9 + S * 59 + (S - 1)
    BY <1>2, <2>1
  <2> HIDE DEF h, m, s, f, q, r
  <2>7. (h - 1) * H = hH - H
    BY <1>1
  <2>9. \/ h = 0 /\ ToFrame(u) = H * 23 + T * 5 + M * 9 + S * 59 + (S - 1)
        \/ h # 0 /\ ToFrame(u) = hH - H + T * 5 + M * 9 + S * 59 + (S - 1)
    <3>1. 5 * T = T * 5 /\ 9 * M = M * 9 /\ 59 * S = S * 59 /\ 23 * H = H * 23
      OBVIOUS
    <3> HIDE DEF hH
    <3> QED BY <1>1, <2>5, <2>6, <2>7, <3>1
  <2> HIDE DEF hH, qT, rM, sS
  <2>8. \/ ToFrame(u) = ToFrame(t) - 1
        \/ ToFrame(u) = Units.day - 1 /\ ToFrame(t) = 0
    BY <1>1, <1>2, <1>3, <1>4, <1>6, <1>10, <2>2, <2>3, <2>9
  <2> QED BY <2>2, <2>4, <2>8 DEF u
<1> QED BY <1>1, <1>7, <1>8, <1>9, <1>10

-----------------------------------------------------------------------------
(* The order of the timecodes, and the way back from a number.             *)

\* One timecode is before another, field by field.
Before(t, u) ==
    \/ t.hour < u.hour
    \/ t.hour = u.hour /\ t.minute < u.minute
    \/ t.hour = u.hour /\ t.minute = u.minute /\ t.second < u.second
    \/ t.hour = u.hour /\ t.minute = u.minute /\ t.second = u.second /\ t.frame < u.frame

(* Of two timecodes the later has the larger number.                       *)
LEMMA BeforeCounts ==
  ASSUME rate \in KnownRates, NEW t, NEW u, Valid(t), Valid(u), Before(t, u)
  PROVE  ToFrame(t) < ToFrame(u)
<1> DEFINE h == t.hour   q == t.minute \div 10   r == (t.minute % 10)   s == t.second   f == t.frame
           i == u.hour   v == u.minute \div 10   w == (u.minute % 10)   x == u.second   g == u.frame
<1>1. /\ h \in Nat /\ q \in 0 .. 5 /\ r \in 0 .. 9 /\ s \in 0 .. 59 /\ f \in Nat /\ f < rate.max
      /\ t.minute = q * 10 + r
  BY Fields
<1>2. /\ i \in Nat /\ v \in 0 .. 5 /\ w \in 0 .. 9 /\ x \in 0 .. 59 /\ g \in Nat /\ g < rate.max
      /\ u.minute = v * 10 + w /\ (w # 0 /\ x = 0 => g >= Dropped)
  BY Fields
<1>3. PICK S, D, M, T, H \in Nat :
        /\ S = rate.max /\ D = Dropped /\ D < S
        /\ M = S * 60 - D /\ T = M * 10 + D /\ H = T * 6 /\ Units.day = H * 24
        /\ \A y : ToFrame(y) = y.hour * H + (y.minute \div 10) * T + (y.minute % 10) * M
                              + y.second * S + y.frame
  BY Numbers
<1> DEFINE hH == h * H    qT == q * T    rM == r * M    sS == s * S
           iH == i * H    vT == v * T    wM == w * M    xS == x * S
<1>4. ToFrame(t) = hH + qT + rM + sS + f /\ ToFrame(u) = iH + vT + wM + xS + g
  BY <1>3
<1>5. /\ S = rate.max /\ D = Dropped /\ D < S /\ M = S * 60 - D /\ T = M * 10 + D /\ H = T * 6
  BY <1>3
<1>6. \/ h < i
      \/ h = i /\ q < v
      \/ h = i /\ q = v /\ r < w
      \/ h = i /\ q = v /\ r = w /\ s < x
      \/ h = i /\ q = v /\ r = w /\ s = x /\ f < g
  <2>1. /\ (t.minute < u.minute => q < v \/ (q = v /\ r < w))
        /\ (t.minute = u.minute => q = v /\ r = w)
    <3> HIDE DEF q, r, v, w
    <3> QED BY <1>1, <1>2
  <2> HIDE DEF q, r, v, w
  <2> QED BY <2>1 DEF Before
<1> HIDE DEF h, q, r, s, f, i, v, w, x, g
<1>7. /\ hH \in Nat /\ qT \in Nat /\ rM \in Nat /\ sS \in Nat
      /\ iH \in Nat /\ vT \in Nat /\ wM \in Nat /\ xS \in Nat
  BY <1>1, <1>2, Times
<1>8. qT <= 5 * T /\ rM <= 9 * M /\ sS <= 59 * S
  BY <1>1, Times
<1>9. /\ (h < i => hH + H <= iH) /\ (q < v => qT + T <= vT)
      /\ (r < w => rM + M <= wM) /\ (s < x => sS + S <= xS)
  <2>1. (h + 1) * H = hH + H /\ (q + 1) * T = qT + T /\ (r + 1) * M = rM + M /\ (s + 1) * S = sS + S
    BY <1>1
  <2>2. /\ (h < i => (h + 1) * H <= iH) /\ (q < v => (q + 1) * T <= vT)
        /\ (r < w => (r + 1) * M <= wM) /\ (s < x => (s + 1) * S <= xS)
    BY <1>1, <1>2, Times
  <2> QED BY <2>1, <2>2
<1>10. /\ (h = i => hH = iH) /\ (q = v => qT = vT) /\ (r = w => rM = wM) /\ (s = x => sS = xS)
  OBVIOUS
<1>11. w # 0 => xS + g >= D
  <2>1. x >= 1 => xS >= 1 * S
    BY <1>2, Times
  <2> HIDE DEF xS
  <2> QED BY <1>2, <1>5, <1>7, <2>1
<1> HIDE DEF hH, qT, rM, sS, iH, vT, wM, xS
<1>12. sS + f <= M + D - 1
  BY <1>1, <1>5, <1>7, <1>8
<1>13. rM + sS + f <= T - 1
  BY <1>1, <1>5, <1>7, <1>8, <1>12
<1>14. qT + rM + sS + f <= H - 1
  BY <1>1, <1>5, <1>7, <1>8, <1>13
<1>15. hH + qT + rM + sS + f < iH + vT + wM + xS + g
  BY <1>1, <1>2, <1>5, <1>6, <1>7, <1>9, <1>10, <1>11, <1>12, <1>13, <1>14
<1> QED BY <1>4, <1>15

\* Each field is a byte.
LEMMA Bytes ==
  ASSUME rate \in KnownRates, NEW t, Valid(t)
  PROVE  t.hour \in 0 .. 23 /\ t.minute \in 0 .. 59 /\ t.second \in 0 .. 59 /\ t.frame \in 0 .. 59
<1>1. t.frame \in Nat /\ t.frame < rate.max /\ t.hour \in 0 .. 23
      /\ t.minute \in 0 .. 59 /\ t.second \in 0 .. 59
  BY Fields
<1> QED BY <1>1, RateUnits

LEMMA BeforeCompares ==
  ASSUME rate \in KnownRates, NEW t, NEW u, Valid(t), Valid(u), Before(t, u)
  PROVE  Compare(t, u) > 0 /\ Compare(u, t) < 0
<1> DEFINE h == t.hour   m == t.minute   s == t.second   f == t.frame
           i == u.hour   n == u.minute   x == u.second   g == u.frame
<1>1. h \in 0 .. 23 /\ m \in 0 .. 59 /\ s \in 0 .. 59 /\ f \in 0 .. 59
  BY Bytes
<1>2. i \in 0 .. 23 /\ n \in 0 .. 59 /\ x \in 0 .. 59 /\ g \in 0 .. 59
  BY Bytes
<1>3. /\ Compare(t, u) = (((i * 256 + n) * 256 + x) * 256 + g) - (((h * 256 + m) * 256 + s) * 256 + f)
      /\ Compare(u, t) = (((h * 256 + m) * 256 + s) * 256 + f) - (((i * 256 + n) * 256 + x) * 256 + g)
  BY DEF Compare
<1>4. \/ h < i
      \/ h = i /\ m < n
      \/ h = i /\ m = n /\ s < x
      \/ h = i /\ m = n /\ s = x /\ f < g
  BY DEF Before
<1> HIDE DEF h, m, s, f, i, n, x, g
<1> QED BY <1>1, <1>2, <1>3, <1>4

(* compare and the numbers order all timecodes alike.                      *)
LEMMA Ordered ==
  ASSUME rate \in KnownRates, NEW t, NEW u, Valid(t), Valid(u)
  PROVE  /\ Compare(t, u) > 0 <=> ToFrame(t) < ToFrame(u)
         /\ Compare(t, u) = 0 <=> Same(t, u)
<1>1. /\ t.hour \in Nat /\ t.minute \in Nat /\ t.second \in Nat /\ t.frame \in Nat
      /\ u.hour \in Nat /\ u.minute \in Nat /\ u.second \in Nat /\ u.frame \in Nat
  BY Bytes
<1>2. ToFrame(t) \in Int /\ ToFrame(u) \in Int /\ Compare(t, u) \in Int
  BY <1>1, InDay, RateUnits DEF Compare
<1>3. Before(t, u) \/ Before(u, t) \/ Same(t, u)
  BY <1>1 DEF Before, Same
<1>4. CASE Before(t, u)
  <2>1. Compare(t, u) > 0 /\ ToFrame(t) < ToFrame(u)
    BY <1>4, BeforeCounts, BeforeCompares
  <2>2. ~Same(t, u)
    BY <1>1, <1>4 DEF Before, Same
  <2> QED BY <1>2, <2>1, <2>2
<1>5. CASE Before(u, t)
  <2>1. Compare(t, u) < 0 /\ ToFrame(u) < ToFrame(t)
    BY <1>5, BeforeCounts, BeforeCompares
  <2>2. ~Same(t, u)
    BY <1>1, <1>5 DEF Before, Same
  <2> QED BY <1>2, <2>1, <2>2
<1>6. CASE Same(t, u)
  <2>1. ToFrame(t) = ToFrame(u)
    BY <1>6 DEF ToFrame, Same
  <2>2. Compare(t, u) = 0
    BY <1>1, <1>6 DEF Compare, Same
  <2> QED BY <1>2, <1>6, <2>1, <2>2
<1> QED BY <1>3, <1>4, <1>5, <1>6

(* A quotient and a remainder are what division gives back.                *)
LEMMA Division ==
  ASSUME NEW n \in Nat \ {0}, NEW a \in Int, NEW b \in 0 .. n - 1
  PROVE  (a * n + b) \div n = a /\ (a * n + b) % n = b
  OBVIOUS

(* FromFrame takes the number apart: the hours, the ten minutes and what   *)
(* is left of them, from which the minute and its frame are found although *)
(* the first minute of ten is longer than the others.                      *)
LEMMA FromFrameBack ==
  ASSUME rate \in KnownRates, NEW t, Valid(t)
  PROVE  FromFrame(ToFrame(t)) = t
<1> DEFINE h == t.hour      s == t.second    f == t.frame
           m == t.minute    q == m \div 10   r == (m % 10)
<1>1. /\ t = [hour |-> h, minute |-> m, second |-> s, frame |-> f]
      /\ h \in 0 .. 23 /\ m \in 0 .. 59 /\ s \in 0 .. 59 /\ f \in Nat /\ f < rate.max
      /\ q \in 0 .. 5 /\ r \in 0 .. 9 /\ m = q * 10 + r
      /\ (r # 0 /\ s = 0 => f >= Dropped)
  BY Fields
<1> DEFINE S == Units.second   D == Units.correction   M == Units.minute   T == Units.ten
           H == Units.hour     n == ToFrame(t)
           all == M + D        inMinute == s * S + f     inTen == r * M + inMinute
           inHour == q * T + inTen
<1>2. /\ S \in Nat /\ D \in Nat /\ M \in Nat /\ T \in Nat /\ H \in Nat
      /\ S = rate.max /\ D = Dropped /\ D < S
      /\ M = S * 60 - D /\ T = M * 10 + D /\ H = T * 6 /\ Units.day = H * 24
  BY RateUnits
<1>3. n = h * H + inHour
  <2>1. n = h * H + q * T + r * M + s * S + f
    BY DEF ToFrame
  <2> HIDE DEF h, m, s, f, q, r, S, D, M, T, H, n
  <2>2. h \in Nat /\ q \in Nat /\ r \in Nat /\ s \in Nat
    BY <1>1
  <2>3. h * H \in Nat /\ q * T \in Nat /\ r * M \in Nat /\ s * S \in Nat
    BY <1>2, <2>2, Times
  <2> QED BY <1>1, <2>1, <2>3
<1>4. n \in 0 .. Units.day - 1
  BY InDay
<1> HIDE DEF h, m, s, f, q, r, S, D, M, T, H, n
<1>5. inMinute \in 0 .. all - 1 /\ (r # 0 => inMinute >= D)
  <2>1. s * S \in Nat /\ s * S <= 59 * S /\ (s >= 1 => s * S >= 1 * S)
    BY <1>1, <1>2, Times
  <2> QED BY <1>1, <1>2, <2>1
<1> HIDE DEF inMinute
<1>6. inTen \in 0 .. T - 1
  <2>1. r * M \in Nat /\ r * M <= 9 * M
    BY <1>1, <1>2, Times
  <2> QED BY <1>2, <1>5, <2>1
<1>7. inHour \in 0 .. H - 1
  <2>2. q \in Nat /\ q <= 5
    BY <1>1
  <2>1. q * T \in Nat /\ q * T <= 5 * T
    BY <1>2, <2>2, Times
  <2> HIDE DEF inTen
  <2> QED BY <1>2, <1>6, <2>1
<1>8. n % Units.day = n /\ n \div H = h /\ n % H = inHour
  <2>1. H \in Nat \ {0} /\ h \in Nat
    BY <1>1, <1>2, <1>7
  <2> HIDE DEF inHour
  <2>2. n \div H = h /\ n % H = inHour
    BY <1>3, <1>7, <2>1, Division
  <2>3. n % Units.day = n
    BY <1>2, <1>4
  <2> QED BY <2>2, <2>3
<1>9. inHour \div T = q /\ inHour % T = inTen
  <2>1. T \in Nat \ {0} /\ q \in Nat
    BY <1>1, <1>2, <1>6
  <2> HIDE DEF inTen
  <2> QED BY <1>6, <2>1, Division
<1> HIDE DEF inHour
<1>10. WithDropped(inTen) = r * all + inMinute
  <2> DEFINE minutes == inTen \div M
             padded == inTen + minutes * D
  <2>1. WithDropped(inTen) = IF minutes > 0 /\ padded % all < D THEN padded - D ELSE padded
    BY DEF WithDropped, M, D
  <2>2. /\ r \in Nat /\ r \in Int /\ r + 1 \in Int /\ all = S * 60 /\ M \in Nat \ {0} /\ all \in Nat \ {0} /\ M + D = all /\ D < M
        /\ r * all = r * M + r * D /\ (r + 1) * M = r * M + M /\ (r + 1) * D = r * D + D
        /\ (r + 1) * all = r * all + all /\ r * M \in Nat /\ r * D \in Nat /\ r + 1 \in Nat
    BY <1>1, <1>2
  <2>3. CASE inMinute < M
    <3>1. minutes = r
      BY <1>5, <2>2, <2>3, Division
    <3>2. padded = r * all + inMinute
      <4> DEFINE rM == r * M   rD == r * D   rAll == r * all   moved == minutes * D
      <4>1. moved = rD
        BY <3>1
      <4>2. rAll = rM + rD /\ rM \in Nat /\ rD \in Nat
        BY <2>2
      <4>3. inTen = rM + inMinute /\ padded = inTen + moved
        OBVIOUS
      <4> HIDE DEF rM, rD, rAll, moved, inTen, padded
      <4>4. padded = rAll + inMinute
        BY <1>5, <4>1, <4>2, <4>3
      <4> QED BY <4>4 DEF rAll
    <3> HIDE DEF all, minutes, inTen
    <3>3. padded % all = inMinute
      <4> HIDE DEF padded
      <4> QED BY <1>5, <2>2, <3>2, Division
    <3>4. ~(minutes > 0 /\ padded % all < D)
      BY <1>2, <1>5, <2>2, <3>1, <3>3
    <3> QED BY <2>1, <3>2, <3>4
  <2>4. CASE inMinute >= M
    <3> DEFINE late == inMinute - M
    <3>1. late \in 0 .. D - 1 /\ late \in 0 .. M - 1 /\ late \in 0 .. all - 1
      BY <1>2, <1>5, <2>2, <2>4
    <3>2. inTen = (r + 1) * M + late
      BY <1>2, <1>5, <2>2
    <3> HIDE DEF late, inTen
    <3>3. minutes = r + 1
      BY <2>2, <3>1, <3>2, Division
    <3>4. padded = (r + 1) * all + late
      <4> DEFINE rM == r * M   rD == r * D   rAll == r * all
                 moved == minutes * D   next == (r + 1) * M
      <4>1. moved = rD + D
        BY <2>2, <3>3
      <4>2. /\ rAll = rM + rD /\ rM \in Nat /\ rD \in Nat /\ next = rM + M
            /\ (r + 1) * all = rAll + (M + D)
        BY <2>2
      <4>3. inTen = next + late /\ padded = inTen + moved
        BY <3>2
      <4> HIDE DEF rM, rD, rAll, moved, next, padded
      <4>4. padded = (rAll + (M + D)) + late
        BY <1>2, <3>1, <4>1, <4>2, <4>3
      <4> QED BY <4>2, <4>4
    <3> HIDE DEF minutes, all
    <3>5. padded % all = late
      <4> HIDE DEF padded
      <4> QED BY <2>2, <3>1, <3>4, Division
    <3>6. minutes > 0 /\ padded % all < D
      BY <1>2, <2>2, <3>1, <3>3, <3>5
    <3>7. padded - D = r * all + inMinute
      BY <1>2, <1>5, <2>2, <3>4 DEF late
    <3> QED BY <2>1, <3>6, <3>7
  <2> QED BY <1>2, <1>5, <2>3, <2>4
<1>11. all = S * 60 /\ all \in Nat \ {0} /\ S \in Nat \ {0} /\ r \in Nat /\ s \in Nat /\ f \in 0 .. S - 1
  BY <1>1, <1>2
<1>12. (r * all + inMinute) \div all = r /\ (r * all + inMinute) % all = inMinute
  <2> HIDE DEF all
  <2> QED BY <1>5, <1>11, Division
<1>13. inMinute \div S = s /\ inMinute % S = f
  BY <1>11, Division DEF inMinute
<1>14. FromFrame(n) = [hour |-> h, minute |-> q * 10 + r, second |-> s, frame |-> f]
  <2> DEFINE padded == WithDropped(inTen)
  <2>1. FromFrame(n) = [hour |-> (n % Units.day) \div H,
                        minute |-> ((n % H) \div T) * 10 + WithDropped((n % H) % T) \div all,
                        second |-> (WithDropped((n % H) % T) % all) \div S,
                        frame |-> (WithDropped((n % H) % T) % all) % S]
    BY DEF FromFrame, H, T, S, M, D
  <2> HIDE DEF all, inTen
  <2> QED BY <1>8, <1>9, <1>10, <1>12, <1>13, <2>1
<1> QED BY <1>1, <1>14 DEF n

-----------------------------------------------------------------------------
(* The theorems.                                                           *)

LEMMA InitInvariant == Init => IInv
<1> SUFFICES ASSUME Init PROVE IInv
  OBVIOUS
<1>1. rate \in Rates /\ Valid(tc) /\ was = tc /\ call = "none" /\ counted = 0
  BY DEF Init
<1> QED BY <1>1 DEF IInv, IncreaseCounts, DecreaseCounts

(* The day is a circle: a step round it is a step of the count.            *)
LEMMA Circle ==
  ASSUME NEW day \in Nat \ {0}, NEW a \in Int
  PROVE  /\ (a + 1) % day = IF (a % day) + 1 = day THEN 0 ELSE (a % day) + 1
         /\ (a - 1) % day = IF (a % day) = 0 THEN day - 1 ELSE (a % day) - 1
<1> DEFINE x == a % day
<1>1. PICK k \in Int : a = k * day + x /\ x \in 0 .. day - 1
  <2>1. a \div day \in Int /\ x \in 0 .. day - 1
    OBVIOUS
  <2>2. a = day * (a \div day) + (a % day)
    OBVIOUS
  <2>3. day * (a \div day) = (a \div day) * day
    BY <2>1
  <2> QED BY <2>1, <2>2, <2>3
<1> HIDE DEF x
<1>2. /\ (k + 1) * day = k * day + day /\ (k - 1) * day = k * day - day /\ k * day \in Int
      /\ k + 1 \in Int /\ k - 1 \in Int
  OBVIOUS
<1> DEFINE turns == k * day
<1>3. a + 1 = k * day + (x + 1) /\ a + 1 = (k + 1) * day + (x + 1 - day)
      /\ a - 1 = k * day + (x - 1) /\ a - 1 = (k - 1) * day + (x - 1 + day)
  <2>1. /\ (k + 1) * day = turns + day /\ (k - 1) * day = turns - day /\ turns \in Int /\ a = turns + x
    BY <1>1, <1>2
  <2> HIDE DEF turns
  <2>2. a + 1 = turns + (x + 1) /\ a + 1 = (turns + day) + (x + 1 - day)
        /\ a - 1 = turns + (x - 1) /\ a - 1 = (turns - day) + (x - 1 + day)
    BY <1>1, <2>1
  <2> QED BY <2>1, <2>2 DEF turns
<1>4. (a + 1) % day = IF x + 1 = day THEN 0 ELSE x + 1
  <2>1. CASE x + 1 = day
    BY <1>1, <1>2, <1>3, <2>1, Division
  <2>2. CASE x + 1 # day
    <3>1. x + 1 \in 0 .. day - 1
      BY <1>1, <2>2
    <3> QED BY <1>1, <1>3, <2>2, <3>1, Division
  <2> QED BY <2>1, <2>2
<1>5. (a - 1) % day = IF x = 0 THEN day - 1 ELSE x - 1
  <2>1. CASE x = 0
    <3>1. x - 1 + day \in 0 .. day - 1 /\ x - 1 + day = day - 1
      BY <2>1
    <3> QED BY <1>2, <1>3, <2>1, <3>1, Division
  <2>2. CASE x # 0
    <3>1. x - 1 \in 0 .. day - 1
      BY <1>1, <2>2
    <3> QED BY <1>3, <2>2, <3>1, Division
  <2> QED BY <2>1, <2>2
<1> QED BY <1>4, <1>5 DEF x

LEMMA NextInvariant == IInv /\ [Next]_vars => IInv'
<1> SUFFICES ASSUME IInv, [Next]_vars PROVE IInv'
  OBVIOUS
<1> DEFINE day == Units.day
<1>1. rate \in KnownRates /\ rate \in Rates
  BY TimecodeAssumption DEF IInv
<1>2. Valid(tc) /\ Valid(was) /\ counted \in Nat
  BY DEF IInv
<1>3. day \in Nat \ {0} /\ ToFrame(tc) \in 0 .. day - 1 /\ ToFrame(was) \in 0 .. day - 1
  <2>1. ToFrame(tc) \in 0 .. day - 1
    BY <1>1, <1>2, InDay
  <2>2. ToFrame(was) \in 0 .. day - 1
    BY <1>1, <1>2, InDay
  <2>3. day \in Nat \ {0}
    BY <1>1, RateUnits
  <2> QED BY <2>1, <2>2, <2>3
<1>4. CASE Next /\ Increase
  <2>1. rate' = rate /\ was' = was /\ tc' = Increased(tc) /\ counted' = counted + 1
        /\ call' = "increase" /\ call \in {"none", "increase"}
    BY <1>4 DEF Next, Increase
  <2>2. Valid(tc')
    BY <1>1, <1>2, <2>1, IncreasedCounts
  <2>3. ToFrame(tc) = (ToFrame(was) + counted) % day
    BY <1>3, <2>1 DEF IInv, IncreaseCounts
  <2>4. ToFrame(tc') = (ToFrame(was) + counted') % day
    <3>1. ToFrame(tc') = ToFrame(tc) + 1 \/ (ToFrame(tc') = 0 /\ ToFrame(tc) + 1 = day)
      BY <1>1, <1>2, <2>1, IncreasedCounts
    <3>2. ToFrame(tc') \in 0 .. day - 1
      BY <1>1, <2>2, InDay
    <3> DEFINE a == ToFrame(was) + counted
    <3>3. a \in Int /\ ToFrame(was) + counted' = a + 1 /\ ToFrame(tc) = a % day
      BY <1>2, <1>3, <2>1, <2>3
    <3> HIDE DEF a, day
    <3>4. (a + 1) % day = IF ToFrame(tc) + 1 = day THEN 0 ELSE ToFrame(tc) + 1
      <4>1. (a + 1) % day = IF (a % day) + 1 = day THEN 0 ELSE (a % day) + 1
        BY <1>3, <3>3, Circle
      <4> QED BY <3>3, <4>1
    <3> QED BY <1>3, <3>1, <3>2, <3>3, <3>4
  <2>5. Valid(tc)' /\ Valid(was)' /\ (ToFrame(tc) = (ToFrame(was) + counted) % day)'
    BY <1>2, <2>1, <2>2, <2>4 DEF Valid, ToFrame, Units, Dropped
  <2> QED BY <1>1, <1>2, <2>1, <2>5 DEF IInv, IncreaseCounts, DecreaseCounts
<1>5. CASE Next /\ Decrease
  <2> DEFINE n == 1 + IF SkipsBack(tc) THEN Dropped ELSE 0
  <2>1. rate' = rate /\ was' = was /\ tc' = Decreased(tc) /\ counted' = counted + 1
        /\ call' = "decrease" /\ call \in {"none", "decrease"}
    BY <1>5 DEF Next, Decrease
  <2>2. n \in Nat /\ Valid(tc')
        /\ (ToFrame(tc') = ToFrame(tc) - n \/ (ToFrame(tc') = day - 1 /\ ToFrame(tc) = 0 /\ n = 1))
    BY <1>1, <1>2, <2>1, DecreasedCounts
  <2>3. ~skipped' => ~skipped /\ ~SkipsBack(tc)
    BY <1>5, Zenon DEF Next, Decrease
  <2>4. ASSUME ~skipped' PROVE ToFrame(tc') = (ToFrame(was) - counted') % day
    <3>1. ToFrame(tc') \in 0 .. day - 1
      BY <1>1, <2>2, InDay
    <3>2. n = 1 /\ ToFrame(tc) = (ToFrame(was) - counted) % day
      BY <1>3, <2>1, <2>3, <2>4 DEF IInv, DecreaseCounts
    <3> DEFINE a == ToFrame(was) - counted
    <3>3. a \in Int /\ ToFrame(was) - counted' = a - 1 /\ ToFrame(tc) = a % day
      BY <1>2, <1>3, <2>1, <3>2
    <3> HIDE DEF a, day, n
    <3>4. (a - 1) % day = IF ToFrame(tc) = 0 THEN day - 1 ELSE ToFrame(tc) - 1
      <4>1. (a - 1) % day = IF (a % day) = 0 THEN day - 1 ELSE (a % day) - 1
        BY <1>3, <3>3, Circle
      <4> QED BY <3>3, <4>1
    <3> QED BY <1>3, <2>2, <3>1, <3>2, <3>3, <3>4
  <2>5. /\ Valid(tc)' /\ Valid(was)'
        /\ (~skipped => ToFrame(tc) = (ToFrame(was) - counted) % day)'
    BY <1>2, <2>1, <2>2, <2>4 DEF Valid, ToFrame, Units, Dropped
  <2>6. counted' \in Nat
    BY <1>2, <2>1
  <2> QED BY <1>1, <2>1, <2>5, <2>6 DEF IInv, IncreaseCounts, DecreaseCounts
<1>6. CASE UNCHANGED vars
  BY <1>6 DEF IInv, IncreaseCounts, DecreaseCounts, Valid, ToFrame, Units, Dropped, vars
<1> QED BY <1>4, <1>5, <1>6 DEF Next

(* The timecode always exists, and it agrees with the number of calls      *)
(* since the counting began unless decrease has skipped frames: for all    *)
(* timecodes and all seven rates.                                          *)
THEOREM Invariance == Spec => []IInv
<1> QED BY InitInvariant, NextInvariant, PTL DEF Spec

(* Any number of calls of increase leads, through timecodes that exist, to *)
(* the timecode so many frames later in the sense of ControlerTimeCode.    *)
THEOREM Increases == Spec => []IncreaseCounts
<1>1. IInv => IncreaseCounts
  BY DEF IInv
<1> QED BY <1>1, Invariance, PTL

(* Any number of calls of decrease leads as far back: always at the rates  *)
(* that leave out nothing, and at 29.97 and 59.94 as long as decrease has  *)
(* not taken a second inside a minute for its start.                       *)
THEOREM Decreases == Spec => []DecreaseCounts
<1>1. IInv => DecreaseCounts
  BY DEF IInv
<1> QED BY <1>1, Invariance, PTL

(* compare orders any two timecodes as the numbers of their frames do.     *)
THEOREM ComparesAsCounted == Spec => []CompareOrders
<1>1. IInv => CompareOrders
  BY Ordered, TimecodeAssumption DEF IInv, CompareOrders
<1> QED BY <1>1, Invariance, PTL

(* FromFrame is the inverse of ToFrame at every timecode that exists.      *)
THEOREM FoundBack == Spec => []FromFrameInverse
<1>1. IInv => FromFrameInverse
  BY FromFrameBack, TimecodeAssumption DEF IInv, FromFrameInverse
<1> QED BY <1>1, Invariance, PTL
=============================================================================
