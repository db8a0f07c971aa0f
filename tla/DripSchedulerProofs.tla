------------------------- MODULE DripSchedulerProofs -------------------------
(***************************************************************************)
(* Proofs about the watering schedule, for any number of drips, settings,  *)
(* lengths of the hour, the day and the week, and passes of any length     *)
(* below an hour, with messages and restarts at any moment.                *)
(***************************************************************************)
EXTENDS DripScheduler, ArithmeticLemmas

-----------------------------------------------------------------------------
(* The time shown                                                          *)

LEMMA Lengths ==
  /\ MinPerHour \in Nat \ {0} /\ HoursPerDay \in Nat /\ HoursPerDay >= 2
  /\ OneDay \in Nat \ {0} /\ OneDay = MinPerHour * HoursPerDay
  /\ OneDay >= 2 * MinPerHour
<1>1. MinPerHour \in Nat \ {0} /\ HoursPerDay \in Nat /\ HoursPerDay >= 2
  BY SchedulerAssumption
<1>2. MinPerHour * HoursPerDay \in Nat /\ MinPerHour * HoursPerDay >= MinPerHour * 2
  <2>1. PICK k \in Nat : HoursPerDay = 2 + k
    <3>1. HoursPerDay - 2 \in Nat /\ HoursPerDay = 2 + (HoursPerDay - 2)
      BY <1>1
    <3> QED
      BY <3>1
  <2>2. MinPerHour * (2 + k) = MinPerHour * 2 + MinPerHour * k
    BY <1>1, MulAdd
  <2>3. MinPerHour * k \in Nat
    BY <1>1
  <2> QED
    BY <1>1, <2>1, <2>2, <2>3
<1> QED
  BY <1>1, <1>2 DEF OneDay

\* Minute m of hour h, as a quotient and a remainder.
LEMMA HourAndMinute ==
  ASSUME NEW h \in Int, NEW m \in 0 .. MinPerHour - 1
  PROVE  /\ (MinPerHour * h + m) \div MinPerHour = h
         /\ (MinPerHour * h + m) % MinPerHour = m
<1> DEFINE x == MinPerHour * h + m
           q == x \div MinPerHour
<1>1. MinPerHour \in Nat \ {0} /\ x \in Int
  BY Lengths
<1>2. x % MinPerHour = m
  <2> HIDE DEF x
  <2>1. x = MinPerHour * h + m
    BY DEF x
  <2> QED
    BY <1>1, <2>1, ModIs
<1>3. q \in Int /\ x = MinPerHour * q + (x % MinPerHour)
  <2> HIDE DEF x
  <2> QED
    BY <1>1, DivMod
<1> HIDE DEF q
<1>4. MinPerHour * q = MinPerHour * h /\ MinPerHour * q \in Int /\ MinPerHour * h \in Int
  BY <1>1, <1>2, <1>3
<1>5. q = h
  BY <1>1, <1>3, <1>4
<1> QED
  BY <1>2, <1>5 DEF q

\* An hour of the day and a minute make a time of the day.
LEMMA HourInDay ==
  ASSUME NEW h \in 0 .. HoursPerDay - 1, NEW m \in 0 .. MinPerHour - 1
  PROVE  MinPerHour * h + m \in 0 .. OneDay - 1
<1>1. MinPerHour \in Nat \ {0} /\ HoursPerDay \in Nat /\ OneDay = MinPerHour * HoursPerDay
  BY Lengths
<1>2. PICK k \in Nat : HoursPerDay = (h + 1) + k
  <2>1. HoursPerDay - (h + 1) \in Nat /\ HoursPerDay = (h + 1) + (HoursPerDay - (h + 1))
    BY <1>1
  <2> QED
    BY <2>1
<1>3. OneDay = MinPerHour * (h + 1) + MinPerHour * k
  BY <1>1, <1>2, MulAdd
<1>4. MinPerHour * (h + 1) = MinPerHour * h + MinPerHour * 1
  BY <1>1, MulAdd
<1>5. MinPerHour * h \in Nat /\ MinPerHour * k \in Nat /\ MinPerHour * 1 = MinPerHour
  BY <1>1
<1> QED
  BY <1>1, <1>3, <1>4, <1>5

\* Every time of the day has an hour and a minute.
LEMMA TimeOfDay ==
  ASSUME NEW t \in 0 .. OneDay - 1
  PROVE  \E h \in 0 .. HoursPerDay - 1, m \in 0 .. MinPerHour - 1 :
           t = MinPerHour * h + m /\ t % MinPerHour = m
<1> DEFINE h == t \div MinPerHour
           m == t % MinPerHour
<1>1. MinPerHour \in Nat \ {0} /\ HoursPerDay \in Nat /\ OneDay = MinPerHour * HoursPerDay
  BY Lengths
<1>2. t \in Int /\ t >= 0 /\ t < MinPerHour * HoursPerDay
  BY <1>1, Lengths
<1>3. h \in Int /\ m \in 0 .. MinPerHour - 1 /\ t = MinPerHour * h + m
  BY <1>1, <1>2, DivMod
<1>4. h >= 0
  BY <1>1, <1>2
<1> HIDE DEF h
<1>5. h < HoursPerDay
  <2> SUFFICES ASSUME h >= HoursPerDay PROVE FALSE
    BY <1>1, <1>3
  <2>1. PICK k \in Nat : h = HoursPerDay + k
    <3>1. h - HoursPerDay \in Nat /\ h = HoursPerDay + (h - HoursPerDay)
      BY <1>1, <1>3
    <3> QED
      BY <3>1
  <2>2. MinPerHour * h = MinPerHour * HoursPerDay + MinPerHour * k
    BY <1>1, <2>1, MulAdd
  <2>3. MinPerHour * k \in Nat /\ MinPerHour * HoursPerDay \in Nat
    BY <1>1
  <2> HIDE DEF m
  <2>4. m >= 0 /\ m \in Int
    BY <1>1, <1>3
  <2> QED
    BY <1>2, <1>3, <2>2, <2>3, <2>4
<1>6. h \in 0 .. HoursPerDay - 1
  BY <1>1, <1>3, <1>4, <1>5
<1> QED
  BY <1>3, <1>6

\* How far the time shown is behind: an hour, from the first full hour after
\* an SNTP time until an hour has been counted.
LagAt(t, e) == IF e < MinPerHour /\ t % MinPerHour < e THEN MinPerHour ELSE 0

\* The hour of a time.
LEMMA HourOf ==
  ASSUME NEW x, NEW h \in Int, NEW m \in 0 .. MinPerHour - 1, x = MinPerHour * h + m
  PROVE  x \div MinPerHour = h
BY HourAndMinute

LEMMA ShownIs ==
  ASSUME NEW t \in 0 .. OneDay - 1, NEW e \in 0 .. MinPerHour
  PROVE  ShownAt(t, e) = (t - LagAt(t, e)) % OneDay
<1>1. /\ MinPerHour \in Nat \ {0} /\ HoursPerDay \in Nat \ {0} /\ HoursPerDay >= 2
      /\ OneDay \in Nat \ {0} /\ OneDay = MinPerHour * HoursPerDay
      /\ OneDay >= 2 * MinPerHour /\ t \in Int /\ e \in Int
  BY Lengths
<1>2. PICK h \in 0 .. HoursPerDay - 1, m \in 0 .. MinPerHour - 1 :
        t = MinPerHour * h + m /\ t % MinPerHour = m
  BY TimeOfDay
<1>3. h \in Int /\ m \in Int /\ 0 \in Int /\ 1 \in Int
  BY <1>1
<1>4. /\ MinPerHour * (h - 1) = MinPerHour * h - MinPerHour
      /\ MinPerHour * (HoursPerDay - 1) = OneDay - MinPerHour
      /\ MinPerHour * h \in Int
  BY <1>1, <1>3
<1>5. t % OneDay = t
  BY <1>1, ModSame
<1>6. CASE e = MinPerHour
  <2>1. e \div MinPerHour = 1
    <3>1. 0 \in 0 .. MinPerHour - 1 /\ e = MinPerHour * 1 + 0
      BY <1>1, <1>6
    <3> QED
      BY <1>3, <3>1, HourAndMinute
  <2>2. LagAt(t, e) = 0
    BY <1>1, <1>6 DEF LagAt
  <2>3. CASE h >= 1
    <3>1. t - e \in 0 .. OneDay - 1 /\ t - e = MinPerHour * (h - 1) + m
      BY <1>1, <1>2, <1>3, <1>4, <1>6, <2>3, HourInDay
    <3>2. (t - e) % OneDay = MinPerHour * (h - 1) + m
      BY <1>1, <3>1, ModSame
    <3>3. h - 1 \in Int /\ (h - 1) + 1 = h /\ h % HoursPerDay = h
      BY <1>1, <1>3, ModSame
    <3>4. ((h - 1) + 1) % HoursPerDay = h
      BY <3>3
    <3>5. ((t - e) % OneDay) \div MinPerHour = h - 1
      BY <3>2, <3>3, HourOf
    <3>6. ShownAt(t, e) = MinPerHour * h + m
      BY <1>2, <2>1, <3>4, <3>5, Zenon DEF ShownAt
    <3> QED
      BY <1>1, <1>2, <1>5, <2>2, <3>6
  <2>4. CASE h = 0
    <3> DEFINE g == HoursPerDay - 1
    <3>1. MinPerHour * g + m \in 0 .. OneDay - 1 /\ g \in Int /\ g \in 0 .. HoursPerDay - 1
      BY <1>1, HourInDay
    <3>2. t - e = OneDay * (-1) + (MinPerHour * g + m)
      BY <1>1, <1>2, <1>3, <1>4, <1>6, <2>4
    <3>3. (t - e) % OneDay = MinPerHour * g + m
      <4> DEFINE x == t - e
                 y == MinPerHour * g + m
      <4>1. x \in Int /\ y \in 0 .. OneDay - 1 /\ x = OneDay * (-1) + y /\ -1 \in Int
        BY <1>1, <3>1, <3>2
      <4> HIDE DEF x, y
      <4>2. x % OneDay = y
        BY <1>1, <4>1, ModIs
      <4> QED
        BY <4>2 DEF x, y
    <3>4. g + 1 = HoursPerDay * 1 + 0 /\ 0 \in 0 .. HoursPerDay - 1 /\ g + 1 \in Int
      BY <1>1
    <3>5. (g + 1) % HoursPerDay = 0
      BY <1>1, <1>3, <3>4, ModIs
    <3> HIDE DEF g
    <3>6. (g + 1) % HoursPerDay = h
      BY <2>4, <3>5
    <3>7. ((t - e) % OneDay) \div MinPerHour = g
      BY <3>1, <3>3, HourOf
    <3>8. ShownAt(t, e) = MinPerHour * h + m
      BY <1>2, <2>1, <3>6, <3>7, Zenon DEF ShownAt
    <3> QED
      BY <1>1, <1>2, <1>5, <2>2, <3>8
  <2> QED
    BY <1>1, <2>3, <2>4
<1>7. CASE e < MinPerHour
  <2>1. e \div MinPerHour = 0
    <3>1. e \in 0 .. MinPerHour - 1 /\ e = MinPerHour * 0 + e
      BY <1>1, <1>7
    <3> QED
      BY <1>3, <3>1, HourAndMinute
  <2>2. CASE m >= e
    <3>1. LagAt(t, e) = 0
      BY <1>1, <1>2, <1>3, <2>2 DEF LagAt
    <3>2. m - e \in 0 .. MinPerHour - 1 /\ t - e = MinPerHour * h + (m - e)
          /\ t - e \in 0 .. OneDay - 1
      BY <1>1, <1>2, <1>3, <1>4, <2>2
    <3>3. (t - e) % OneDay = MinPerHour * h + (m - e)
      BY <1>1, <3>2, ModSame
    <3>4. h + 0 = h /\ h % HoursPerDay = h
      BY <1>1, <1>3, ModSame
    <3>5. (h + 0) % HoursPerDay = h
      BY <3>4
    <3>6. ShownAt(t, e) = MinPerHour * h + m
      <4> DEFINE n == m - e
      <4>1. n \in 0 .. MinPerHour - 1 /\ (t - e) % OneDay = MinPerHour * h + n
        BY <3>2, <3>3
      <4> HIDE DEF n
      <4>2. ((t - e) % OneDay) \div MinPerHour = h
        BY <1>3, <4>1, HourOf
      <4> QED
        BY <1>2, <2>1, <3>5, <4>2, Zenon DEF ShownAt
    <3> QED
      BY <1>1, <1>2, <1>5, <3>1, <3>6
  <2>3. CASE m < e
    <3> DEFINE n == (m - e) + MinPerHour
    <3>1. LagAt(t, e) = MinPerHour
      BY <1>1, <1>2, <1>3, <1>7, <2>3 DEF LagAt
    <3>2. n \in 0 .. MinPerHour - 1
      BY <1>1, <1>3, <1>7, <2>3
    <3>3. CASE h >= 1
      <4> DEFINE g == h - 1
      <4>1. g \in Int /\ g \in 0 .. HoursPerDay - 1 /\ t - e = MinPerHour * g + n
        BY <1>1, <1>2, <1>3, <1>4, <3>3
      <4>2. /\ MinPerHour * g + n \in 0 .. OneDay - 1
            /\ MinPerHour * g + m \in 0 .. OneDay - 1
        BY <3>2, <4>1, HourInDay
      <4>3. (t - e) % OneDay = MinPerHour * g + n
        BY <1>1, <4>1, <4>2, ModSame
      <4>4. (g + 0) % HoursPerDay = g
        <5>1. g + 0 = g /\ g % HoursPerDay = g
          BY <1>1, <4>1, ModSame
        <5> QED
          BY <5>1
      <4>5. t - LagAt(t, e) = MinPerHour * g + m
        BY <1>1, <1>2, <1>3, <1>4, <3>1
      <4>6. (MinPerHour * g + m) % OneDay = MinPerHour * g + m
        BY <1>1, <4>2, ModSame
      <4> HIDE DEF g, n
      <4>7. ((t - e) % OneDay) \div MinPerHour = g
        BY <3>2, <4>1, <4>3, HourOf
      <4>8. ShownAt(t, e) = MinPerHour * g + m
        BY <1>2, <2>1, <4>4, <4>7, Zenon DEF ShownAt
      <4> QED
        BY <4>5, <4>6, <4>8
    <3>4. CASE h = 0
      <4> DEFINE g == HoursPerDay - 1
      <4>1. g \in Int /\ g \in 0 .. HoursPerDay - 1
        BY <1>1
      <4>2. /\ MinPerHour * g + n \in 0 .. OneDay - 1
            /\ MinPerHour * g + m \in 0 .. OneDay - 1
        BY <3>2, <4>1, HourInDay
      <4>3. /\ t - e = OneDay * (-1) + (MinPerHour * g + n)
            /\ t - MinPerHour = OneDay * (-1) + (MinPerHour * g + m)
        BY <1>1, <1>2, <1>3, <1>4, <3>4
      <4>4. (t - e) % OneDay = MinPerHour * g + n
        <5> DEFINE x == t - e
                   y == MinPerHour * g + n
        <5>1. x \in Int /\ y \in 0 .. OneDay - 1 /\ x = OneDay * (-1) + y /\ -1 \in Int
          BY <1>1, <4>2, <4>3
        <5> HIDE DEF x, y
        <5>2. x % OneDay = y
          BY <1>1, <5>1, ModIs
        <5> QED
          BY <5>2 DEF x, y
      <4>5. (t - MinPerHour) % OneDay = MinPerHour * g + m
        <5> DEFINE x == t - MinPerHour
                   y == MinPerHour * g + m
        <5>1. x \in Int /\ y \in 0 .. OneDay - 1 /\ x = OneDay * (-1) + y /\ -1 \in Int
          BY <1>1, <4>2, <4>3
        <5> HIDE DEF x, y
        <5>2. x % OneDay = y
          BY <1>1, <5>1, ModIs
        <5> QED
          BY <5>2 DEF x, y
      <4>6. (g + 0) % HoursPerDay = g
        <5>1. g + 0 = g /\ g % HoursPerDay = g
          BY <1>1, <4>1, ModSame
        <5> QED
          BY <5>1
      <4> HIDE DEF g, n
      <4>7. ((t - e) % OneDay) \div MinPerHour = g
        BY <3>2, <4>1, <4>4, HourOf
      <4>8. ShownAt(t, e) = MinPerHour * g + m
        BY <1>2, <2>1, <4>6, <4>7, Zenon DEF ShownAt
      <4> QED
        BY <3>1, <4>5, <4>8
    <3> QED
      BY <1>1, <3>3, <3>4
  <2> QED
    BY <1>1, <1>3, <2>2, <2>3
<1> QED
  BY <1>1, <1>6, <1>7

-----------------------------------------------------------------------------
(* Types                                                                   *)

LEMMA ShownType ==
  ASSUME NEW t \in Int, NEW e \in 0 .. MinPerHour
  PROVE  ShownAt(t, e) \in 0 .. OneDay - 1
<1> DEFINE x == (t - e) % OneDay
           g == (x \div MinPerHour) + (e \div MinPerHour)
           h == g % HoursPerDay
           m == t % MinPerHour
<1>1. /\ MinPerHour \in Nat \ {0} /\ HoursPerDay \in Nat \ {0}
      /\ OneDay \in Nat \ {0} /\ e \in Int /\ t - e \in Int
  BY Lengths
<1>2. x \in Int
  BY <1>1, DivMod
<1>3. g \in Int
  <2> HIDE DEF x
  <2> QED
    BY <1>1, <1>2, DivMod
<1>4. h \in 0 .. HoursPerDay - 1 /\ m \in 0 .. MinPerHour - 1
  <2> HIDE DEF g
  <2> QED
    BY <1>1, <1>3, DivMod
<1>5. ShownAt(t, e) = MinPerHour * h + m
  BY DEF ShownAt
<1> HIDE DEF h, m
<1> QED
  BY <1>4, <1>5, HourInDay

LEMMA OffTimeType ==
  ASSUME NEW d \in Drip, info[d] \in Setting
  PROVE  /\ info[d].start_time \in Nat /\ info[d].duration \in Nat
         /\ OffTime(d) \in 0 .. OneDay - 1
<1>1. info[d].start_time \in Nat /\ info[d].duration \in Nat
  BY SchedulerAssumption DEF Setting
<1>2. OneDay \in Nat \ {0} /\ info[d].start_time + info[d].duration \in Int
  BY <1>1, Lengths
<1>3. (info[d].start_time + info[d].duration) % OneDay \in 0 .. OneDay - 1
  BY <1>2, DivMod
<1> QED
  BY <1>1, <1>3 DEF OffTime

LEMMA ZeroInRange ==
  /\ 0 \in 0 .. OneDay - 1 /\ 0 \in -(OneDay - 1) .. OneDay - 1 /\ 0 \in 0 .. MinPerHour /\ 0 \in 0 .. WeekDays - 1
  /\ 0 \in Drip /\ 0 \in -1 .. CapWet /\ -1 \in -1 .. CapWet
  /\ MinPerHour \in Nat /\ CapWet \in Nat /\ OneDay \in Nat \ {0}
  /\ WeekDays \in Nat \ {0} /\ DRIP_SYS \in Nat \ {0}
BY SchedulerAssumption, Lengths DEF Drip

LEMMA JumpType ==
  ASSUME NEW j \in Jump
  PROVE  j \in Nat /\ j < MinPerHour
BY SchedulerAssumption

LEMMA EndOfCallType ==
  ASSUME TypeOK, EndOfCall
  PROVE  /\ prevTimeInMin' \in -(OneDay - 1) .. OneDay - 1 /\ pc' \in {"loop", "read", "decide"}
         /\ num' \in Drip /\ offTimeInMin' \in 0 .. OneDay - 1
<1>1. currTimeInMin \in -(OneDay - 1) .. OneDay - 1
  <2>1. now \in Int /\ elapsed \in 0 .. MinPerHour
    BY Lengths DEF TypeOK
  <2>2. ShownAt(now, elapsed) \in 0 .. OneDay - 1
    BY <2>1, ShownType
  <2>3. ShownAt(now, elapsed) \in -(OneDay - 1) .. OneDay - 1
    BY <2>2, Lengths
  <2> QED
    BY <2>3 DEF TypeOK, currTimeInMin
<1> QED
  BY <1>1, ZeroInRange DEF EndOfCall

LEMMA WetLater ==
  ASSUME NEW w \in -1 .. CapWet, NEW j \in Nat
  PROVE  (IF w < 0 THEN -1 ELSE IF w + j < CapWet THEN w + j ELSE CapWet) \in -1 .. CapWet
BY ZeroInRange

LEMMA TypeStep ==
  ASSUME TypeOK, [Next]_vars
  PROVE  TypeOK'
<1> USE DEF TypeOK
<1>1. ASSUME NEW j \in Jump, Update_time(j) PROVE TypeOK'
  <2>1. j \in Nat /\ j < MinPerHour
    BY JumpType
  <2>2. now' \in 0 .. OneDay - 1
    <3>1. now + j \in Int
      BY <2>1, ZeroInRange
    <3> QED
      BY <1>1, <3>1, ZeroInRange, DivMod DEF Update_time
  <2>3. today' \in 0 .. WeekDays - 1
    <3>1. today + 1 \in Int
      BY ZeroInRange
    <3>2. (today + 1) % WeekDays \in 0 .. WeekDays - 1
      BY <3>1, ZeroInRange, DivMod
    <3> QED
      BY <1>1, <3>2 DEF Update_time
  <2>4. elapsed' \in 0 .. MinPerHour /\ day' \in 0 .. WeekDays - 1
    <3>1. elapsed + j <= MinPerHour => elapsed + j \in 0 .. MinPerHour
      BY <2>1, ZeroInRange
    <3> QED
      BY <1>1, <2>3, <3>1, ZeroInRange DEF Update_time, Resync, CountOn, MissResync
  <2>5. timeIsValid' \in BOOLEAN /\ pc' \in {"loop", "read", "decide"} /\ num' \in Drip
    BY <1>1, ZeroInRange DEF Update_time
  <2>6. wet' \in [Drip -> -1 .. CapWet]
    BY <1>1, <2>1, WetLater DEF Update_time
  <2>7. /\ info' = info /\ dripStatus' = dripStatus /\ prevTimeInMin' = prevTimeInMin
        /\ timeRollOver' = timeRollOver /\ offTimeInMin' = offTimeInMin
    BY <1>1 DEF Update_time, sched
  <2>8. overdue' \in BOOLEAN
    BY <1>1 DEF Update_time, Resync, CountOn, MissResync
  <2>9. astray' \in -(OneDay - 1) .. OneDay - 1
    <3>1. \A a \in Astray : a \in -(OneDay - 1) .. OneDay - 1
      BY SchedulerAssumption
    <3> QED
      BY <1>1, <3>1, ZeroInRange DEF Update_time, Resync, CountOn, MissResync
  <2>10. steady' \in [Drip -> BOOLEAN]
    BY <1>1 DEF Update_time
  <2> QED
    BY <2>2, <2>3, <2>4, <2>5, <2>6, <2>7, <2>8, <2>9, <2>10
<1>2. CASE ReadTimes
  <2>1. offTimeInMin' \in 0 .. OneDay - 1
    BY <1>2, OffTimeType DEF ReadTimes
  <2>2. timeRollOver' \in BOOLEAN
    BY <1>2, Zenon DEF ReadTimes, RolledOver
  <2> QED
    BY <1>2, <2>1, <2>2 DEF ReadTimes, clock
<1>3. CASE TurnOn
  <2>1. /\ dripStatus' \in [Drip -> BOOLEAN] /\ timeRollOver' \in BOOLEAN
        /\ wet' \in [Drip -> -1 .. CapWet] /\ steady' \in [Drip -> BOOLEAN]
    BY <1>3, ZeroInRange DEF TurnOn
  <2>2. EndOfCall
    BY <1>3 DEF TurnOn
  <2>3. UNCHANGED <<now, today, elapsed, day, timeIsValid, overdue, astray, info>>
    BY <1>3 DEF TurnOn, clock
  <2> QED
    BY <2>1, <2>2, <2>3, EndOfCallType
<1>4. CASE TurnOff
  <2>1. /\ dripStatus' \in [Drip -> BOOLEAN] /\ timeRollOver' \in BOOLEAN
        /\ wet' \in [Drip -> -1 .. CapWet] /\ steady' \in [Drip -> BOOLEAN]
    BY <1>4, ZeroInRange DEF TurnOff
  <2>2. EndOfCall
    BY <1>4 DEF TurnOff
  <2>3. UNCHANGED <<now, today, elapsed, day, timeIsValid, overdue, astray, info>>
    BY <1>4 DEF TurnOff, clock
  <2> QED
    BY <2>1, <2>2, <2>3, EndOfCallType
<1>5. CASE LeaveAsIs
  <2>1. EndOfCall
    BY <1>5 DEF LeaveAsIs
  <2>2. UNCHANGED <<now, today, elapsed, day, timeIsValid, overdue, astray, info, dripStatus,
                    timeRollOver, wet, steady>>
    BY <1>5 DEF LeaveAsIs, clock
  <2> QED
    BY <2>1, <2>2, EndOfCallType
<1>6. ASSUME NEW d \in Drip, Mqtt(d) PROVE TypeOK'
  <2>1. ASSUME NEW s \in Setting, Store(d, s) PROVE TypeOK'
    <3>1. info' \in [Drip -> Setting] /\ steady' \in [Drip -> BOOLEAN]
      BY <2>1 DEF Store
    <3> QED
      BY <2>1, <3>1 DEF Store, clock, sched, loop
  <2>2. info[d] \in Setting
    OBVIOUS
  <2>3. ASSUME NEW t \in Start, Control_Drip_Start_Time(d, t) PROVE TypeOK'
    <3>1. [info[d] EXCEPT !.start_time = t] \in Setting
      BY <2>2 DEF Setting
    <3> QED
      BY <2>1, <2>3, <3>1, Zenon DEF Control_Drip_Start_Time
  <2>4. ASSUME NEW t \in Duration, Control_Drip_Duration_Time(d, t) PROVE TypeOK'
    <3>1. [info[d] EXCEPT !.duration = t] \in Setting
      BY <2>2 DEF Setting
    <3> QED
      BY <2>1, <2>4, <3>1, Zenon DEF Control_Drip_Duration_Time
  <2>5. ASSUME NEW ds \in Days, Control_Drip_Days(d, ds) PROVE TypeOK'
    <3>1. [info[d] EXCEPT !.days = ds] \in Setting
      BY <2>2 DEF Setting
    <3> QED
      BY <2>1, <2>5, <3>1, Zenon DEF Control_Drip_Days
  <2>6. CASE Control_Drip(d)
    <3>1. wet' \in [Drip -> -1 .. CapWet]
      BY <2>6, ZeroInRange DEF Control_Drip
    <3> QED
      BY <2>6, <3>1 DEF Control_Drip, clock, sched, loop
  <2> QED
    BY <1>6, <2>3, <2>4, <2>5, <2>6 DEF Mqtt
<1>7. CASE Restart
  <2>1. wet' = wet /\ wet' \in [Drip -> -1 .. CapWet]
    BY <1>7 DEF Restart
  <2> QED
    BY <1>7, <2>1, ZeroInRange DEF Restart
<1>8. CASE UNCHANGED vars
  BY <1>8 DEF vars, clock, sched, loop
<1> QED
  BY <1>1, <1>2, <1>3, <1>4, <1>5, <1>6, <1>7, <1>8 DEF Next, Update_drip

LEMMA TypeInit == Init => TypeOK
BY ZeroInRange DEF Init, TypeOK

\* The variables of the schedule keep their types: whatever the clock shows
\* and whatever messages come, times stay times of the day.
THEOREM SchedulerTypes == Spec => []TypeOK
BY TypeInit, TypeStep, PTL DEF Spec

-----------------------------------------------------------------------------
(* The inductive invariant: what a call of update_drip can count on.       *)

\* The schedule runs on a valid time only, a drip it keeps on is one that it
\* has on while no resync is missed, the off time of the call in progress is the one of the settings as
\* they are, and prevTimeInMin is the time shown in this pass, from the first
\* call of the pass to the start of the next one.
Calls ==
  /\ pc # "loop" => timeIsValid
  /\ ~timeIsValid \/ overdue => \A d \in Drip : ~steady[d]
  /\ \A d \in Drip : steady[d] => dripStatus[d]
  /\ pc = "decide" /\ steady[num] => offTimeInMin = OffTime(num)
  /\ timeIsValid /\ (pc = "loop" \/ num > 0) => prevTimeInMin = currTimeInMin

\* The week day is right unless midnight has passed since the SNTP time or a
\* resync has been missed.
DayKnown == timeIsValid /\ ~overdue /\ now >= elapsed => day = today

\* The SNTP time is of the last hour of the day and its hour is still shown.
LateSync ==
  /\ elapsed < MinPerHour
  /\ ((now - elapsed) % OneDay) \div MinPerHour = HoursPerDay - 1

\* Such an SNTP time finds every drip that is due before the last hour of the
\* day off, or turns it off in the pass that takes it.
NoneOnLate ==
  \A d \in Drip :
    /\ steady[d] /\ LateSync
    /\ info[d].start_time + info[d].duration <= OneDay - MinPerHour
    => elapsed = 0 /\ pc # "loop" /\ num <= d

ShownInv == TypeOK /\ Calls /\ DayKnown /\ NoneOnLate

LEMMA CallsStep ==
  ASSUME TypeOK, Calls, [Next]_vars
  PROVE  Calls'
<1> USE DEF Calls
<1>0. TypeOK'
  BY TypeStep
<1>1. ASSUME NEW j \in Jump, Update_time(j) PROVE Calls'
  <2>1. /\ pc = "loop" /\ num' = 0 /\ dripStatus' = dripStatus
        /\ pc' = IF timeIsValid' THEN "read" ELSE "loop"
        /\ timeIsValid' \in {timeIsValid, TRUE}
    BY <1>1 DEF Update_time, sched
  <2>0. \A d \in Drip : steady'[d] => steady[d] /\ ~overdue'
    BY <1>1 DEF Update_time
  <2>2. CASE timeIsValid'
    <3>1. pc' = "read" /\ ~(num' > 0)
      BY <2>1, <2>2
    <3> QED
      BY <2>0, <2>1, <2>2, <3>1
  <2>3. CASE ~timeIsValid'
    <3>1. ~timeIsValid /\ pc' = "loop"
      BY <2>1, <2>3, Zenon DEF TypeOK
    <3>2. \A d \in Drip : ~steady'[d]
      BY <2>0, <3>1
    <3> QED
      BY <2>3, <3>1, <3>2
  <2> QED
    BY <2>2, <2>3
<1>2. CASE ReadTimes
  <2>1. /\ UNCHANGED <<now, elapsed, overdue, astray, timeIsValid, dripStatus, prevTimeInMin, num, info, steady>>
        /\ pc = "read" /\ pc' = "decide" /\ offTimeInMin' = OffTime(num)
    BY <1>2 DEF ReadTimes, clock
  <2>2. currTimeInMin' = currTimeInMin /\ OffTime(num)' = OffTime(num)
    BY <2>1 DEF currTimeInMin, OffTime
  <2> QED
    BY <2>1, <2>2
<1>3. ASSUME pc = "decide", EndOfCall, UNCHANGED <<now, elapsed, overdue, astray, timeIsValid, info>>,
             \A d \in Drip : steady'[d] => dripStatus'[d] /\ ~overdue
      PROVE  Calls'
  <2>1. currTimeInMin' = currTimeInMin /\ prevTimeInMin' = currTimeInMin
    BY <1>3 DEF currTimeInMin, EndOfCall
  <2>2. pc' # "decide"
    BY <1>3 DEF EndOfCall
  <2> QED
    BY <1>3, <2>1, <2>2
<1>4. CASE TurnOn
  <2>1. \A d \in Drip : steady'[d] => dripStatus'[d] /\ ~overdue
    BY <1>4 DEF TurnOn, TypeOK
  <2> QED
    BY <1>3, <1>4, <2>1 DEF TurnOn, clock
<1>5. CASE TurnOff
  <2>1. \A d \in Drip : steady'[d] => dripStatus'[d] /\ ~overdue
    BY <1>5 DEF TurnOff, TypeOK
  <2> QED
    BY <1>3, <1>5, <2>1 DEF TurnOff, clock
<1>6. CASE LeaveAsIs
  BY <1>3, <1>6 DEF LeaveAsIs, clock
<1>7. ASSUME NEW d \in Drip, Mqtt(d) PROVE Calls'
  <2>1. /\ UNCHANGED <<now, elapsed, overdue, astray, timeIsValid, dripStatus, prevTimeInMin, pc, num, offTimeInMin>>
        /\ \/ \A e \in Drip : ~steady'[e]
           \/ steady' = steady /\ info' = info
    BY <1>7 DEF Mqtt, Control_Drip_Start_Time, Control_Drip_Duration_Time, Control_Drip_Days,
                Store, Control_Drip, clock, sched, loop
  <2>2. currTimeInMin' = currTimeInMin
    BY <2>1 DEF currTimeInMin
  <2>3. num \in Drip
    BY DEF TypeOK
  <2>4. info' = info => OffTime(num)' = OffTime(num)
    BY <2>1 DEF OffTime
  <2> QED
    BY <2>1, <2>2, <2>3, <2>4
<1>8. CASE Restart
  BY <1>8 DEF Restart
<1>9. CASE UNCHANGED vars
  <2>1. UNCHANGED <<now, elapsed, overdue, astray, timeIsValid, dripStatus, prevTimeInMin, pc, num, offTimeInMin, info, steady>>
    BY <1>9 DEF vars, clock, sched, loop
  <2>2. currTimeInMin' = currTimeInMin /\ OffTime(num)' = OffTime(num)
    BY <2>1 DEF currTimeInMin, OffTime
  <2> QED
    BY <2>1, <2>2
<1> QED
  BY <1>1, <1>2, <1>4, <1>5, <1>6, <1>7, <1>8, <1>9 DEF Next, Update_drip

\* A time of today or of tomorrow, as a time of the day.
LEMMA InDay ==
  ASSUME NEW x \in Int
  PROVE  /\ 0 <= x /\ x < OneDay => x % OneDay = x
         /\ OneDay <= x /\ x < OneDay + OneDay => x % OneDay = x - OneDay
<1>1. OneDay \in Nat \ {0}
  BY Lengths
<1>2. ASSUME 0 <= x, x < OneDay PROVE x % OneDay = x
  BY <1>1, <1>2, ModSame
<1>3. ASSUME OneDay <= x, x < OneDay + OneDay PROVE x % OneDay = x - OneDay
  <2> DEFINE r == x - OneDay
  <2>1. r \in 0 .. OneDay - 1 /\ x = OneDay * 1 + r /\ 1 \in Int
    BY <1>1, <1>3
  <2> HIDE DEF r
  <2>2. x % OneDay = r
    BY <1>1, <2>1, ModIs
  <2> QED
    BY <2>2 DEF r
<1> QED
  BY <1>2, <1>3

\* The time after j minutes, today or tomorrow.
LEMMA Later ==
  ASSUME NEW t \in 0 .. OneDay - 1, NEW j \in Jump
  PROVE  /\ t + j < OneDay => (t + j) % OneDay = t + j
         /\ t + j >= OneDay => (t + j) % OneDay = (t + j) - OneDay
<1> DEFINE x == t + j
<1>1. OneDay \in Nat /\ x \in Int /\ 0 <= x /\ x < OneDay + OneDay
  BY JumpType, Lengths
<1> HIDE DEF x
<1>2. /\ x < OneDay => x % OneDay = x
      /\ x >= OneDay => x % OneDay = x - OneDay
  BY <1>1, InDay
<1> QED
  BY <1>2 DEF x

LEMMA DayKnownStep ==
  ASSUME TypeOK, DayKnown, [Next]_vars
  PROVE  DayKnown'
<1> USE DEF DayKnown
<1>1. ASSUME NEW j \in Jump, Update_time(j) PROVE DayKnown'
  <2>1. CASE Resync
    BY <2>1 DEF Resync
  <2>2. CASE ~timeIsValid'
    BY <2>2
  <2>3. CASE MissResync(j)
    BY <2>3 DEF MissResync
  <2>4. CASE timeIsValid /\ CountOn(j)
    <3>0. ~overdue /\ elapsed' = elapsed + j /\ day' = day
      BY <2>4 DEF CountOn
    <3>1. /\ now' = (now + j) % OneDay
          /\ today' = IF now + j >= OneDay THEN (today + 1) % WeekDays ELSE today
      BY <1>1 DEF Update_time
    <3>2. now \in 0 .. OneDay - 1 /\ elapsed \in Nat /\ j \in Nat /\ OneDay \in Nat
      BY JumpType, ZeroInRange DEF TypeOK
    <3>3. CASE now + j < OneDay
      <4>1. now' = now + j /\ today' = today
        <5>1. ~(now + j >= OneDay)
          BY <3>2, <3>3
        <5>2. (now + j) % OneDay = now + j
          BY <3>2, <3>3, Later, Zenon
        <5> QED
          BY <3>1, <5>1, <5>2
      <4> QED
        BY <2>4, <3>0, <3>2, <4>1
    <3>4. CASE now + j >= OneDay
      <4>1. now' = (now + j) - OneDay
        BY <3>1, <3>2, <3>4, Later
      <4>2. ~(now' >= elapsed')
        BY <3>0, <3>2, <4>1
      <4> QED
        BY <4>2
    <3> QED
      BY <3>2, <3>3, <3>4
  <2> QED
    BY <1>1, <2>1, <2>2, <2>3, <2>4 DEF Update_time
<1>2. CASE UNCHANGED clock
  BY <1>2 DEF clock
<1>3. CASE Restart
  BY <1>3 DEF Restart
<1>4. (\E j \in Jump : Update_time(j)) \/ UNCHANGED clock \/ Restart
  BY DEF Next, Update_drip, ReadTimes, TurnOn, TurnOff, LeaveAsIs, Mqtt,
         Control_Drip_Start_Time, Control_Drip_Duration_Time, Control_Drip_Days,
         Store, Control_Drip, vars
<1> QED
  BY <1>1, <1>2, <1>3, <1>4

\* Within the hour after an SNTP time the hour shown is the hour of that time.
LEMMA LastHourShown ==
  ASSUME NEW t \in 0 .. OneDay - 1, NEW e \in 0 .. MinPerHour - 1
  PROVE  ShownAt(t, e) >= OneDay - MinPerHour
           <=> ((t - e) % OneDay) \div MinPerHour = HoursPerDay - 1
<1> DEFINE x == (t - e) % OneDay
<1>1. /\ MinPerHour \in Nat \ {0} /\ HoursPerDay \in Nat \ {0}
      /\ OneDay \in Nat \ {0} /\ OneDay = MinPerHour * HoursPerDay
      /\ t \in Int /\ e \in Int /\ t - e \in Int
  BY Lengths
<1>2. x \in 0 .. OneDay - 1
  BY <1>1, DivMod
<1> HIDE DEF x
<1>3. PICK h \in 0 .. HoursPerDay - 1, m \in 0 .. MinPerHour - 1 : x = MinPerHour * h + m
  BY <1>2, TimeOfDay
<1>4. h \in Int /\ 0 \in Int /\ x \div MinPerHour = h
  BY <1>1, <1>3, HourOf
<1>5. e \div MinPerHour = 0
  <2>1. e = MinPerHour * 0 + e
    BY <1>1
  <2> QED
    BY <1>4, <2>1, HourAndMinute
<1>6. (h + 0) % HoursPerDay = h
  <2>1. h + 0 = h /\ h % HoursPerDay = h
    BY <1>1, <1>4, ModSame
  <2> QED
    BY <2>1
<1>7. ShownAt(t, e) = MinPerHour * h + (t % MinPerHour)
  BY <1>4, <1>5, <1>6, Zenon DEF ShownAt, x
<1> DEFINE n == t % MinPerHour
<1>8. n \in 0 .. MinPerHour - 1
  BY <1>1, DivMod
<1> HIDE DEF n
<1>9. ShownAt(t, e) = MinPerHour * h + n
  BY <1>7 DEF n
<1>10. ASSUME h = HoursPerDay - 1 PROVE ShownAt(t, e) >= OneDay - MinPerHour
  <2>1. MinPerHour * h = OneDay - MinPerHour
    BY <1>1, <1>10
  <2> QED
    BY <1>1, <1>8, <1>9, <2>1
<1>11. ASSUME h # HoursPerDay - 1 PROVE ~(ShownAt(t, e) >= OneDay - MinPerHour)
  <2>1. h + 1 \in 0 .. HoursPerDay - 1 /\ 0 \in 0 .. MinPerHour - 1
    BY <1>1, <1>3, <1>11
  <2>2. PICK k \in Nat : HoursPerDay = (h + 2) + k
    <3>1. HoursPerDay - (h + 2) \in Nat /\ HoursPerDay = (h + 2) + (HoursPerDay - (h + 2))
      BY <1>1, <1>3, <1>11
    <3> QED
      BY <3>1
  <2>3. OneDay = MinPerHour * (h + 2) + MinPerHour * k
    BY <1>1, <1>4, <2>2, MulAdd
  <2>4. MinPerHour * (h + 2) = MinPerHour * h + MinPerHour * 2
    BY <1>1, <1>4, MulAdd
  <2>5. MinPerHour * k \in Nat /\ MinPerHour * 2 = MinPerHour + MinPerHour /\ MinPerHour * h \in Int
    BY <1>1, <1>4
  <2> QED
    BY <1>1, <1>8, <1>9, <2>3, <2>4, <2>5
<1> QED
  BY <1>4, <1>10, <1>11 DEF x

\* The SNTP time stays the same while the minutes since are counted.
LEMMA SameSync ==
  ASSUME NEW t \in Int, NEW e \in Int, NEW j \in Int
  PROVE  (((t + j) % OneDay) - (e + j)) % OneDay = (t - e) % OneDay
<1> DEFINE x == t + j
           s == -(e + j)
<1>1. x \in Int /\ s \in Int /\ OneDay \in Nat \ {0} /\ x + s = t - e
  BY Lengths
<1> HIDE DEF x, s
<1> DEFINE u == x % OneDay
<1>2. u \in Int
  BY <1>1, DivMod
<1>3. ((x % OneDay) + s) % OneDay = (x + s) % OneDay
  BY <1>1, ModPlus
<1>4. u - (e + j) = u + s
  <2> HIDE DEF u
  <2> QED
    BY <1>2 DEF s
<1> QED
  BY <1>1, <1>3, <1>4 DEF x

LEMMA LateSyncShown ==
  ASSUME TypeOK, ~overdue, elapsed < MinPerHour
  PROVE  LateSync <=> currTimeInMin >= OneDay - MinPerHour
<1>1. elapsed \in 0 .. MinPerHour - 1 /\ now \in 0 .. OneDay - 1
  BY ZeroInRange DEF TypeOK
<1> QED
  BY <1>1, LastHourShown DEF LateSync, currTimeInMin

LEMMA OffTimeSameDay ==
  ASSUME NEW d \in Drip, info[d] \in Setting, info[d].start_time + info[d].duration < OneDay
  PROVE  OffTime(d) = info[d].start_time + info[d].duration
<1>1. info[d].start_time + info[d].duration \in 0 .. OneDay - 1
  BY OffTimeType, ZeroInRange
<1> QED
  BY <1>1, ZeroInRange, ModSame DEF OffTime

LEMMA NoneOnLateStep ==
  ASSUME TypeOK, Calls, NoneOnLate, [Next]_vars
  PROVE  NoneOnLate'
<1>1. ASSUME NEW j \in Jump, Update_time(j) PROVE NoneOnLate'
  <2>1. /\ pc = "loop" /\ num' = 0 /\ info' = info /\ now' = (now + j) % OneDay
        /\ (timeIsValid' => pc' = "read") /\ timeIsValid' \in {timeIsValid, TRUE}
        /\ \A d \in Drip : steady'[d] => steady[d] /\ ~overdue'
    BY <1>1 DEF Update_time
  <2>2. CASE ~timeIsValid'
    <3>1. ~timeIsValid
      BY <2>1, <2>2, Zenon DEF TypeOK
    <3>2. \A d \in Drip : ~steady'[d]
      BY <2>1, <3>1 DEF Calls
    <3> QED
      BY <3>2 DEF NoneOnLate
  <2>3. CASE timeIsValid' /\ Resync
    <3>1. elapsed' = 0 /\ pc' # "loop" /\ num' = 0 /\ \A d \in Drip : 0 <= d
      BY <2>1, <2>3 DEF Resync, Drip
    <3> QED
      BY <3>1 DEF NoneOnLate
  <2>4. CASE CountOn(j)
    <3>0. elapsed' = elapsed + j
      BY <2>4 DEF CountOn
    <3>1. now \in Int /\ elapsed \in Int /\ j \in Int /\ MinPerHour \in Int /\ j >= 0
      BY ZeroInRange, JumpType DEF TypeOK
    <3>2. (now' - (elapsed + j)) % OneDay = (now - elapsed) % OneDay
      <4>1. now' = (now + j) % OneDay
        BY <2>1
      <4>2. (((now + j) % OneDay) - (elapsed + j)) % OneDay = (now - elapsed) % OneDay
        BY <3>1, SameSync
      <4> QED
        BY <4>1, <4>2
    <3>3. LateSync' => LateSync
      BY <3>0, <3>1, <3>2 DEF LateSync
    <3> QED
      BY <2>1, <3>3 DEF NoneOnLate
  <2>5. CASE MissResync(j)
    BY <2>1, <2>5 DEF MissResync, NoneOnLate
  <2> QED
    BY <1>1, <2>2, <2>3, <2>4, <2>5 DEF Update_time
<1>2. ASSUME UNCHANGED <<now, elapsed, overdue, astray, info>>
      PROVE  LateSync' = LateSync
  BY <1>2 DEF LateSync
<1>3. CASE ReadTimes
  <2>1. UNCHANGED <<now, elapsed, overdue, astray, info, num, steady>> /\ pc = "read" /\ pc' = "decide"
    BY <1>3 DEF ReadTimes, clock
  <2> QED
    BY <1>2, <2>1 DEF NoneOnLate
<1>4. ASSUME pc = "decide", EndOfCall, UNCHANGED <<now, elapsed, overdue, astray, info>>,
             \A d \in Drip : d # num => steady'[d] = steady[d],
             LateSync /\ info[num].start_time + info[num].duration <= OneDay - MinPerHour
               => ~steady'[num]
      PROVE  NoneOnLate'
  <2> SUFFICES ASSUME NEW d \in Drip, steady'[d], LateSync,
                      info[d].start_time + info[d].duration <= OneDay - MinPerHour
               PROVE  elapsed = 0 /\ pc' # "loop" /\ num' <= d
    BY <1>2, <1>4 DEF NoneOnLate
  <2>1. d # num
    BY <1>4
  <2>2. steady[d] /\ elapsed = 0 /\ num <= d
    BY <1>4, <2>1 DEF NoneOnLate
  <2>3. num + 1 \in Drip /\ num + 1 <= d
    BY <2>1, <2>2, ZeroInRange DEF TypeOK, Drip
  <2> QED
    BY <1>4, <2>2, <2>3 DEF EndOfCall
<1>5. ASSUME LateSync, ~overdue, info[num].start_time + info[num].duration <= OneDay - MinPerHour
      PROVE  /\ currTimeInMin >= info[num].start_time + info[num].duration
             /\ OffTime(num) = info[num].start_time + info[num].duration
             /\ OffTime(num) >= info[num].start_time
             /\ OffTime(num) \in Int /\ currTimeInMin \in Int /\ info[num].start_time \in Int
  <2>1. num \in Drip /\ info[num] \in Setting
    BY DEF TypeOK
  <2>2. /\ info[num].start_time \in Nat /\ info[num].duration \in Nat
        /\ OneDay \in Nat /\ MinPerHour \in Nat \ {0} /\ currTimeInMin \in Int
    BY <1>5, <2>1, OffTimeType, Lengths, ShownType DEF TypeOK, currTimeInMin
  <2>3. currTimeInMin >= OneDay - MinPerHour
    BY <1>5, LateSyncShown DEF LateSync
  <2>4. OffTime(num) = info[num].start_time + info[num].duration
    <3>1. info[num].start_time + info[num].duration < OneDay
      BY <1>5, <2>2
    <3> QED
      BY <2>1, <3>1, OffTimeSameDay
  <2> QED
    BY <1>5, <2>2, <2>3, <2>4
<1>6. CASE TurnOn
  <2>1. LateSync /\ info[num].start_time + info[num].duration <= OneDay - MinPerHour
          => ~steady'[num]
    <3> SUFFICES ASSUME LateSync, ~overdue,
                        info[num].start_time + info[num].duration <= OneDay - MinPerHour
                 PROVE  FALSE
      BY <1>6 DEF TurnOn, TypeOK
    <3>1. currTimeInMin < info[num].start_time + info[num].duration
      BY <1>6 DEF TurnOn, OnDue
    <3> QED
      BY <1>5, <3>1
  <2>2. \A d \in Drip : d # num => steady'[d] = steady[d]
    BY <1>6 DEF TurnOn, TypeOK
  <2> QED
    BY <1>4, <1>6, <2>1, <2>2 DEF TurnOn, clock
<1>7. CASE TurnOff
  <2>1. (\A d \in Drip : d # num => steady'[d] = steady[d]) /\ ~steady'[num]
    BY <1>7 DEF TurnOff, TypeOK
  <2> QED
    BY <1>4, <1>7, <2>1 DEF TurnOff, clock
<1>8. CASE LeaveAsIs
  <2>1. LateSync /\ info[num].start_time + info[num].duration <= OneDay - MinPerHour
          => ~steady'[num]
    <3> SUFFICES ASSUME LateSync, steady[num],
                        info[num].start_time + info[num].duration <= OneDay - MinPerHour
                 PROVE  FALSE
      BY <1>8 DEF LeaveAsIs
    <3>1. offTimeInMin = OffTime(num) /\ dripStatus[num] /\ ~overdue
      BY <1>8 DEF Calls, LeaveAsIs, TypeOK
    <3>2. OffDue(num)
      BY <1>5, <3>1 DEF OffDue
    <3> QED
      BY <1>8, <3>1, <3>2 DEF LeaveAsIs
  <2> QED
    BY <1>4, <1>8, <2>1 DEF LeaveAsIs, clock
<1>9. ASSUME NEW d \in Drip, Mqtt(d) PROVE NoneOnLate'
  <2>1. CASE \A e \in Drip : ~steady'[e]
    BY <2>1 DEF NoneOnLate
  <2>2. CASE UNCHANGED <<now, elapsed, overdue, astray, info, pc, num, steady>>
    BY <1>2, <2>2 DEF NoneOnLate
  <2>3. (\A e \in Drip : ~steady'[e]) \/ UNCHANGED <<now, elapsed, overdue, astray, info, pc, num, steady>>
    BY <1>9 DEF Mqtt, Control_Drip_Start_Time, Control_Drip_Duration_Time, Control_Drip_Days,
                Store, Control_Drip, clock, sched, loop
  <2> QED
    BY <2>1, <2>2, <2>3
<1>10. CASE Restart
  BY <1>10 DEF Restart, NoneOnLate
<1>11. CASE UNCHANGED vars
  <2>1. UNCHANGED <<now, elapsed, overdue, astray, info, pc, num, steady>>
    BY <1>11 DEF vars, clock, loop
  <2> QED
    BY <1>2, <2>1 DEF NoneOnLate
<1> QED
  BY <1>1, <1>3, <1>6, <1>7, <1>8, <1>9, <1>10, <1>11 DEF Next, Update_drip

LEMMA ShownInvAlways == Spec => []ShownInv
<1>1. Init => ShownInv
  <2> SUFFICES ASSUME Init PROVE ShownInv
    OBVIOUS
  <2>1. TypeOK
    BY TypeInit
  <2>2. Calls /\ DayKnown /\ NoneOnLate
    BY DEF Init, Calls, DayKnown, NoneOnLate
  <2> QED
    BY <2>1, <2>2 DEF ShownInv
<1>2. ShownInv /\ [Next]_vars => ShownInv'
  BY TypeStep, CallsStep, DayKnownStep, NoneOnLateStep DEF ShownInv
<1> QED
  BY <1>1, <1>2, PTL DEF Spec

-----------------------------------------------------------------------------
(* The edges of a watering                                                 *)

\* How far the time shown is behind now.
Lag == LagAt(now, elapsed)

LEMMA Behind ==
  ASSUME TypeOK, ~overdue
  PROVE  /\ currTimeInMin \in 0 .. OneDay - 1
         /\ Lag \in {0, MinPerHour} /\ (Lag # 0 => elapsed < MinPerHour /\ elapsed # 0)
         /\ currTimeInMin = (now - Lag) % OneDay
         /\ now = (currTimeInMin + Lag) % OneDay
<1>1. /\ now \in 0 .. OneDay - 1 /\ now \in Int /\ elapsed \in 0 .. MinPerHour
      /\ MinPerHour \in Nat \ {0} /\ OneDay \in Nat \ {0} /\ elapsed \in Int
  BY Lengths DEF TypeOK
<1>2. Lag \in {0, MinPerHour}
  BY DEF Lag, LagAt
<1>3. Lag # 0 => elapsed < MinPerHour /\ elapsed # 0
  <2>1. now % MinPerHour \in 0 .. MinPerHour - 1
    BY <1>1, DivMod
  <2> QED
    BY <1>1, <2>1 DEF Lag, LagAt
<1>4. currTimeInMin = (now - Lag) % OneDay
  BY <1>1, ShownIs DEF Lag, currTimeInMin
<1>5. Lag \in Int
  BY <1>1, <1>2
<1> HIDE DEF Lag
<1>6. currTimeInMin \in 0 .. OneDay - 1
  BY <1>1, ShownType DEF currTimeInMin
<1>7. (((now - Lag) % OneDay) + Lag) % OneDay = now
  <2> DEFINE x == now - Lag
  <2>1. x \in Int /\ x + Lag = now
    BY <1>1, <1>5
  <2> HIDE DEF x
  <2>2. ((x % OneDay) + Lag) % OneDay = (x + Lag) % OneDay
    BY <1>1, <1>5, <2>1, ModPlus
  <2>3. now % OneDay = now
    BY <1>1, ModSame
  <2> QED
    BY <2>1, <2>2, <2>3 DEF x
<1> QED
  BY <1>2, <1>3, <1>4, <1>6, <1>7

\* The time since the window opened, from the time shown.
LEMMA SinceShown ==
  ASSUME TypeOK, ~overdue, NEW d \in Drip
  PROVE  SinceStart(d) = ((currTimeInMin + Lag) - info[d].start_time) % OneDay
<1> DEFINE x == currTimeInMin + Lag
           s == -info[d].start_time
<1>1. /\ x \in Int /\ s \in Int /\ OneDay \in Nat \ {0} /\ now = x % OneDay
      /\ info[d].start_time \in Int /\ now \in Int
  BY Behind, Lengths, OffTimeType DEF TypeOK
<1>2. x - info[d].start_time = x + s /\ now - info[d].start_time = now + s
  BY <1>1
<1> HIDE DEF x, s
<1>3. ((x % OneDay) + s) % OneDay = (x + s) % OneDay
  BY <1>1, ModPlus
<1>4. (now + s) % OneDay = (x + s) % OneDay
  BY <1>1, <1>3
<1>5. (now - info[d].start_time) % OneDay = (x - info[d].start_time) % OneDay
  BY <1>2, <1>4
<1> QED
  BY <1>5 DEF SinceStart, x

\* The steps that turn a drip on or off, other than a restart.
LEMMA WhoTurns ==
  ASSUME TypeOK, Calls, [Next]_vars, NEW d \in Drip
  PROVE  /\ GoesOn(d) => TurnOn /\ d = num
         /\ GoesOff(d) => TurnOff /\ d = num
<1>1. dripStatus' = dripStatus \/ TurnOn \/ TurnOff \/ Restart
  BY DEF Next, Update_drip, Update_time, ReadTimes, LeaveAsIs, Mqtt,
         Control_Drip_Start_Time, Control_Drip_Duration_Time, Control_Drip_Days,
         Store, Control_Drip, vars, sched
<1>2. CASE dripStatus' = dripStatus
  BY <1>2 DEF GoesOn, GoesOff
<1>3. CASE TurnOn
  BY <1>3 DEF TurnOn, GoesOn, GoesOff, TypeOK
<1>4. CASE TurnOff
  BY <1>4 DEF TurnOff, GoesOn, GoesOff, TypeOK
<1>5. CASE Restart
  BY <1>5 DEF Restart, GoesOn, GoesOff
<1> QED
  BY <1>1, <1>2, <1>3, <1>4, <1>5

\* Whatever the settings and whatever the messages, update_drip turns a drip on
\* no later than an hour after its window, and on a day that is not one of its
\* days only in the first hour after midnight, as long as the clock is not
\* overdue for a resync.
THEOREM StartsNearWindowAlways == Spec => StartsNearWindow
<1>1. ASSUME ShownInv, [Next]_vars, NEW d \in Drip, GoesOn(d), ~overdue
      PROVE  /\ SinceStart(d) < info[d].duration + MinPerHour
             /\ today \in info[d].days \/ now <= MinPerHour
  <2>1. TypeOK /\ Calls /\ DayKnown
    BY <1>1 DEF ShownInv
  <2>2. TurnOn /\ d = num
    BY <1>1, <2>1, WhoTurns
  <2>3. /\ currTimeInMin >= info[d].start_time
        /\ currTimeInMin < info[d].start_time + info[d].duration
        /\ day \in info[d].days /\ timeIsValid
    BY <2>1, <2>2 DEF TurnOn, OnDue, Calls
  <2>4. SinceStart(d) < info[d].duration + MinPerHour
    <3> DEFINE y == (currTimeInMin + Lag) - info[d].start_time
    <3>1. /\ currTimeInMin \in 0 .. OneDay - 1 /\ Lag \in {0, MinPerHour}
          /\ MinPerHour \in Nat \ {0} /\ OneDay \in Nat \ {0}
          /\ info[d].start_time \in Nat /\ info[d].duration \in Nat
      BY <1>1, <2>1, Behind, Lengths, OffTimeType DEF TypeOK
    <3>2. y \in Nat /\ y < info[d].duration + MinPerHour
      BY <2>3, <3>1
    <3>3. SinceStart(d) = y % OneDay
      BY <1>1, <2>1, SinceShown
    <3> HIDE DEF y
    <3>4. y % OneDay \in Nat /\ y % OneDay <= y
      BY <3>1, <3>2, ModLeq
    <3>5. \A r \in Nat : r <= y => r < info[d].duration + MinPerHour
      BY <3>1, <3>2
    <3> QED
      BY <3>3, <3>4, <3>5
  <2>5. today \in info[d].days \/ now <= MinPerHour
    <3>1. CASE now >= elapsed
      BY <1>1, <2>1, <2>3, <3>1 DEF DayKnown
    <3>2. CASE ~(now >= elapsed)
      BY <2>1, <3>2, Lengths DEF TypeOK
    <3> QED
      BY <3>1, <3>2
  <2> QED
    BY <2>4, <2>5
<1>2. ASSUME ShownInv, [Next]_vars
      PROVE  [\A d \in Drip :
                GoesOn(d) /\ ~overdue =>
                  /\ SinceStart(d) < info[d].duration + MinPerHour
                  /\ today \in info[d].days \/ now <= MinPerHour]_vars
  BY <1>1, <1>2
<1> QED
  BY <1>2, ShownInvAlways, PTL DEF Spec, StartsNearWindow

\* While the settings are left alone, update_drip turns a drip off only when its
\* window has passed, for windows that end before the last hour of the day.
THEOREM NotCutShortAlways == Spec => NotCutShort
<1>1. ASSUME ShownInv, [Next]_vars, NEW d \in Drip, GoesOff(d), steady[d],
             info[d].start_time + info[d].duration <= OneDay - MinPerHour
      PROVE  SinceStart(d) >= info[d].duration
  <2>1. TypeOK /\ Calls /\ NoneOnLate /\ ~overdue
    BY <1>1 DEF ShownInv, Calls
  <2>2. TurnOff /\ d = num
    BY <1>1, <2>1, WhoTurns
  <2>3. /\ currTimeInMin \in 0 .. OneDay - 1 /\ Lag \in {0, MinPerHour}
        /\ (Lag # 0 => elapsed < MinPerHour /\ elapsed # 0)
        /\ MinPerHour \in Nat \ {0} /\ OneDay \in Nat \ {0}
        /\ info[d].start_time \in Nat /\ info[d].duration \in Nat
    BY <2>1, Behind, Lengths, OffTimeType DEF TypeOK
  <2>4. currTimeInMin >= info[d].start_time + info[d].duration
    <3>1. offTimeInMin = OffTime(d) /\ currTimeInMin >= offTimeInMin
      BY <1>1, <2>1, <2>2 DEF TurnOff, OffDue, Calls
    <3>2. info[d].start_time + info[d].duration < OneDay /\ info[d] \in Setting
      BY <1>1, <2>1, <2>3 DEF TypeOK
    <3> QED
      BY <3>1, <3>2, OffTimeSameDay
  <2>5. currTimeInMin + Lag < OneDay
    <3> SUFFICES ASSUME ~(currTimeInMin + Lag < OneDay) PROVE FALSE
      OBVIOUS
    <3>1. Lag # 0 /\ currTimeInMin >= OneDay - MinPerHour
      BY <2>3
    <3>2. elapsed < MinPerHour /\ elapsed # 0
      BY <2>3, <3>1
    <3>3. LateSync
      BY <2>1, <3>1, <3>2, LateSyncShown
    <3> QED
      BY <1>1, <2>1, <3>2, <3>3 DEF NoneOnLate
  <2> DEFINE y == (currTimeInMin + Lag) - info[d].start_time
  <2>6. y \in 0 .. OneDay - 1 /\ y >= info[d].duration
    BY <2>3, <2>4, <2>5
  <2>7. SinceStart(d) = y % OneDay
    BY <2>1, SinceShown
  <2> HIDE DEF y
  <2>8. y % OneDay = y
    BY <2>3, <2>6, ModSame
  <2> QED
    BY <2>6, <2>7, <2>8
<1>2. ASSUME ShownInv, [Next]_vars
      PROVE  [\A d \in Drip :
                /\ GoesOff(d) /\ steady[d]
                /\ info[d].start_time + info[d].duration <= OneDay - MinPerHour
                => SinceStart(d) >= info[d].duration]_vars
  BY <1>1, <1>2
<1> QED
  BY <1>2, ShownInvAlways, PTL DEF Spec, NotCutShort

-----------------------------------------------------------------------------
(* How long a watering lasts                                               *)

\* The time drip d is due to go off, on the day it went on: beyond OneDay when
\* that is after midnight.
DueAt(d) == IF info[d].start_time + info[d].duration < OneDay
            THEN info[d].start_time + info[d].duration
            ELSE OneDay + OffTime(d)

\* The time shown p minutes after the window opened, not taken modulo a day.
Shown(d, p) == (info[d].start_time + p) - Lag

\* Midnight has been noticed, or the call at hand is going to notice it.
Noticed == timeRollOver \/ (pc = "read" /\ currTimeInMin < prevTimeInMin)

\* Drip d has gone on in a window that opened p minutes ago.  Between passes,
\* and once its turn in the pass is over, the time shown is one at which it is
\* not yet due; until its turn comes the time may be later, by what a pass may
\* take and the hour the time may leap.  A drip that waits for midnight will
\* be told of it.
OpenFor(d, p) ==
  /\ wet[d] <= p
  /\ now = (info[d].start_time + p) % OneDay
  /\ OffTime(d) < info[d].start_time /\ Shown(d, p) >= OneDay => Noticed
  /\ IF pc = "loop" \/ num > d
     THEN Shown(d, p) < DueAt(d)
     ELSE \E j \in Jump : Shown(d, p) < DueAt(d) + MinPerHour + j

Undisturbed(d) == steady[d] /\ ~Disturbed(d) /\ ~EndsLate(d)

OpenInTime == \A d \in Drip : Undisturbed(d) => \E p \in Nat : OpenFor(d, p)

LEMMA LagType ==
  ASSUME NEW t, NEW e
  PROVE  LagAt(t, e) \in Int /\ LagAt(t, e) >= 0 /\ LagAt(t, e) <= MinPerHour
BY Lengths DEF LagAt

\* Two times shown, before and after midnight: the second looks earlier.
LEMMA Midnight ==
  ASSUME NEW c \in Int, NEW n \in Int, NEW j \in Jump,
         n <= c + MinPerHour + j, c < OneDay, n >= OneDay
  PROVE  n % OneDay < c % OneDay
<1>1. /\ MinPerHour \in Nat \ {0} /\ OneDay \in Nat \ {0} /\ OneDay >= 2 * MinPerHour
      /\ j \in Nat /\ j < MinPerHour
  BY Lengths, JumpType
<1>2. 0 <= c /\ OneDay <= n /\ n < OneDay + OneDay
  BY <1>1
<1>3. c % OneDay = c /\ n % OneDay = n - OneDay
  BY <1>2, InDay
<1>4. n - OneDay < c
  BY <1>1
<1> QED
  BY <1>3, <1>4

LEMMA ShownFrom ==
  ASSUME NEW x \in Int, NEW e \in 0 .. MinPerHour
  PROVE  ShownAt(x % OneDay, e) = (x - LagAt(x % OneDay, e)) % OneDay
<1> DEFINE t == x % OneDay
           s == -LagAt(t, e)
<1>1. OneDay \in Nat \ {0} /\ t \in 0 .. OneDay - 1 /\ t \in Int
  <2>1. OneDay \in Nat \ {0}
    BY Lengths
  <2>2. t \in 0 .. OneDay - 1
    BY <2>1, DivMod
  <2> HIDE DEF t
  <2> QED
    BY <2>1, <2>2
<1>2. s \in Int
  <2> HIDE DEF t
  <2> QED
    BY LagType
<1>3. (t + s) % OneDay = (x + s) % OneDay
  <2> HIDE DEF s
  <2> QED
    BY <1>1, <1>2, ModPlus
<1>4. ShownAt(t, e) = (t - LagAt(t, e)) % OneDay
  <2> HIDE DEF t
  <2> QED
    BY <1>1, ShownIs
<1>5. t - LagAt(t, e) = t + s /\ x - LagAt(t, e) = x + s
  <2>1. LagAt(t, e) \in Int
    BY LagType
  <2> HIDE DEF t
  <2> QED
    BY <1>1, <2>1
<1> QED
  BY <1>3, <1>4, <1>5

\* The numbers of a drip that is on.
LEMMA OpenNumbers ==
  ASSUME TypeOK, ~overdue, NEW d \in Drip, NEW p \in Nat, now = (info[d].start_time + p) % OneDay
  PROVE  /\ Shown(d, p) \in Int /\ currTimeInMin = Shown(d, p) % OneDay
         /\ Lag \in Int /\ Lag >= 0 /\ Lag <= MinPerHour
         /\ info[d].start_time \in Nat /\ info[d].duration \in Nat
         /\ OffTime(d) \in Nat /\ OffTime(d) < OneDay
         /\ DueAt(d) \in Nat /\ DueAt(d) <= info[d].start_time + info[d].duration
         /\ MinPerHour \in Nat \ {0} /\ OneDay \in Nat \ {0} /\ OneDay >= 2 * MinPerHour
<1>1. MinPerHour \in Nat \ {0} /\ OneDay \in Nat \ {0} /\ OneDay >= 2 * MinPerHour
  BY Lengths
<1>2. Lag \in Int /\ Lag >= 0 /\ Lag <= MinPerHour
  BY LagType DEF Lag
<1>3. /\ info[d].start_time \in Nat /\ info[d].duration \in Nat
      /\ OffTime(d) \in Nat /\ OffTime(d) < OneDay
  BY <1>1, OffTimeType DEF TypeOK
<1>4. Shown(d, p) \in Int
  BY <1>2, <1>3 DEF Shown
<1>5. currTimeInMin = Shown(d, p) % OneDay
  <2> DEFINE x == info[d].start_time + p
  <2>1. x \in Int /\ now = x % OneDay /\ elapsed \in 0 .. MinPerHour
    BY <1>3 DEF TypeOK
  <2> HIDE DEF x
  <2>2. ShownAt(x % OneDay, elapsed) = (x - LagAt(x % OneDay, elapsed)) % OneDay
    BY <2>1, ShownFrom
  <2> QED
    BY <2>1, <2>2 DEF currTimeInMin, Shown, Lag, x
<1>6. DueAt(d) \in Nat /\ DueAt(d) <= info[d].start_time + info[d].duration
  <2>1. CASE info[d].start_time + info[d].duration < OneDay
    BY <1>3, <2>1 DEF DueAt
  <2>2. CASE ~(info[d].start_time + info[d].duration < OneDay)
    <3> DEFINE y == info[d].start_time + info[d].duration
               z == y - OneDay
    <3>1. y \in Int /\ z \in Nat /\ OneDay \in Int
      BY <1>1, <1>3, <2>2
    <3>2. z % OneDay \in Nat /\ z % OneDay <= z
      <4> HIDE DEF z
      <4> QED
        BY <1>1, <3>1, ModLeq
    <3>3. y % OneDay = z % OneDay
      <4> DEFINE r == y % OneDay
                 q == y \div OneDay
      <4>1. q \in Int /\ r \in 0 .. OneDay - 1 /\ y = OneDay * q + r
        <5> HIDE DEF y
        <5> QED
          BY <1>1, <3>1, DivMod
      <4> HIDE DEF q, r
      <4>2. q - 1 \in Int /\ z = OneDay * (q - 1) + r
        <5>1. OneDay * (q - 1) = OneDay * q - OneDay /\ OneDay * q \in Int
          BY <1>1, <4>1
        <5> HIDE DEF y
        <5> QED
          BY <1>1, <3>1, <4>1, <5>1
      <4> HIDE DEF y, z
      <4>3. z % OneDay = r
        BY <1>1, <3>1, <4>1, <4>2, ModIs
      <4> QED
        BY <4>3 DEF r
    <3>4. OffTime(d) = y % OneDay
      BY DEF OffTime
    <3>5. DueAt(d) = OneDay + OffTime(d)
      BY <2>2 DEF DueAt
    <3> DEFINE k == z % OneDay
    <3>6. k \in Nat /\ k <= z /\ DueAt(d) = OneDay + k
      BY <3>2, <3>3, <3>4, <3>5
    <3> HIDE DEF k
    <3> QED
      BY <1>1, <1>3, <3>6
  <2> QED
    BY <2>1, <2>2
<1> QED
  BY <1>1, <1>2, <1>3, <1>4, <1>5, <1>6

\* At the end of a pass a drip that is not disturbed has been open for less
\* than its duration and an hour.
LEMMA OpenInTimeEnough ==
  ASSUME TypeOK, Calls, OpenInTime
  PROVE  NoOverWatering
<1> SUFFICES ASSUME NEW d \in Drip, Undisturbed(d), pc = "loop", wet[d] >= 0
             PROVE  wet[d] < info[d].duration + MinPerHour
  BY DEF NoOverWatering, WateredFor, Undisturbed
<1>1. PICK p \in Nat : OpenFor(d, p)
  BY DEF OpenInTime
<1>2. /\ Lag \in Int /\ Lag >= 0 /\ Lag <= MinPerHour
      /\ info[d].start_time \in Nat /\ info[d].duration \in Nat
      /\ DueAt(d) \in Nat /\ DueAt(d) <= info[d].start_time + info[d].duration
      /\ MinPerHour \in Nat
  BY <1>1, OpenNumbers DEF OpenFor, Calls, Undisturbed
<1>3. wet[d] <= p /\ (info[d].start_time + p) - Lag < DueAt(d)
  BY <1>1 DEF OpenFor, Shown
<1>4. wet[d] \in Int
  BY ZeroInRange DEF TypeOK
<1> QED
  BY <1>2, <1>3, <1>4

\* A pass that starts: the time shown may come to be beyond the off time, and
\* beyond midnight, which the next call notices.
LEMMA OpenInTimeUpdateTime ==
  ASSUME TypeOK, Calls, OpenInTime, NEW j \in Jump, Update_time(j)
  PROVE  OpenInTime'
<1> SUFFICES ASSUME NEW d \in Drip, Undisturbed(d)'
             PROVE  \E p \in Nat : OpenFor(d, p)'
  BY DEF OpenInTime
<1>1. /\ pc = "loop" /\ info' = info /\ num' = 0
      /\ timeRollOver' = timeRollOver /\ prevTimeInMin' = prevTimeInMin
      /\ now' = (now + j) % OneDay /\ (steady'[d] => steady[d] /\ ~overdue')
  BY DEF Update_time, sched
<1>2. Undisturbed(d) /\ ~overdue' /\ OffTime(d)' = OffTime(d) /\ DueAt(d)' = DueAt(d)
  BY <1>1 DEF Undisturbed, Disturbed, EndsLate, OffTime, DueAt
<1>3. timeIsValid /\ ~overdue /\ pc' = "read"
  <2>1. timeIsValid /\ ~overdue
    BY <1>2 DEF Calls, Undisturbed
  <2> QED
    BY <2>1 DEF Update_time
<1>4. PICK p \in Nat : OpenFor(d, p)
  BY <1>2 DEF OpenInTime
<1>5. /\ Shown(d, p) \in Int /\ currTimeInMin = Shown(d, p) % OneDay
      /\ Lag \in Int /\ Lag >= 0 /\ Lag <= MinPerHour
      /\ info[d].start_time \in Nat /\ DueAt(d) \in Nat
      /\ MinPerHour \in Nat \ {0} /\ OneDay \in Nat \ {0}
  BY <1>3, <1>4, OpenNumbers DEF OpenFor
<1>6. j \in Nat /\ p + j \in Nat
  BY JumpType
<1> DEFINE c == Shown(d, p)
           x == info[d].start_time + (p + j)
           n == x - LagAt(now', elapsed')
<1>7. now' = x % OneDay
  <2> DEFINE y == info[d].start_time + p
  <2>1. y \in Int /\ j \in Int /\ now = y % OneDay
    BY <1>4, <1>5, <1>6 DEF OpenFor
  <2>2. x = y + j
    BY <1>5, <1>6
  <2> HIDE DEF x, y
  <2>3. ((y % OneDay) + j) % OneDay = (y + j) % OneDay
    BY <1>5, <2>1, ModPlus
  <2> QED
    BY <1>1, <2>1, <2>2, <2>3
<1>8. Shown(d, p + j)' = n
  BY <1>1 DEF Shown, Lag
<1>9. n \in Int /\ n <= c + MinPerHour + j
  <2> DEFINE l == LagAt(now', elapsed')
             t == info[d].start_time
  <2>1. l \in Int /\ l >= 0
    BY LagType
  <2>2. c = (t + p) - Lag /\ n = (t + (p + j)) - l /\ t \in Nat
    BY <1>5 DEF Shown
  <2> HIDE DEF c, n, x, l, t
  <2> QED
    BY <1>5, <1>6, <2>1, <2>2
<1>10. currTimeInMin' = n % OneDay
  <2>1. x \in Int
    BY <1>5, <1>6
  <2>2. elapsed' \in 0 .. MinPerHour
    BY TypeStep DEF TypeOK, Next
  <2> HIDE DEF x
  <2>3. ShownAt(x % OneDay, elapsed') = (x - LagAt(x % OneDay, elapsed')) % OneDay
    BY <2>1, <2>2, ShownFrom
  <2> QED
    BY <1>2, <1>7, <2>3 DEF currTimeInMin
<1>11. c < DueAt(d)
  BY <1>1, <1>4 DEF OpenFor
<1>12. wet'[d] <= p + j
  <2>1. wet[d] <= p /\ wet[d] \in Int /\ CapWet \in Int
    BY <1>4, ZeroInRange DEF OpenFor, TypeOK
  <2>2. wet'[d] = IF wet[d] < 0 THEN -1
                  ELSE IF wet[d] + j < CapWet THEN wet[d] + j ELSE CapWet
    BY DEF Update_time
  <2> QED
    BY <1>6, <2>1, <2>2
<1> HIDE DEF c, x, n
<1>13. c \in Int
  BY <1>5 DEF c
<1>14. ASSUME OffTime(d) < info[d].start_time, n >= OneDay
       PROVE  timeRollOver \/ n % OneDay < prevTimeInMin
  <2>1. CASE c >= OneDay
    <3>1. timeRollOver
      BY <1>1, <1>4, <1>14, <2>1 DEF OpenFor, Noticed, c
    <3> QED
      BY <3>1
  <2>2. CASE c < OneDay
    <3>1. n % OneDay < c % OneDay
      BY <1>9, <1>13, <1>14, <2>2, Midnight
    <3>2. prevTimeInMin = c % OneDay
      BY <1>1, <1>3, <1>5 DEF Calls, c
    <3> QED
      BY <3>1, <3>2
  <2> QED
    BY <1>5, <1>13, <2>1, <2>2
<1>15. n < DueAt(d) + MinPerHour + j
  BY <1>5, <1>6, <1>9, <1>11, <1>13
<1>16. ~(pc' = "loop" \/ num' > d)
  BY <1>1, <1>3 DEF Drip
<1>17. Noticed' = (timeRollOver \/ n % OneDay < prevTimeInMin)
  BY <1>1, <1>3, <1>10 DEF Noticed
<1>18. OpenFor(d, p + j)'
  <2>1. now' = (info'[d].start_time + (p + j)) % OneDay
    BY <1>1, <1>7 DEF x
  <2>2. OffTime(d)' < info'[d].start_time /\ Shown(d, p + j)' >= OneDay => Noticed'
    BY <1>1, <1>2, <1>8, <1>14, <1>17
  <2>3. \E i \in Jump : Shown(d, p + j)' < DueAt(d)' + MinPerHour + i
    BY <1>2, <1>8, <1>15
  <2> QED
    BY <1>12, <1>16, <2>1, <2>2, <2>3 DEF OpenFor
<1> QED
  BY <1>6, <1>18

\* The end of a call leaves the drips it is not for as they were, unless it
\* clears a timeRollOver that one of them waits for.
LEMMA OpenInTimeOthers ==
  ASSUME TypeOK, OpenInTime, pc = "decide", EndOfCall,
         UNCHANGED <<now, elapsed, overdue, astray, info>>,
         NEW d \in Drip, d # num, Undisturbed(d), wet'[d] = wet[d],
         \A p \in Nat :
           OpenFor(d, p) /\ OffTime(d) < info[d].start_time /\ Shown(d, p) >= OneDay
             => timeRollOver' = timeRollOver
  PROVE  \E p \in Nat : OpenFor(d, p)'
<1>1. PICK p \in Nat : OpenFor(d, p)
  BY DEF OpenInTime
<1>2. /\ OffTime(d)' = OffTime(d) /\ DueAt(d)' = DueAt(d) /\ Shown(d, p)' = Shown(d, p)
      /\ info' = info
  BY DEF OffTime, DueAt, Shown, Lag
<1>3. ASSUME OffTime(d) < info[d].start_time, Shown(d, p) >= OneDay PROVE Noticed'
  <2>1. timeRollOver
    BY <1>1, <1>3 DEF OpenFor, Noticed
  <2> QED
    BY <1>1, <1>3, <2>1 DEF Noticed
<1>4. pc' = "loop" \/ num' > d <=> num > d \/ num + 1 \notin Drip
  <2>1. num \in Int /\ d \in Int
    BY DEF TypeOK, Drip
  <2>2. CASE num + 1 \in Drip
    <3>1. pc' = "read" /\ num' = num + 1
      BY <2>2 DEF EndOfCall
    <3> QED
      BY <2>1, <2>2, <3>1
  <2>3. CASE num + 1 \notin Drip
    BY <2>3 DEF EndOfCall
  <2> QED
    BY <2>2, <2>3
<1>5. num + 1 \notin Drip => num > d
  BY ZeroInRange DEF TypeOK, Drip
<1>6. IF pc' = "loop" \/ num' > d
      THEN Shown(d, p) < DueAt(d)
      ELSE \E j \in Jump : Shown(d, p) < DueAt(d) + MinPerHour + j
  BY <1>1, <1>4, <1>5 DEF OpenFor
<1>7. /\ wet'[d] <= p /\ now' = (info'[d].start_time + p) % OneDay
      /\ OffTime(d)' < info'[d].start_time /\ Shown(d, p)' >= OneDay => Noticed'
  BY <1>1, <1>2, <1>3 DEF OpenFor
<1>8. IF pc' = "loop" \/ num' > d
      THEN Shown(d, p)' < DueAt(d)'
      ELSE \E j \in Jump : Shown(d, p)' < DueAt(d)' + MinPerHour + j
  BY <1>2, <1>6
<1>9. OpenFor(d, p)'
  BY <1>7, <1>8 DEF OpenFor
<1> QED
  BY <1>9

\* A drip that goes on in this call: the time shown is in its window.
LEMMA OpenInTimeTurnOn ==
  ASSUME TypeOK, TurnOn, ~overdue, NEW d \in Drip, d = num
  PROVE  \E p \in Nat : OpenFor(d, p)'
<1> DEFINE C == currTimeInMin
           start == info[d].start_time
<1>1. /\ C \in 0 .. OneDay - 1 /\ Lag \in {0, MinPerHour} /\ now = (C + Lag) % OneDay
      /\ MinPerHour \in Nat \ {0} /\ OneDay \in Nat \ {0}
      /\ start \in Nat /\ info[d].duration \in Nat
      /\ OffTime(d) \in 0 .. OneDay - 1
  BY Behind, Lengths, OffTimeType DEF TypeOK
<1>2. C >= start /\ C < start + info[d].duration
  BY DEF TurnOn, OnDue
<1>3. PICK p \in Nat : start + p = C + Lag /\ (start + p) - Lag = C
  <2>1. (C + Lag) - start \in Nat
    BY <1>1, <1>2
  <2>2. start + ((C + Lag) - start) = C + Lag /\ (C + Lag) - Lag = C
    BY <1>1
  <2> QED
    BY <2>1, <2>2
<1>4. UNCHANGED <<now, elapsed, overdue, astray, info>> /\ EndOfCall /\ wet'[d] = 0
  BY DEF TurnOn, clock, TypeOK
<1>5. /\ OffTime(d)' = OffTime(d) /\ DueAt(d)' = DueAt(d) /\ info' = info /\ now' = now
      /\ Shown(d, p)' = (start + p) - Lag
  BY <1>4 DEF OffTime, DueAt, Shown, Lag
<1>6. C < DueAt(d)
  BY <1>1, <1>2 DEF DueAt
<1>7. pc' = "loop" \/ num' > d
  BY <1>4 DEF EndOfCall, Drip
<1>8. now' = (info'[d].start_time + p) % OneDay
  BY <1>1, <1>3, <1>5
<1>9. Shown(d, p)' < DueAt(d)' /\ ~(Shown(d, p)' >= OneDay)
  <2>1. ~(C >= OneDay)
    BY <1>1
  <2> QED
    BY <1>3, <1>5, <1>6, <2>1
<1>10. OpenFor(d, p)'
  BY <1>4, <1>7, <1>8, <1>9 DEF OpenFor
<1> QED
  BY <1>10

\* A drip whose off time has been shown is seen to be due: the time shown is at
\* most an hour and a pass later, which is before the end of the day.
LEMMA DueIsSeen ==
  ASSUME TypeOK, Calls, NEW d \in Drip, d = num, Undisturbed(d), pc = "decide",
         NEW p \in Nat, OpenFor(d, p), Shown(d, p) >= DueAt(d)
  PROVE  OffDue(d)
<1> DEFINE c == Shown(d, p)
           off == OffTime(d)
           start == info[d].start_time
<1>1. /\ c \in Int /\ currTimeInMin = c % OneDay /\ start \in Nat /\ info[d].duration \in Nat
      /\ off \in Nat /\ off < OneDay /\ DueAt(d) \in Nat
      /\ MinPerHour \in Nat \ {0} /\ OneDay \in Nat \ {0} /\ OneDay >= 2 * MinPerHour
  BY OpenNumbers DEF OpenFor, Calls, Undisturbed
<1>2. offTimeInMin = off
  BY DEF Calls, Undisturbed
<1>3. PICK j \in Jump : c < DueAt(d) + MinPerHour + j
  <2>1. ~(pc = "loop" \/ num > d)
    BY DEF TypeOK, Drip
  <2> QED
    BY <2>1 DEF OpenFor
<1>4. j \in Nat
  BY JumpType
<1>5. off <= OneDay - MinPerHour - j
  BY <1>1, <1>4 DEF Undisturbed, EndsLate
<1>6. CASE start + info[d].duration < OneDay
  <2>1. DueAt(d) = off /\ off >= start
    <3>1. OffTime(d) = start + info[d].duration
      BY <1>6, OffTimeSameDay DEF TypeOK
    <3> QED
      BY <1>1, <1>6, <3>1 DEF DueAt
  <2>2. c % OneDay = c
    <3> HIDE DEF c, off
    <3>1. 0 <= c /\ c < OneDay
      BY <1>1, <1>3, <1>4, <1>5, <2>1 DEF c
    <3> QED
      BY <1>1, <3>1, InDay
  <2>3. currTimeInMin >= off
    BY <1>1, <2>1, <2>2
  <2>4. ~(off < start)
    <3> HIDE DEF off, start
    <3> QED
      BY <1>1, <2>1
  <2> QED
    BY <1>2, <2>3, <2>4 DEF OffDue
<1>7. CASE ~(start + info[d].duration < OneDay)
  <2>1. DueAt(d) = OneDay + off
    BY <1>7 DEF DueAt
  <2>2. OneDay <= c /\ c < OneDay + OneDay /\ c - OneDay >= off
    <3>1. c >= DueAt(d)
      OBVIOUS
    <3> HIDE DEF c, off
    <3> QED
      BY <1>1, <1>3, <1>4, <1>5, <2>1, <3>1
  <2>3. currTimeInMin >= off
    <3> HIDE DEF c, off
    <3>1. c % OneDay = c - OneDay
      BY <1>1, <2>2, InDay
    <3> QED
      BY <1>1, <2>2, <3>1
  <2>4. off < start => timeRollOver
    <3>1. c >= OneDay
      <4> HIDE DEF c
      <4> QED
        BY <1>1, <2>2
    <3> QED
      BY <3>1 DEF OpenFor, Noticed
  <2> QED
    BY <1>2, <2>3, <2>4 DEF OffDue
<1> QED
  BY <1>6, <1>7

\* A call that leaves its drip on: the drip is not due.
LEMMA OpenInTimeLeaveAsIs ==
  ASSUME TypeOK, Calls, OpenInTime, LeaveAsIs, NEW d \in Drip, d = num, Undisturbed(d)
  PROVE  \E p \in Nat : OpenFor(d, p)'
<1>1. PICK p \in Nat : OpenFor(d, p)
  BY DEF OpenInTime
<1>2. ~OffDue(d)
  BY DEF LeaveAsIs, Calls, Undisturbed
<1>3. pc = "decide" /\ UNCHANGED <<now, elapsed, overdue, astray, info, wet, timeRollOver>> /\ EndOfCall
  BY DEF LeaveAsIs, clock
<1>4. ~(Shown(d, p) >= DueAt(d))
  BY <1>1, <1>2, <1>3, DueIsSeen
<1>5. Shown(d, p) \in Int /\ DueAt(d) \in Int
  BY <1>1, OpenNumbers DEF OpenFor, Calls, Undisturbed
<1>6. /\ OffTime(d)' = OffTime(d) /\ DueAt(d)' = DueAt(d) /\ Shown(d, p)' = Shown(d, p)
      /\ info' = info
  BY <1>3 DEF OffTime, DueAt, Shown, Lag
<1>7. Shown(d, p)' < DueAt(d)'
  BY <1>4, <1>5, <1>6
<1>8. pc' = "loop" \/ num' > d
  BY <1>3 DEF EndOfCall, Drip
<1>9. OffTime(d) < info[d].start_time /\ Shown(d, p) >= OneDay => Noticed'
  BY <1>1, <1>3 DEF OpenFor, Noticed
<1>10. /\ wet'[d] <= p /\ now' = (info'[d].start_time + p) % OneDay
       /\ OffTime(d)' < info'[d].start_time /\ Shown(d, p)' >= OneDay => Noticed'
  BY <1>1, <1>3, <1>6, <1>9 DEF OpenFor
<1>11. OpenFor(d, p)'
  BY <1>7, <1>8, <1>10 DEF OpenFor
<1> QED
  BY <1>11

\* When another drip goes on, a drip that waits for midnight has not seen it
\* yet: it is still the day before, or the other drip is one that disturbs it.
LEMMA NotCleared ==
  ASSUME TypeOK, Calls, TurnOn, NEW d \in Drip, d # num, Undisturbed(d),
         NEW p \in Nat, OpenFor(d, p), OffTime(d) < info[d].start_time
  PROVE  ~(Shown(d, p) >= OneDay)
<1> SUFFICES ASSUME Shown(d, p) >= OneDay PROVE FALSE
  OBVIOUS
<1> DEFINE c == Shown(d, p)
           off == OffTime(d)
           other == info[num].start_time
<1>1. /\ c \in Int /\ currTimeInMin = c % OneDay /\ info[d].start_time \in Nat
      /\ info[d].duration \in Nat
      /\ off \in Nat /\ off < OneDay /\ DueAt(d) \in Nat
      /\ MinPerHour \in Nat \ {0} /\ OneDay \in Nat \ {0}
  BY OpenNumbers DEF OpenFor, Calls, Undisturbed
<1>2. num \in Drip \ {d} /\ other \in Nat /\ info[num] \in Setting
  BY OffTimeType DEF TypeOK
<1>3. currTimeInMin >= other /\ currTimeInMin \in 0 .. OneDay - 1
  BY Behind DEF TurnOn, OnDue, Calls, Undisturbed
<1>4. DueAt(d) = OneDay + off
  <2>1. ~(info[d].start_time + info[d].duration < OneDay)
    <3> SUFFICES ASSUME info[d].start_time + info[d].duration < OneDay PROVE FALSE
      OBVIOUS
    <3>1. off = info[d].start_time + info[d].duration
      BY OffTimeSameDay DEF TypeOK
    <3> QED
      BY <1>1, <3>1
  <2> QED
    BY <2>1 DEF DueAt
<1>5. \E j \in Jump : c < DueAt(d) + MinPerHour + j
  <2>1. CASE pc = "loop" \/ num > d
    <3>1. c < DueAt(d)
      BY <2>1 DEF OpenFor
    <3>2. PICK j \in Jump : TRUE
      BY SchedulerAssumption
    <3>3. j \in Nat
      BY JumpType
    <3> HIDE DEF c
    <3> QED
      BY <1>1, <3>1, <3>2, <3>3
  <2>2. CASE ~(pc = "loop" \/ num > d)
    BY <2>2 DEF OpenFor
  <2> QED
    BY <2>1, <2>2
<1>6. PICK j \in Jump : c < DueAt(d) + MinPerHour + j
  BY <1>5
<1>7. j \in Nat
  BY JumpType
<1>8. ~(other < off + MinPerHour + j)
  BY <1>2 DEF Undisturbed, Disturbed
<1>9. c >= OneDay
  OBVIOUS
<1> HIDE DEF c, off, other
<1>10. c < OneDay + OneDay
  BY <1>1, <1>2, <1>3, <1>4, <1>6, <1>7, <1>8
<1>11. c % OneDay = c - OneDay
  BY <1>1, <1>9, <1>10, InDay
<1> QED
  BY <1>1, <1>2, <1>3, <1>4, <1>6, <1>7, <1>8, <1>11

LEMMA OpenInTimeStep ==
  ASSUME TypeOK, Calls, OpenInTime, [Next]_vars
  PROVE  OpenInTime'
<1>1. ASSUME NEW j \in Jump, Update_time(j) PROVE OpenInTime'
  BY <1>1, OpenInTimeUpdateTime
<1>2. ASSUME UNCHANGED info, NEW d \in Drip, steady'[d] = steady[d]
      PROVE  Undisturbed(d)' = Undisturbed(d)
  BY <1>2 DEF Undisturbed, Disturbed, EndsLate, OffTime
<1>3. ASSUME UNCHANGED <<now, elapsed, overdue, astray, info, num, steady>>, pc' = "loop" <=> pc = "loop",
             Noticed => Noticed', \A d \in Drip : wet'[d] <= wet[d] \/ wet'[d] = -1
      PROVE  OpenInTime'
  <2> SUFFICES ASSUME NEW d \in Drip, Undisturbed(d), NEW p \in Nat, OpenFor(d, p)
               PROVE  OpenFor(d, p)'
    BY <1>2, <1>3 DEF OpenInTime
  <2>1. /\ OffTime(d)' = OffTime(d) /\ DueAt(d)' = DueAt(d) /\ Shown(d, p)' = Shown(d, p)
        /\ info' = info /\ now' = now /\ num' = num
    BY <1>3 DEF OffTime, DueAt, Shown, Lag
  <2>2. wet'[d] <= p
    <3>1. wet[d] <= p /\ wet[d] \in Int
      BY ZeroInRange DEF OpenFor, TypeOK
    <3>2. wet'[d] \in Int
      <4>1. TypeOK'
        BY TypeStep
      <4> QED
        BY <4>1, ZeroInRange DEF TypeOK
    <3> QED
      BY <1>3, <3>1, <3>2
  <2>3. OffTime(d)' < info'[d].start_time /\ Shown(d, p)' >= OneDay => Noticed'
    BY <1>3, <2>1 DEF OpenFor
  <2>4. IF pc' = "loop" \/ num' > d
        THEN Shown(d, p)' < DueAt(d)'
        ELSE \E j \in Jump : Shown(d, p)' < DueAt(d)' + MinPerHour + j
    BY <1>3, <2>1 DEF OpenFor
  <2>5. now' = (info'[d].start_time + p) % OneDay
    BY <2>1 DEF OpenFor
  <2> QED
    BY <2>2, <2>3, <2>4, <2>5 DEF OpenFor
<1>4. CASE ReadTimes
  <2>1. /\ UNCHANGED <<now, elapsed, overdue, astray, info, num, steady, wet>>
        /\ pc = "read" /\ pc' = "decide" /\ timeRollOver' = RolledOver
    BY <1>4 DEF ReadTimes, clock
  <2>2. Noticed => Noticed'
    BY <2>1 DEF Noticed, RolledOver
  <2>3. \A d \in Drip : wet'[d] <= wet[d] \/ wet'[d] = -1
    BY <2>1, ZeroInRange DEF TypeOK
  <2> QED
    BY <1>3, <2>1, <2>2, <2>3
<1>5. CASE TurnOn
  <2> SUFFICES ASSUME NEW d \in Drip, Undisturbed(d)'
               PROVE  \E p \in Nat : OpenFor(d, p)'
    BY DEF OpenInTime
  <2>1. CASE d = num
    <3>1. ~overdue
      BY <1>5, <2>1 DEF TurnOn, Undisturbed, TypeOK
    <3> QED
      BY <1>5, <2>1, <3>1, OpenInTimeTurnOn
  <2>2. CASE d # num
    <3>1. /\ pc = "decide" /\ EndOfCall /\ UNCHANGED <<now, elapsed, overdue, astray, info>>
          /\ wet'[d] = wet[d] /\ steady'[d] = steady[d]
      BY <1>5, <2>2 DEF TurnOn, clock, TypeOK
    <3>2. Undisturbed(d)
      BY <1>2, <3>1
    <3>3. \A p \in Nat :
            OpenFor(d, p) /\ OffTime(d) < info[d].start_time /\ Shown(d, p) >= OneDay
              => timeRollOver' = timeRollOver
      BY <1>5, <2>2, <3>2, NotCleared
    <3> QED
      BY <2>2, <3>1, <3>2, <3>3, OpenInTimeOthers
  <2> QED
    BY <2>1, <2>2
<1>6. CASE TurnOff
  <2> SUFFICES ASSUME NEW d \in Drip, Undisturbed(d)'
               PROVE  \E p \in Nat : OpenFor(d, p)'
    BY DEF OpenInTime
  <2>1. d # num
    BY <1>6 DEF TurnOff, Undisturbed, TypeOK
  <2>2. /\ pc = "decide" /\ EndOfCall /\ UNCHANGED <<now, elapsed, overdue, astray, info, timeRollOver>>
        /\ wet'[d] = wet[d] /\ steady'[d] = steady[d]
    BY <1>6, <2>1 DEF TurnOff, clock, TypeOK
  <2>3. Undisturbed(d)
    BY <1>2, <2>2
  <2> QED
    BY <2>1, <2>2, <2>3, OpenInTimeOthers
<1>7. CASE LeaveAsIs
  <2> SUFFICES ASSUME NEW d \in Drip, Undisturbed(d)'
               PROVE  \E p \in Nat : OpenFor(d, p)'
    BY DEF OpenInTime
  <2>1. /\ pc = "decide" /\ EndOfCall
        /\ UNCHANGED <<now, elapsed, overdue, astray, info, timeRollOver, wet, steady>>
    BY <1>7 DEF LeaveAsIs, clock
  <2>2. Undisturbed(d)
    BY <1>2, <2>1
  <2>3. CASE d = num
    BY <1>7, <2>2, <2>3, OpenInTimeLeaveAsIs
  <2>4. CASE d # num
    BY <2>1, <2>2, <2>4, OpenInTimeOthers
  <2> QED
    BY <2>3, <2>4
<1>8. ASSUME \A d \in Drip : ~steady'[d] PROVE OpenInTime'
  BY <1>8 DEF OpenInTime, Undisturbed
<1>9. ASSUME NEW d \in Drip, Mqtt(d) PROVE OpenInTime'
  <2>1. CASE Control_Drip(d)
    <3>1. /\ UNCHANGED <<now, elapsed, overdue, astray, info, num, steady, pc, timeRollOver, prevTimeInMin>>
          /\ wet' = [wet EXCEPT ![d] = -1]
      BY <2>1 DEF Control_Drip, clock, sched, loop
    <3>2. Noticed => Noticed'
      BY <3>1 DEF Noticed, currTimeInMin
    <3>3. \A e \in Drip : wet'[e] <= wet[e] \/ wet'[e] = -1
      BY <3>1, ZeroInRange DEF TypeOK
    <3> QED
      BY <1>3, <3>1, <3>2, <3>3
  <2>2. CASE \A e \in Drip : ~steady'[e]
    BY <1>8, <2>2
  <2>3. Control_Drip(d) \/ \A e \in Drip : ~steady'[e]
    BY <1>9 DEF Mqtt, Control_Drip_Start_Time, Control_Drip_Duration_Time, Control_Drip_Days,
                Store
  <2> QED
    BY <2>1, <2>2, <2>3
<1>10. CASE Restart
  <2>1. \A d \in Drip : ~steady'[d]
    BY <1>10 DEF Restart
  <2> QED
    BY <1>8, <2>1
<1>11. CASE UNCHANGED vars
  <2>1. UNCHANGED <<now, elapsed, overdue, astray, info, num, steady, wet, pc, timeRollOver, prevTimeInMin>>
    BY <1>11 DEF vars, clock, sched, loop
  <2>2. Noticed => Noticed'
    BY <2>1 DEF Noticed, currTimeInMin
  <2>3. \A d \in Drip : wet'[d] <= wet[d] \/ wet'[d] = -1
    BY <2>1, ZeroInRange DEF TypeOK
  <2> QED
    BY <1>3, <2>1, <2>2, <2>3
<1> QED
  BY <1>1, <1>4, <1>5, <1>6, <1>7, <1>9, <1>10, <1>11 DEF Next, Update_drip

\* With settings left alone, no restart and no resync missed, the schedule waters
\* no drip for more than an hour longer than its duration in minutes, for any number of drips, any windows
\* and any length of the passes up to an hour, as long as no other drip may
\* disturb it and its window does not end about the last hour of the day.
THEOREM NoOverWateringAlways == Spec => []NoOverWatering
<1>1. Init => OpenInTime
  BY DEF Init, OpenInTime, Undisturbed
<1>2. ShownInv /\ OpenInTime /\ [Next]_vars => OpenInTime'
  BY OpenInTimeStep DEF ShownInv
<1>3. ShownInv /\ OpenInTime => NoOverWatering
  BY OpenInTimeEnough DEF ShownInv
<1> QED
  BY <1>1, <1>2, <1>3, ShownInvAlways, PTL DEF Spec

=============================================================================
