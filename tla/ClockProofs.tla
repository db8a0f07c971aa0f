----------------------------- MODULE ClockProofs -----------------------------
(***************************************************************************)
(* Proofs about the wall clock, for every length of the week, range of the *)
(* millisecond counter, SNTP interval, number of polls, and however long   *)
(* the passes of app_loop take.                                            *)
(***************************************************************************)
EXTENDS Clock, ArithmeticLemmas

-----------------------------------------------------------------------------
(* Arithmetic                                                              *)

\* Min of the community modules, of two numbers.
LEMMA MinTwo ==
  ASSUME NEW a \in Int, NEW b \in Int
  PROVE  Min({a, b}) = IF a < b THEN a ELSE b
<1> DEFINE m == IF a < b THEN a ELSE b
<1>1. m \in {a, b} /\ \A y \in {a, b} : m <= y
  OBVIOUS
<1>2. \A x \in {a, b} : (\A y \in {a, b} : x <= y) => x = m
  OBVIOUS
<1> QED
  BY <1>1, <1>2 DEF Min

\* Division and remainder of C are those of TLA+ on natural numbers.
LEMMA CNatural ==
  ASSUME NEW a \in Nat
  PROVE  /\ CDiv(a, 60) = a \div 60 /\ CDiv(a, 3600) = a \div 3600
         /\ CMod(a, 60) = a % 60 /\ CMod(a, 24) = a % 24
BY DEF CDiv, CMod

-----------------------------------------------------------------------------
(* Types                                                                   *)

LEMMA Ranges ==
  /\ OneDay \in Nat \ {0} /\ WeekSec \in Nat \ {0}
  /\ Second \in Nat \ {0} /\ WeekMsec \in Nat \ {0}
  /\ Week \in Nat \ {0} /\ Wrap \in Nat \ {0} /\ Interval \in Nat
  /\ CapAge \in Nat
<1>1. /\ Week \in Nat \ {0} /\ Second \in Nat \ {0} /\ Interval \in Nat
      /\ CapAge \in Nat /\ Wrap \in Nat \ {0}
  BY ClockAssumption
<1>2. OneDay \in Nat \ {0} /\ WeekSec \in Nat \ {0}
  BY <1>1 DEF OneDay, WeekSec
<1>3. WeekMsec \in Nat \ {0}
  BY <1>1, <1>2 DEF WeekMsec
<1> QED
  BY <1>1, <1>2, <1>3

LEMMA DayLength == OneDay = 86400 /\ WeekSec = 86400 * Week
BY ClockAssumption DEF OneDay, WeekSec

LEMMA LocalTimeType ==
  ASSUME NEW t \in 0 .. WeekSec - 1
  PROVE  /\ LocalTime(t) \in Time
         /\ LocalTime(t).sec = t % 60 /\ LocalTime(t).min = (t \div 60) % 60
         /\ LocalTime(t).hour = (t \div 3600) % 24
         /\ LocalTime(t).day = t \div OneDay
<1>1. t \in Nat /\ t <= 86400 * Week - 1 /\ Week \in Nat
  BY Ranges, DayLength
<1>2. t \div OneDay \in 0 .. Week - 1
  BY <1>1, DayLength
<1>3. t % 60 \in Int /\ (t \div 60) % 60 \in Int /\ (t \div 3600) % 24 \in Int
  BY <1>1
<1> QED
  BY <1>2, <1>3, Ranges DEF LocalTime, Time

LEMMA ElapseType ==
  ASSUME TypeOK, NEW s \in Nat, Elapse(s)
  PROVE  /\ real' \in 0 .. WeekMsec - 1
         /\ count' \in 0 .. Wrap - 1
         /\ age' \in 0 .. CapAge
         /\ wrapped' \in BOOLEAN
<1>1. real' \in 0 .. WeekMsec - 1
  <2> DEFINE x == real + s
  <2>1. x \in Int /\ WeekMsec \in Nat \ {0} /\ real' = x % WeekMsec
    BY Ranges DEF TypeOK, Elapse
  <2> HIDE DEF x
  <2> QED
    BY <2>1, DivMod
<1>2. count' \in 0 .. Wrap - 1
  <2> DEFINE x == count + s
  <2>1. x \in Int /\ Wrap \in Nat \ {0} /\ count' = x % Wrap
    BY Ranges DEF TypeOK, Elapse
  <2> HIDE DEF x
  <2> QED
    BY <2>1, DivMod
<1>3. age' \in 0 .. CapAge
  <2>1. age + s \in Nat /\ age' = Min({age + s, CapAge})
    BY DEF TypeOK, Elapse
  <2> QED
    BY <2>1, Ranges, MinTwo
<1>4. wrapped' \in BOOLEAN
  BY DEF TypeOK, Elapse
<1> QED
  BY <1>1, <1>2, <1>3, <1>4

\* While sntp_get_time polls there are polls left.
Polling == pc = "poll" => retry < RetryCount

\* A time of the week in whole seconds.
LEMMA DivWithin ==
  ASSUME NEW m, NEW k \in Nat \ {0}, NEW n \in Nat \ {0}, m \in 0 .. n * k - 1
  PROVE  m \div k \in 0 .. n - 1
<1> DEFINE d == m \div k
           e == m % k
<1>1. m \in Int /\ n * k \in Nat
  OBVIOUS
<1>2. d \in Int /\ e \in 0 .. k - 1 /\ m = k * d + e
  BY <1>1, DivMod
<1> HIDE DEF d, e
<1>3. d >= 0
  <2> SUFFICES ASSUME d <= -1 PROVE FALSE
    BY <1>2
  <2>1. k * d <= -k
    BY <1>2
  <2> QED
    BY <1>1, <1>2, <2>1
<1>4. d < n
  <2> SUFFICES ASSUME d >= n PROVE FALSE
    BY <1>2
  <2>1. k * d >= k * n
    BY <1>2
  <2> QED
    BY <1>1, <1>2, <2>1
<1> QED
  BY <1>2, <1>3, <1>4 DEF d

LEMMA GapType == \A ago \in Gap : ago \in Nat /\ ago < Second
BY ClockAssumption

LEMMA SystemTimeType ==
  ASSUME TypeOK, NEW ago \in Gap
  PROVE  SystemTime(ago) \in 0 .. WeekSec - 1
<1> DEFINE x == (IF rtcSet THEN real ELSE count) - ago
           m == x % WeekMsec
<1>1. x \in Int
  BY GapType DEF TypeOK
<1> HIDE DEF x
<1>2. m \in 0 .. WeekSec * Second - 1
  BY <1>1, Ranges, DivMod DEF WeekMsec
<1> HIDE DEF m
<1>3. m \div Second \in 0 .. WeekSec - 1
  BY <1>2, Ranges, DivWithin
<1> QED
  BY <1>3 DEF SystemTime, m, x

LEMMA ShownType ==
  ASSUME TypeOK
  PROVE  Shown \in Time
<1>1. secCount \in Int
  <2> DEFINE c == count - mSecLastSNTP
  <2>1. c \in Int
    BY DEF TypeOK
  <2>2. c % Wrap \in 0 .. Wrap - 1 /\ secCount = CDiv(Signed(c), Second)
    BY <2>1, Ranges, DivMod DEF secCount
  <2>3. Signed(c) \in Int
    BY <2>2, Ranges DEF Signed
  <2>4. \A x \in Int : CDiv(x, Second) \in Int
    BY Ranges DEF CDiv
  <2> QED
    BY <2>2, <2>3, <2>4
<1>2. sntp.sec \in Int /\ sntp.min \in Int /\ sntp.hour \in Int /\ sntp.day \in 0 .. Week - 1
  BY DEF TypeOK, Time
<1>3. \A x \in Int : /\ CDiv(x, 60) \in Int /\ CDiv(x, 3600) \in Int
                     /\ CMod(x, 60) \in Int /\ CMod(x, 24) \in Int
  BY DEF CDiv, CMod
<1>4. /\ CMod(sntp.sec + secCount, 60) \in Int
      /\ CDiv(sntp.sec + secCount, 60) \in Int /\ CDiv(sntp.sec + secCount, 3600) \in Int
  BY <1>1, <1>2, <1>3
<1>5. /\ CMod(sntp.min + CDiv(sntp.sec + secCount, 60), 60) \in Int
      /\ CMod(sntp.hour + CDiv(sntp.sec + secCount, 3600), 24) \in Int
  BY <1>2, <1>3, <1>4
<1> QED
  BY <1>2, <1>4, <1>5 DEF Shown, Time

LEMMA TypeInit == Init => TypeOK /\ Polling
<1> SUFFICES ASSUME Init PROVE TypeOK /\ Polling
  OBVIOUS
<1>1. ZeroTime \in Time
  BY Ranges DEF ZeroTime, Time
<1>2. 0 \in 0 .. Wrap - 1 /\ 0 \in 0 .. RetryCount /\ 0 \in 0 .. CapAge
  BY ClockAssumption
<1>3. real \in 0 .. WeekMsec - 1
  BY ClockAssumption DEF Init
<1> QED
  BY <1>1, <1>2, <1>3 DEF Init, TypeOK, Polling

LEMMA TypeStep == TypeOK /\ Polling /\ [Next]_vars => TypeOK' /\ Polling'
<1> SUFFICES ASSUME TypeOK, Polling, [Next]_vars PROVE TypeOK' /\ Polling'
  OBVIOUS
<1>0. RetryCount \in Nat /\ RetryCount > 0
  BY ClockAssumption
<1>1. CASE SntpReply
  BY <1>1 DEF SntpReply, TypeOK, Polling, env, green, local
<1>2. ASSUME NEW s \in PassTime, Update_time(s) PROVE TypeOK' /\ Polling'
  <2>1. s \in Nat /\ Elapse(s)
    BY <1>2, ClockAssumption DEF Update_time
  <2>2. /\ real' \in 0 .. WeekMsec - 1 /\ count' \in 0 .. Wrap - 1
        /\ age' \in 0 .. CapAge /\ wrapped' \in BOOLEAN
    BY <2>1, ElapseType
  <2>3. /\ pc' \in {"poll", "check"} /\ caller' \in {"first", "again"}
        /\ retry' \in 0 .. RetryCount /\ (pc' = "poll" => retry' < RetryCount)
    BY <1>0, <1>2 DEF Update_time, CallSntp, local, TypeOK
  <2>4. UNCHANGED <<rtcSet, status, sntp, show, timeIsValid, mSecLastSNTP>>
    BY <1>2 DEF Update_time, world, green
  <2> QED
    BY <2>2, <2>3, <2>4 DEF TypeOK, Polling
<1>3. CASE PollAnswered
  BY <1>3 DEF PollAnswered, TypeOK, Polling, env, green, local
<1>4. CASE PollPending
  <2>1. /\ pc = "poll" /\ retry' = retry + 1
        /\ UNCHANGED <<rtcSet, status, sntp, show, timeIsValid, caller, mSecLastSNTP>>
    BY <1>4 DEF PollPending, world, green
  <2>2. retry' \in 0 .. RetryCount
    BY <1>0, <2>1 DEF TypeOK, Polling
  <2>3. CASE retry' < RetryCount
    <3>1. Elapse(RetryWait) /\ RetryWait \in Nat /\ pc' = pc
      BY <1>4, <2>3, ClockAssumption DEF PollPending
    <3>2. /\ real' \in 0 .. WeekMsec - 1 /\ count' \in 0 .. Wrap - 1
          /\ age' \in 0 .. CapAge /\ wrapped' \in BOOLEAN
      BY <3>1, ElapseType
    <3> QED
      BY <2>1, <2>2, <2>3, <3>1, <3>2 DEF TypeOK, Polling
  <2>4. CASE ~(retry' < RetryCount)
    BY <1>4, <2>1, <2>2, <2>4 DEF PollPending, env, TypeOK, Polling
  <2> QED
    BY <2>3, <2>4
<1>5. CASE ReadTime
  <2>1. sntp' \in Time
    <3>1. PICK ago \in Gap : sntp' = LocalTime(SystemTime(ago))
      BY <1>5 DEF ReadTime, ReadFields
    <3>2. SystemTime(ago) \in 0 .. WeekSec - 1
      BY SystemTimeType
    <3> QED
      BY <3>1, <3>2, LocalTimeType
  <2>2. mSecLastSNTP' \in 0 .. Wrap - 1 /\ age' \in 0 .. CapAge
    BY <1>5, Ranges DEF ReadTime, TypeOK
  <2>3. /\ wrapped' \in BOOLEAN /\ timeIsValid' \in BOOLEAN /\ pc' \in {"check", "show"}
        /\ caller' = "first" /\ retry' = 0
        /\ UNCHANGED <<real, count, rtcSet, status, show>>
    BY <1>5 DEF ReadTime, TypeOK, world, Passed
  <2> QED
    BY <1>0, <2>1, <2>2, <2>3 DEF TypeOK, Polling
<1>6. CASE Check
  <2>1. /\ pc' \in {"poll", "show"} /\ caller' \in {"first", "again"}
        /\ retry' \in 0 .. RetryCount /\ (pc' = "poll" => retry' < RetryCount)
    BY <1>0, <1>6 DEF Check, CallSntp, local, TypeOK
  <2> QED
    BY <1>6, <2>1 DEF Check, env, world, green, TypeOK, Polling
<1>7. CASE ShowTime
  BY <1>7, ShownType DEF ShowTime, TypeOK, Polling, env, world, local
<1>8. CASE UNCHANGED vars
  BY <1>8 DEF vars, env, world, green, local, TypeOK, Polling
<1> QED
  BY <1>1, <1>2, <1>3, <1>4, <1>5, <1>6, <1>7, <1>8 DEF Next, App

\* Every field keeps its range, through counters that wrap around, weeks that
\* start anew and every number of polls.
THEOREM ClockTypes == Spec => []TypeOK
BY TypeInit, TypeStep, PTL DEF Spec

-----------------------------------------------------------------------------
(* Where a valid time comes from                                           *)

\* An answer is what makes a poll succeed, also a poll of a status that an
\* earlier call left behind.
FromServer ==
  /\ timeIsValid => rtcSet
  /\ status = "COMPLETED" => rtcSet
  /\ pc = "read" /\ Passed => rtcSet

LEMMA FromServerStep ==
  ASSUME TypeOK, Polling, FromServer, [Next]_vars
  PROVE  FromServer'
<1>1. CASE SntpReply
  BY <1>1 DEF SntpReply, FromServer
<1>2. ASSUME NEW s \in PassTime, Update_time(s) PROVE FromServer'
  BY <1>2 DEF Update_time, CallSntp, FromServer, world, green
<1>3. CASE PollAnswered
  BY <1>3 DEF PollAnswered, FromServer, green
<1>4. CASE PollPending
  <2>1. /\ pc = "poll" /\ retry' = retry + 1 /\ UNCHANGED <<rtcSet, status, timeIsValid>>
        /\ pc' = IF retry' < RetryCount THEN pc ELSE "read"
    BY <1>4 DEF PollPending, world, green
  <2>2. pc' = "read" => retry' = RetryCount
    BY <2>1, ClockAssumption DEF TypeOK, Polling
  <2> QED
    BY <2>1, <2>2 DEF FromServer, Passed
<1>5. CASE ReadTime
  <2>1. /\ pc = "read" /\ pc' # "read" /\ UNCHANGED <<rtcSet, status>>
        /\ timeIsValid' => timeIsValid \/ Passed
    BY <1>5 DEF ReadTime, world
  <2> QED
    BY <2>1 DEF FromServer
<1>6. CASE Check
  BY <1>6 DEF Check, CallSntp, FromServer, world, green
<1>7. CASE ShowTime
  BY <1>7 DEF ShowTime, FromServer, world
<1>8. CASE UNCHANGED vars
  BY <1>8 DEF vars, world, green, local, FromServer, Passed
<1> QED
  BY <1>1, <1>2, <1>3, <1>4, <1>5, <1>6, <1>7, <1>8 DEF Next, App

LEMMA FromServerInit == Init => FromServer
BY DEF Init, FromServer

\* update_time marks no time valid that does not come from a server, for every
\* number of polls and every moment at which an answer comes.
THEOREM ValidMeansSetAlways == Spec => []ValidMeansSet
<1>1. TypeOK /\ Polling /\ FromServer /\ [Next]_vars => FromServer'
  BY FromServerStep
<1>2. FromServer => ValidMeansSet
  BY DEF FromServer, ValidMeansSet
<1> QED
  BY <1>1, <1>2, TypeInit, TypeStep, FromServerInit, PTL DEF Spec

-----------------------------------------------------------------------------
(* What has been counted since the last SNTP time                          *)

\* Since mSecLastSNTP was taken a milliseconds have gone by: the counter has
\* counted them, modulo its range.
Counted(a) ==
  /\ age = Min({a, CapAge})
  /\ count = (mSecLastSNTP + a) % Wrap
  /\ wrapped <=> mSecLastSNTP + a >= Wrap

\* What is lost between the SNTP time in whole seconds r and the time w when
\* the counter is read: the rest of a second, and the gap.
TakenAt(r, w) == w - r * Second \in 0 .. 2 * Second - 2

\* The SNTP time was r when mSecLastSNTP was taken, at time w.
SntpWas(r, w, a) ==
  /\ sntp = LocalTime(r) /\ TakenAt(r, w)
  /\ real = (w + a) % WeekMsec

Known(a) == \E r \in 0 .. WeekSec - 1, w \in Nat : SntpWas(r, w, a)

\* The inductive invariant of the time shown.
Timed == \E a \in Nat : Counted(a) /\ (timeIsValid => Known(a))

\* What is shown in a pass is the sum of the SNTP time and the count, and no
\* pass shows a time while a resync is due.
Displayed ==
  /\ pc = "loop" /\ timeIsValid => show = Shown
  /\ pc \in {"loop", "show"} /\ ~wrapped => age <= Interval

LEMMA ElapseTimed ==
  ASSUME TypeOK, Timed, NEW s \in Nat, Elapse(s),
         UNCHANGED <<sntp, timeIsValid, mSecLastSNTP>>
  PROVE  Timed'
<1>1. PICK a \in Nat : Counted(a) /\ (timeIsValid => Known(a))
  BY DEF Timed
<1>2. a + s \in Nat /\ s \in Int
  OBVIOUS
<1>3. age' = Min({a + s, CapAge})
  <2>1. age' = Min({age + s, CapAge}) /\ age = Min({a, CapAge}) /\ age \in Int
    BY <1>1 DEF Elapse, Counted, TypeOK
  <2>2. /\ age = IF a < CapAge THEN a ELSE CapAge
        /\ age' = IF age + s < CapAge THEN age + s ELSE CapAge
    BY <2>1, Ranges, MinTwo
  <2>3. Min({a + s, CapAge}) = IF a + s < CapAge THEN a + s ELSE CapAge
    BY <1>2, Ranges, MinTwo
  <2> QED
    BY <2>2, <2>3, Ranges
<1>4. count' = (mSecLastSNTP' + (a + s)) % Wrap
  <2> DEFINE x == mSecLastSNTP + a
  <2>1. x \in Int /\ count = x % Wrap /\ count' = (count + s) % Wrap
    BY <1>1 DEF Elapse, Counted, TypeOK
  <2> HIDE DEF x
  <2>0. Wrap \in Nat \ {0}
    BY Ranges
  <2>2. count' = (x + s) % Wrap
    BY <1>2, <2>0, <2>1, ModPlus, Zenon
  <2>3. x + s = mSecLastSNTP' + (a + s)
    BY DEF x, TypeOK
  <2> QED
    BY <2>2, <2>3
<1>5. wrapped' <=> mSecLastSNTP' + (a + s) >= Wrap
  <2>1. /\ wrapped' <=> (wrapped \/ count + s >= Wrap)
        /\ wrapped <=> mSecLastSNTP + a >= Wrap
        /\ mSecLastSNTP' = mSecLastSNTP /\ mSecLastSNTP \in Nat
    <3>1. wrapped' = (wrapped \/ count + s >= Wrap)
      BY DEF Elapse
    <3>2. wrapped <=> mSecLastSNTP + a >= Wrap
      BY <1>1 DEF Counted
    <3>3. mSecLastSNTP' = mSecLastSNTP /\ mSecLastSNTP \in Nat
      BY DEF TypeOK
    <3> QED
      BY <3>1, <3>2, <3>3, Zenon
  <2>2. CASE mSecLastSNTP + a >= Wrap
    BY <2>1, <2>2, Ranges
  <2>3. CASE mSecLastSNTP + a < Wrap
    <3>1. count = mSecLastSNTP + a
      <4>1. mSecLastSNTP + a \in 0 .. Wrap - 1 /\ count = (mSecLastSNTP + a) % Wrap
        BY <1>1, <2>1, <2>3, Ranges DEF Counted
      <4> QED
        BY <4>1, Ranges, ModSame
    <3> QED
      BY <2>1, <2>3, <3>1, Ranges
  <2> QED
    BY <2>1, <2>2, <2>3, Ranges
<1>6. Known(a) => Known(a + s)'
  <2> SUFFICES ASSUME NEW r \in 0 .. WeekSec - 1, NEW w \in Nat, SntpWas(r, w, a)
               PROVE  SntpWas(r, w, a + s)'
    BY DEF Known
  <2> DEFINE x == w + a
  <2>1. x \in Int /\ WeekMsec \in Nat \ {0} /\ real = x % WeekMsec
        /\ real' = (real + s) % WeekMsec
    BY Ranges DEF Elapse, SntpWas
  <2>2. x + s = w + (a + s)
    OBVIOUS
  <2> HIDE DEF x
  <2>3. real' = (x + s) % WeekMsec
    BY <1>2, <2>1, ModPlus, Zenon
  <2>4. real' = (w + (a + s)) % WeekMsec
    BY <2>2, <2>3
  <2> QED
    BY <2>4 DEF SntpWas
<1>7. Counted(a + s)'
  BY <1>3, <1>4, <1>5 DEF Counted
<1>8. timeIsValid' => Known(a + s)'
  BY <1>1, <1>6
<1> QED
  BY <1>2, <1>7, <1>8 DEF Timed

\* Taking the counter together with a system time that is right.
LEMMA TakenTimed ==
  ASSUME TypeOK, mSecLastSNTP' = count, age' = 0, wrapped' = FALSE, UNCHANGED <<real, count>>,
         timeIsValid' => \E ago \in Gap : sntp' = LocalTime(((real - ago) % WeekMsec) \div Second)
  PROVE  Timed'
<1>1. Counted(0)'
  <2>1. Min({0, CapAge}) = 0
    BY Ranges, MinTwo
  <2>2. count + 0 \in 0 .. Wrap - 1 /\ count + 0 = count
    BY DEF TypeOK
  <2>3. (count + 0) % Wrap = count
    BY <2>2, Ranges, ModSame
  <2>4. ~(count + 0 >= Wrap)
    BY <2>2, Ranges
  <2>5. wrapped' <=> mSecLastSNTP' + 0 >= Wrap
    BY <2>4, Zenon
  <2> QED
    BY <2>1, <2>3, <2>5 DEF Counted
<1>2. timeIsValid' => Known(0)'
  <2> SUFFICES ASSUME timeIsValid' PROVE Known(0)'
    OBVIOUS
  <2>1. PICK ago \in Gap : sntp' = LocalTime(((real - ago) % WeekMsec) \div Second)
    OBVIOUS
  <2> DEFINE x == real - ago
             m == x % WeekMsec
             r == m \div Second
             w == m + ago
  <2>2. /\ x \in Int /\ ago \in Int /\ ago \in 0 .. Second - 1 /\ x + ago = real
        /\ real \in 0 .. WeekMsec - 1 /\ WeekMsec \in Nat \ {0} /\ Second \in Nat \ {0}
    BY GapType, Ranges DEF TypeOK
  <2>3. sntp' = LocalTime(r)
    BY <2>1
  <2> HIDE DEF x
  <2>4. m \in 0 .. WeekMsec - 1 /\ (m + ago) % WeekMsec = (x + ago) % WeekMsec
    BY <2>2, DivMod, ModPlus
  <2>5. real = (m + ago) % WeekMsec
    BY <2>2, <2>4, ModSame
  <2>6. m \in Nat
    BY <2>2, <2>4
  <2> HIDE DEF m
  <2>7. r \in 0 .. WeekSec - 1
    BY <2>2, <2>4, Ranges, DivWithin DEF WeekMsec
  <2>8. m % Second \in 0 .. Second - 1 /\ m = Second * r + (m % Second) /\ r \in Int
    BY <2>2, <2>6, DivMod
  <2>9. w - r * Second = (m % Second) + ago
    <3> HIDE DEF r
    <3>1. r * Second = Second * r /\ r * Second \in Int
      BY <2>2, <2>8
    <3> QED
      BY <2>2, <2>8, <3>1
  <2>a. TakenAt(r, w)
    BY <2>2, <2>8, <2>9 DEF TakenAt
  <2>b. w \in Nat /\ w + 0 = m + ago
    BY <2>2, <2>6
  <2> HIDE DEF r, w
  <2>c. PICK r0 \in 0 .. WeekSec - 1 : r0 = r
    BY <2>7
  <2>d. PICK w0 \in Nat : w0 = w
    BY <2>b
  <2>e. real' = (w0 + 0) % WeekMsec
    BY <2>5, <2>b, <2>d
  <2>f. SntpWas(r0, w0, 0)'
    BY <2>3, <2>a, <2>c, <2>d, <2>e DEF SntpWas
  <2> QED
    BY <2>f DEF Known
<1> QED
  BY <1>1, <1>2 DEF Timed

LEMMA SameTimed ==
  ASSUME Timed, UNCHANGED <<env, sntp, mSecLastSNTP>>, timeIsValid' => timeIsValid
  PROVE  Timed'
<1>1. PICK a \in Nat : Counted(a) /\ (timeIsValid => Known(a))
  BY DEF Timed
<1>2. Counted(a)'
  BY <1>1 DEF Counted, env
<1>3. timeIsValid' => Known(a)'
  BY <1>1 DEF Known, SntpWas, env
<1> QED
  BY <1>2, <1>3 DEF Timed

LEMMA TimedStep ==
  ASSUME TypeOK, FromServer, Timed, [Next]_vars
  PROVE  Timed'
<1>1. CASE SntpReply
  BY <1>1, SameTimed DEF SntpReply, green
<1>2. ASSUME NEW s \in PassTime, Update_time(s) PROVE Timed'
  <2>1. s \in Nat /\ Elapse(s) /\ UNCHANGED <<sntp, timeIsValid, mSecLastSNTP>>
    BY <1>2, ClockAssumption DEF Update_time, green
  <2> QED
    BY <2>1, ElapseTimed
<1>3. CASE PollAnswered
  BY <1>3, SameTimed DEF PollAnswered, green
<1>4. CASE PollPending
  <2>1. UNCHANGED <<sntp, timeIsValid, mSecLastSNTP>>
    BY <1>4 DEF PollPending, green
  <2>2. CASE retry' < RetryCount
    <3>1. Elapse(RetryWait) /\ RetryWait \in Nat
      BY <1>4, <2>2, ClockAssumption DEF PollPending
    <3> QED
      BY <2>1, <3>1, ElapseTimed
  <2>3. CASE ~(retry' < RetryCount)
    <3>1. UNCHANGED env
      BY <1>4, <2>3 DEF PollPending
    <3> QED
      BY <2>1, <3>1, SameTimed
  <2> QED
    BY <2>2, <2>3
<1>5. CASE ReadTime
  <2>1. CASE caller = "again" \/ Passed
    <3>1. mSecLastSNTP' = count /\ age' = 0 /\ wrapped' = FALSE /\ UNCHANGED <<real, count>>
      BY <1>5, <2>1 DEF ReadTime
    <3>2. timeIsValid' =>
            \E ago \in Gap : sntp' = LocalTime(((real - ago) % WeekMsec) \div Second)
      <4>1. pc = "read" /\ \E ago \in Gap : sntp' = LocalTime(SystemTime(ago))
        BY <1>5 DEF ReadTime, ReadFields
      <4>2. timeIsValid' => timeIsValid \/ Passed
        BY <1>5 DEF ReadTime
      <4>3. timeIsValid' => rtcSet
        BY <4>1, <4>2 DEF FromServer
      <4> QED
        BY <4>1, <4>3 DEF SystemTime
    <3> QED
      BY <3>1, <3>2, TakenTimed
  <2>2. CASE ~(caller = "again" \/ Passed)
    <3>1. timeIsValid' = FALSE /\ UNCHANGED <<real, count, mSecLastSNTP, age>>
      BY <1>5, <2>2 DEF ReadTime, TypeOK
    <3>2. wrapped' <=> wrapped
      BY <1>5, <2>2 DEF ReadTime
    <3>3. PICK a \in Nat : Counted(a)
      BY DEF Timed
    <3>4. Counted(a)'
      BY <3>1, <3>2, <3>3 DEF Counted
    <3> QED
      BY <3>1, <3>4 DEF Timed
  <2> QED
    BY <2>1, <2>2
<1>6. CASE Check
  BY <1>6, SameTimed DEF Check, green
<1>7. CASE ShowTime
  BY <1>7, SameTimed DEF ShowTime
<1>8. CASE UNCHANGED vars
  BY <1>8, SameTimed DEF vars, green
<1> QED
  BY <1>1, <1>2, <1>3, <1>4, <1>5, <1>6, <1>7, <1>8 DEF Next, App

LEMMA TimedInit == Init => Timed /\ Displayed
<1> SUFFICES ASSUME Init PROVE Timed /\ Displayed
  OBVIOUS
<1>1. Counted(0)
  <2>1. Min({0, CapAge}) = 0
    BY Ranges, MinTwo
  <2>2. (0 + 0) % Wrap = 0 /\ ~(0 + 0 >= Wrap)
    BY Ranges, ModSame
  <2> QED
    BY <2>1, <2>2, Zenon DEF Init, Counted
<1>2. Timed
  BY <1>1 DEF Timed, Init
<1>3. Displayed
  BY Ranges DEF Init, Displayed
<1> QED
  BY <1>2, <1>3

LEMMA DisplayedStep ==
  ASSUME TypeOK, Timed, Displayed, [Next]_vars
  PROVE  Displayed'
<1>1. CASE SntpReply
  BY <1>1 DEF SntpReply, env, Displayed
<1>2. ASSUME NEW s \in PassTime, Update_time(s) PROVE Displayed'
  BY <1>2 DEF Update_time, CallSntp, Displayed
<1>3. CASE PollAnswered
  BY <1>3 DEF PollAnswered, Displayed
<1>4. CASE PollPending
  BY <1>4 DEF PollPending, Displayed
<1>5. CASE ReadTime
  <2>1. pc' = "check" \/ (pc' = "show" /\ age' = 0)
    <3>1. CASE caller = "first"
      BY <1>5, <3>1 DEF ReadTime
    <3>2. CASE caller = "again"
      BY <1>5, <3>2 DEF ReadTime
    <3> QED
      BY <3>1, <3>2 DEF TypeOK
  <2> QED
    BY <2>1, Ranges DEF Displayed
<1>6. CASE Check
  <2>1. pc' # "loop" /\ UNCHANGED <<age, wrapped>>
    BY <1>6 DEF Check, CallSntp, env
  <2>2. ASSUME pc' = "show", ~wrapped PROVE age <= Interval
    <3>1. ~ResyncDue
      BY <1>6, <2>2 DEF Check, CallSntp
    <3>2. PICK a \in Nat : Counted(a)
      BY DEF Timed
    <3>3. mSecLastSNTP + a < Wrap /\ mSecLastSNTP \in Nat /\ count = (mSecLastSNTP + a) % Wrap
      BY <2>2, <3>2, Ranges DEF Counted, TypeOK
    <3>4. count = mSecLastSNTP + a
      <4>1. mSecLastSNTP + a \in 0 .. Wrap - 1
        BY <3>3, Ranges
      <4> QED
        BY <3>3, <4>1, Ranges, ModSame
    <3>5. (mSecLastSNTP + Interval) % Wrap <= mSecLastSNTP + Interval
      BY <3>3, Ranges, ModLeq
    <3>6. a <= Interval
      <4> DEFINE x == (mSecLastSNTP + Interval) % Wrap
      <4>1. x \in Int /\ x <= mSecLastSNTP + Interval /\ ~(count > x)
        BY <3>1, <3>3, <3>5, Ranges, ModLeq DEF ResyncDue
      <4> HIDE DEF x
      <4> QED
        BY <3>3, <3>4, <4>1, Ranges
    <3>7. age <= a
      <4>1. age = Min({a, CapAge})
        BY <3>2 DEF Counted
      <4> QED
        BY <4>1, Ranges, MinTwo
    <3> QED
      BY <3>6, <3>7, Ranges DEF TypeOK
  <2> QED
    BY <2>1, <2>2 DEF Displayed
<1>7. CASE ShowTime
  <2>1. /\ pc = "show" /\ show' = Shown
        /\ UNCHANGED <<age, wrapped, count, mSecLastSNTP, sntp>>
    BY <1>7 DEF ShowTime, env
  <2>2. Shown' = Shown
    BY <2>1 DEF Shown, secCount
  <2> QED
    BY <2>1, <2>2 DEF Displayed
<1>8. CASE UNCHANGED vars
  BY <1>8 DEF vars, env, green, Displayed, Shown, secCount
<1> QED
  BY <1>1, <1>2, <1>3, <1>4, <1>5, <1>6, <1>7, <1>8 DEF Next, App

\* The inductive invariant.
ClockInv ==
  TypeOK /\ Polling /\ FromServer /\ Timed /\ Displayed

LEMMA ClockInvariant == Spec => []ClockInv
<1>1. Init => ClockInv
  BY TypeInit, FromServerInit, TimedInit DEF ClockInv
<1>2. ClockInv /\ [Next]_vars => ClockInv'
  BY TypeStep, FromServerStep, TimedStep, DisplayedStep DEF ClockInv
<1> QED
  BY <1>1, <1>2, PTL DEF Spec

\* While the counter does not wrap around no pass ends with an SNTP time older
\* than the interval, for every interval and however long the passes take.
THEOREM ResyncOnTimeAlways == Spec => []ResyncOnTime
<1>1. ClockInv => ResyncOnTime
  BY DEF ClockInv, Displayed, ResyncOnTime
<1> QED
  BY <1>1, ClockInvariant, PTL

-----------------------------------------------------------------------------
(* The hands                                                               *)

\* The seconds update_time takes from the counter are the whole ones of those
\* that went by.
LEMMA SecCountIs ==
  ASSUME TypeOK, NEW a \in Nat, Counted(a), Countable
  PROVE  a = age /\ secCount = a \div Second /\ a \div Second \in Nat
<1>1. a = age /\ a < Wrap \div 2 /\ a \in 0 .. Wrap - 1
  <2>1. age = IF a < CapAge THEN a ELSE CapAge
    BY Ranges, MinTwo DEF Counted
  <2>2. age < Wrap \div 2 /\ CapAge >= Wrap \div 2 /\ Wrap \div 2 \in Nat /\ Wrap \div 2 <= Wrap
    BY Ranges, ClockAssumption DEF Countable
  <2>3. a = age
    BY <2>1, <2>2, Ranges
  <2>4. a < Wrap
    BY <2>2, <2>3, Ranges
  <2> QED
    BY <2>2, <2>3, <2>4, Ranges
<1>2. (count - mSecLastSNTP) % Wrap = a
  <2> DEFINE x == mSecLastSNTP + a
             m == -mSecLastSNTP
  <2>1. x \in Int /\ m \in Int /\ Wrap \in Nat \ {0} /\ count = x % Wrap
    BY Ranges DEF TypeOK, Counted
  <2>2. x + m = a /\ count + m = count - mSecLastSNTP
    BY DEF TypeOK
  <2> HIDE DEF x, m
  <2>3. (count + m) % Wrap = (x + m) % Wrap
    BY <2>1, ModPlus, Zenon
  <2>4. a % Wrap = a
    BY <1>1, <2>1, ModSame
  <2> QED
    BY <2>2, <2>3, <2>4
<1>3. ~(a >= Wrap \div 2)
  BY <1>1, Ranges
<1>4. Signed(count - mSecLastSNTP) = a
  BY <1>2, <1>3 DEF Signed
<1>5. CDiv(a, Second) = a \div Second /\ a \div Second \in Nat
  BY Ranges, DivNat DEF CDiv
<1> QED
  BY <1>1, <1>4, <1>5 DEF secCount

\* What is shown a seconds after a resync at time r.
SecShown(r, a) == ((r % 60) + a) % 60
MinShown(r, a) == (((r \div 60) % 60) + (((r % 60) + a) \div 60)) % 60
HourShown(r, a) == (((r \div 3600) % 24) + (((r % 60) + a) \div 3600)) % 24

\* The second shown is s seconds after r, and one of the last ones.
Shows(r, s) ==
  /\ show.sec = SecShown(r, s)
  /\ show.min = MinShown(r, s)
  /\ show.hour = HourShown(r, s)
  /\ show.day = r \div OneDay

\* Counting in units of k, a remainder by n * k is one by n.
LEMMA DivOfMod ==
  ASSUME NEW y \in Int, NEW k \in Nat \ {0}, NEW n \in Nat \ {0}, NEW q \in Int,
         NEW h \in 0 .. k - 1, y = k * q + h
  PROVE  (y % (n * k)) \div k = q % n
<1> DEFINE p == q \div n
           t == q % n
           m == k * t + h
<1>1. p \in Int /\ t \in 0 .. n - 1 /\ q = n * p + t
  BY DivMod
<1> HIDE DEF p, t
<1>2. n * k \in Nat \ {0} /\ m \in 0 .. n * k - 1
  <2>1. n * k \in Nat \ {0}
    OBVIOUS
  <2>2. k * t >= 0 /\ k * t <= k * (n - 1)
    BY <1>1
  <2>3. k * (n - 1) = n * k - k /\ k * t \in Int
    BY <1>1
  <2> QED
    BY <2>1, <2>2, <2>3
<1>3. y = (n * k) * p + m
  <2>1. k * (n * p + t) = k * (n * p) + k * t
    BY <1>1, MulAdd
  <2>2. k * (n * p) = (n * k) * p
    BY <1>1
  <2>3. (n * k) * p \in Int /\ k * t \in Int
    BY <1>1
  <2>4. k * q = k * (n * p + t)
    BY <1>1
  <2> QED
    BY <2>1, <2>2, <2>3, <2>4
<1>4. y % (n * k) = m
  <2> DEFINE nk == n * k
  <2>1. nk \in Nat \ {0} /\ m \in 0 .. nk - 1 /\ y = nk * p + m
    BY <1>2, <1>3
  <2> HIDE DEF nk, m
  <2>2. y % nk = m
    BY <1>1, <2>1, ModIs
  <2> QED
    BY <2>2 DEF nk
<1>5. m \div k = t
  <2> DEFINE d == m \div k
             e == m % k
  <2>1. m \in Int
    BY <1>2
  <2>2. d \in Int /\ e \in 0 .. k - 1 /\ m = k * d + e
    <3> HIDE DEF m
    <3> QED
      BY <2>1, DivMod
  <2> HIDE DEF d, e
  <2>3. k * d + e = k * t + h /\ t \in Int
    BY <1>1, <2>2
  <2>4. k * (d - t) = h - e
    BY <1>1, <2>2, <2>3
  <2>5. d - t = 0
    <3>1. CASE d - t >= 1
      <4>1. k * (d - t) >= k
        BY <2>2, <2>3, <3>1
      <4> QED
        BY <2>2, <2>4, <4>1
    <3>2. CASE d - t <= -1
      <4>1. k * (d - t) <= -k
        BY <2>2, <2>3, <3>2
      <4> QED
        BY <2>2, <2>4, <4>1
    <3> QED
      BY <2>2, <2>3, <3>1, <3>2
  <2> QED
    BY <2>2, <2>3, <2>5 DEF d
<1> QED
  BY <1>4, <1>5 DEF t

\* The fractions of a second that are lost make at most two whole ones.
LEMMA LagIs ==
  ASSUME NEW r \in 0 .. WeekSec - 1, NEW w \in Nat, TakenAt(r, w), NEW a \in Nat,
         real = (w + a) % WeekMsec
  PROVE  \E c \in Lag : SecondAgo(c) = (r + (a \div Second)) % WeekSec
<1> DEFINE s == a \div Second
           g == a % Second
           f == w - r * Second
           v == f + g
           c == v \div Second
           h == v % Second
           q == r + (s + c)
           y == w + a
<1>1. /\ Second \in Nat \ {0} /\ WeekSec \in Nat \ {0} /\ r \in Nat /\ r * Second \in Nat
      /\ r * Second = Second * r
  BY Ranges
<1>2. s \in Nat /\ g \in 0 .. Second - 1 /\ a = Second * s + g
  <2>1. a \in Int
    OBVIOUS
  <2>2. s \in Nat
    BY <1>1, DivNat
  <2> QED
    BY <1>1, <2>1, <2>2, DivMod, Zenon
<1>3. f \in 0 .. 2 * Second - 2 /\ w = Second * r + f
  BY <1>1 DEF TakenAt
<1> HIDE DEF s, g, f
<1>4. v \in 0 .. 3 * Second - 3 /\ v \in Nat
  BY <1>1, <1>2, <1>3
<1> HIDE DEF v
<1>5. c \in Nat /\ h \in 0 .. Second - 1 /\ v = Second * c + h
  <2>1. v \in Int
    BY <1>4
  <2>2. c \in Nat
    BY <1>1, <1>4, DivNat
  <2> QED
    BY <1>1, <2>1, <2>2, DivMod, Zenon
<1> HIDE DEF c, h
<1>6. c \in Lag
  <2> SUFFICES ASSUME c >= 3 PROVE FALSE
    BY <1>5 DEF Lag
  <2>1. Second * c >= Second * 3
    BY <1>1, <1>5
  <2>2. Second * c \in Nat
    BY <1>1, <1>5
  <2> QED
    BY <1>1, <1>4, <1>5, <2>1, <2>2
<1>7. y \in Int /\ q \in Int /\ y = Second * q + h
  <2>1. Second * (r + (s + c)) = Second * r + (Second * s + Second * c)
    BY <1>1, <1>2, <1>5, MulAdd
  <2>2. Second * r \in Int /\ Second * s \in Int /\ Second * c \in Int
    BY <1>1, <1>2, <1>5
  <2>3. f + g = Second * c + h
    BY <1>5 DEF v
  <2> QED
    BY <1>1, <1>2, <1>3, <1>5, <2>1, <2>2, <2>3
<1> HIDE DEF y
<1>8. real \div Second = q % WeekSec
  <2>1. real = y % (WeekSec * Second)
    BY DEF y, WeekMsec
  <2> HIDE DEF q
  <2> QED
    BY <1>1, <1>5, <1>7, <2>1, DivOfMod
<1>9. SecondAgo(c) = (r + s) % WeekSec
  <2> DEFINE m == -c
  <2>1. m \in Int /\ q + m = r + s
    BY <1>1, <1>2, <1>5
  <2>2. SecondAgo(c) = ((q % WeekSec) + m) % WeekSec
    <3>1. (q % WeekSec) \in Int
      BY <1>1, <1>7
    <3> HIDE DEF q
    <3>2. (q % WeekSec) - c = (q % WeekSec) + m
      BY <1>5, <3>1
    <3> HIDE DEF m
    <3> QED
      BY <1>8, <3>2 DEF SecondAgo
  <2> HIDE DEF q, m
  <2>3. ((q % WeekSec) + m) % WeekSec = (q + m) % WeekSec
    BY <1>1, <1>7, <2>1, ModPlus, Zenon
  <2> QED
    BY <2>1, <2>2, <2>3
<1> QED
  BY <1>6, <1>9 DEF s

\* What a pass leaves on show.
LEMMA OnAirShows ==
  ASSUME ClockInv, OnAir, Countable
  PROVE  \E r \in 0 .. WeekSec - 1 :
           /\ Shows(r, age \div Second)
           /\ \E c \in Lag : SecondAgo(c) = (r + (age \div Second)) % WeekSec
<1>1. TypeOK /\ Timed /\ show = Shown /\ timeIsValid
  BY DEF ClockInv, OnAir, Displayed
<1>2. PICK a \in Nat : Counted(a) /\ Known(a)
  BY <1>1 DEF Timed
<1>3. PICK r \in 0 .. WeekSec - 1, w \in Nat : SntpWas(r, w, a)
  BY <1>2 DEF Known
<1> DEFINE s == age \div Second
<1>4. a = age /\ secCount = s /\ s \in Nat
  BY <1>1, <1>2, SecCountIs
<1>5. sntp = LocalTime(r) /\ TakenAt(r, w) /\ real = (w + a) % WeekMsec
  BY <1>3 DEF SntpWas
<1>l. \E c \in Lag : SecondAgo(c) = (r + s) % WeekSec
  <2>1. \E c \in Lag : SecondAgo(c) = (r + (a \div Second)) % WeekSec
    BY <1>5, LagIs
  <2> QED
    BY <1>4, <2>1
<1> HIDE DEF s
<1>6. /\ sntp.sec = r % 60 /\ sntp.min = (r \div 60) % 60
      /\ sntp.hour = (r \div 3600) % 24 /\ sntp.day = r \div OneDay
  BY <1>5, LocalTimeType
<1>7. r \in Nat
  BY Ranges
<1>8. /\ sntp.sec + s \in Nat /\ (sntp.sec + s) \div 60 \in Nat
      /\ (sntp.sec + s) \div 3600 \in Nat
      /\ sntp.min + ((sntp.sec + s) \div 60) \in Nat
      /\ sntp.hour + ((sntp.sec + s) \div 3600) \in Nat
  BY <1>4, <1>6, <1>7
<1>9. /\ CMod(sntp.sec + s, 60) = (sntp.sec + s) % 60
      /\ CDiv(sntp.sec + s, 60) = (sntp.sec + s) \div 60
      /\ CDiv(sntp.sec + s, 3600) = (sntp.sec + s) \div 3600
  BY <1>8, CNatural
<1>10. /\ CMod(sntp.min + ((sntp.sec + s) \div 60), 60)
            = (sntp.min + ((sntp.sec + s) \div 60)) % 60
       /\ CMod(sntp.hour + ((sntp.sec + s) \div 3600), 24)
            = (sntp.hour + ((sntp.sec + s) \div 3600)) % 24
  BY <1>8, CNatural
<1>11. /\ show.sec = CMod(sntp.sec + s, 60)
       /\ show.min = CMod(sntp.min + CDiv(sntp.sec + s, 60), 60)
       /\ show.hour = CMod(sntp.hour + CDiv(sntp.sec + s, 3600), 24)
       /\ show.day = sntp.day
  BY <1>1, <1>4 DEF Shown
<1>12. show.sec = SecShown(r, s)
  BY <1>6, <1>9, <1>11 DEF SecShown
<1>13. show.min = MinShown(r, s)
  BY <1>6, <1>9, <1>10, <1>11 DEF MinShown
<1>14. show.hour = HourShown(r, s)
  BY <1>6, <1>9, <1>10, <1>11 DEF HourShown
<1>15. show.day = r \div OneDay
  BY <1>6, <1>11
<1>16. Shows(r, s)
  BY <1>12, <1>13, <1>14, <1>15 DEF Shows
<1> QED
  BY <1>16, <1>l, Zenon DEF s

\* Within the week, days are what the time of the week differs by.
LEMMA WholeDays ==
  ASSUME NEW x \in Int
  PROVE  \E z \in Int : x % WeekSec = x - OneDay * z
<1> DEFINE n == WeekSec
           m == x % n
<1>1. n \in Nat \ {0}
  BY Ranges
<1> HIDE DEF n
<1>2. \E q \in Int : m \in Int /\ x = n * q + m
  <2>1. x \div n \in Int /\ m \in 0 .. n - 1 /\ x = n * (x \div n) + m
    BY <1>1, DivMod
  <2>2. m \in Int
    BY <1>1, <2>1
  <2> QED
    BY <2>1, <2>2
<1> HIDE DEF m
<1> PICK q \in Int : m \in Int /\ x = n * q + m
  BY <1>2
<1>3. n * q = OneDay * (Week * q) /\ Week * q \in Int
  BY Ranges, DayLength DEF n
<1>4. m = x - OneDay * (Week * q)
  <2>1. OneDay * (Week * q) \in Int /\ x = OneDay * (Week * q) + m
    BY <1>3, Ranges
  <2> QED
    BY <2>1
<1> QED
  BY <1>3, <1>4 DEF m, n

LEMMA SecArith ==
  ASSUME NEW r \in Nat, NEW a \in Nat, NEW z \in Int, NEW x, x = (r + a) - OneDay * z
  PROVE  SecShown(r, a) = x % 60
BY DEF OneDay, SecShown

LEMMA MinArith ==
  ASSUME NEW r \in Nat, NEW a \in Nat, NEW z \in Int, NEW x, x = (r + a) - OneDay * z
  PROVE  MinShown(r, a) = (x \div 60) % 60
BY DEF OneDay, MinShown

LEMMA HoursApart ==
  ASSUME NEW x \in Nat, NEW y \in Nat, x <= y, y < x + 3600
  PROVE  y \div 3600 = x \div 3600 \/ y \div 3600 = (x \div 3600) + 1
OBVIOUS

LEMMA HourArith ==
  ASSUME NEW r \in Nat, NEW a \in Nat, NEW z \in Int, NEW x, x = (r + a) - OneDay * z
  PROVE  (((x \div 3600) % 24) - HourShown(r, a)) % 24 \in {0, 1}
<1> DEFINE h == r \div 3600
           u == r % 3600
           p == (u + a) \div 3600
           q == ((r % 60) + a) \div 3600
<1>1. /\ h \in Nat /\ u \in Nat /\ u < 3600 /\ r = 3600 * h + u
      /\ r % 60 \in Nat /\ r % 60 < 60
  OBVIOUS
<1>2. r % 60 <= u /\ u - (r % 60) < 3600
  BY <1>1
<1>3. p \in Nat /\ q \in Nat /\ (p = q \/ p = q + 1)
  <2> DEFINE v == (r % 60) + a
             y == u + a
  <2>1. v \in Nat /\ y \in Nat /\ v <= y /\ y < v + 3600
    BY <1>1, <1>2
  <2> HIDE DEF v, y
  <2>2. y \div 3600 \in Nat /\ v \div 3600 \in Nat
    BY <2>1
  <2>3. y \div 3600 = v \div 3600 \/ y \div 3600 = (v \div 3600) + 1
    BY <2>1, HoursApart
  <2> QED
    BY <2>2, <2>3 DEF v, y
<1>4. x \div 3600 = h + p - 24 * z
  BY <1>1 DEF OneDay
<1> HIDE DEF h, u, p, q
<1>5. (((h + p - 24 * z) % 24) - (((h % 24) + q) % 24)) % 24 \in {0, 1}
  <2>1. CASE p = q
    BY <1>1, <1>3, <2>1
  <2>2. CASE p = q + 1
    BY <1>1, <1>3, <2>2
  <2> QED
    BY <1>3, <2>1, <2>2
<1>6. HourShown(r, a) = ((h % 24) + q) % 24
  BY DEF HourShown, h, q
<1> QED
  BY <1>4, <1>5, <1>6

LEMMA AgoFields ==
  ASSUME TypeOK, NEW c \in Lag
  PROVE  /\ SecondAgo(c) \in Nat
         /\ LocalTime(SecondAgo(c)).sec = SecondAgo(c) % 60
         /\ LocalTime(SecondAgo(c)).min = (SecondAgo(c) \div 60) % 60
         /\ LocalTime(SecondAgo(c)).hour = (SecondAgo(c) \div 3600) % 24
         /\ LocalTime(SecondAgo(c)).day = SecondAgo(c) \div OneDay
<1> DEFINE x == (real \div Second) - c
<1>1. x \in Int
  BY Ranges DEF TypeOK, Lag
<1> HIDE DEF x
<1>2. x % WeekSec \in 0 .. WeekSec - 1 /\ SecondAgo(c) = x % WeekSec
  BY <1>1, Ranges, DivMod DEF x, SecondAgo
<1>3. SecondAgo(c) \in 0 .. WeekSec - 1 /\ SecondAgo(c) \in Nat
  BY <1>2, Ranges
<1> QED
  BY <1>3, LocalTimeType

\* The moment the hands show, in seconds since the SNTP time was r.
LEMMA MomentShown ==
  ASSUME ClockInv, OnAir, Countable
  PROVE  \E r \in 0 .. WeekSec - 1, s \in Nat, c \in Lag, z \in Int :
           /\ r \in Nat /\ s = age \div Second /\ Shows(r, s)
           /\ SecondAgo(c) = (r + s) % WeekSec
           /\ SecondAgo(c) = (r + s) - OneDay * z
<1> DEFINE s == age \div Second
<1>1. s \in Nat
  BY Ranges, DivNat DEF ClockInv, TypeOK
<1>2. PICK r \in 0 .. WeekSec - 1 :
        Shows(r, s) /\ \E c \in Lag : SecondAgo(c) = (r + s) % WeekSec
  BY OnAirShows
<1>3. PICK c \in Lag : SecondAgo(c) = (r + s) % WeekSec
  BY <1>2
<1> HIDE DEF s
<1>4. r \in Nat /\ r + s \in Int
  BY <1>1, Ranges
<1>5. PICK z \in Int : (r + s) % WeekSec = (r + s) - OneDay * z
  BY <1>4, WholeDays
<1>6. SecondAgo(c) = (r + s) - OneDay * z
  BY <1>3, <1>5, Zenon
<1> QED
  BY <1>1, <1>2, <1>3, <1>4, <1>6, Zenon DEF s

\* The minutes and the seconds update_time shows are those of one of the last
\* seconds, for every counter and every wrap-around of it, up to half its
\* range without a resync.
THEOREM MinuteHandLagsAlways == Spec => []MinuteHandLags
<1>1. ClockInv => MinuteHandLags
  <2> SUFFICES ASSUME ClockInv, OnAir, Countable
               PROVE  \E c \in Lag : /\ show.min = LocalTime(SecondAgo(c)).min
                                     /\ show.sec = LocalTime(SecondAgo(c)).sec
    BY DEF MinuteHandLags
  <2>1. PICK r \in 0 .. WeekSec - 1, s \in Nat, c \in Lag, z \in Int :
          /\ r \in Nat /\ Shows(r, s)
          /\ SecondAgo(c) = (r + s) - OneDay * z
    BY MomentShown
  <2>4. show.sec = SecondAgo(c) % 60
    BY <2>1, SecArith DEF Shows
  <2>5. show.min = (SecondAgo(c) \div 60) % 60
    BY <2>1, MinArith DEF Shows
  <2> QED
    BY <2>4, <2>5, AgoFields DEF ClockInv
<1> QED
  BY <1>1, ClockInvariant, PTL

\* The hour shown is that of one of the last seconds or one hour behind, under
\* the same conditions.
THEOREM HourLagsAtMostOneAlways == Spec => []HourLagsAtMostOne
<1>1. ClockInv => HourLagsAtMostOne
  <2> SUFFICES ASSUME ClockInv, OnAir, Countable
               PROVE  \E c \in Lag : (LocalTime(SecondAgo(c)).hour - show.hour) % 24 \in {0, 1}
    BY DEF HourLagsAtMostOne
  <2>1. PICK r \in 0 .. WeekSec - 1, s \in Nat, c \in Lag, z \in Int :
          /\ r \in Nat /\ Shows(r, s)
          /\ SecondAgo(c) = (r + s) - OneDay * z
    BY MomentShown
  <2>4. (((SecondAgo(c) \div 3600) % 24) - show.hour) % 24 \in {0, 1}
    BY <2>1, HourArith DEF Shows
  <2> QED
    BY <2>4, AgoFields DEF ClockInv
<1> QED
  BY <1>1, ClockInvariant, PTL

\* The day is that of time x, or the one before if less than a seconds of the
\* day of x are gone.
DayBehind(day, x, a) ==
  \/ day = x \div OneDay
  \/ /\ ((x \div OneDay) - day) % Week = 1
     /\ x % OneDay < a

\* Days, with the week starting anew.
LEMMA DayArith ==
  ASSUME NEW r \in 0 .. WeekSec - 1, NEW a \in Nat, a < OneDay
  PROVE  DayBehind(r \div OneDay, (r + a) % WeekSec, a)
<1> DEFINE n == WeekSec
           y == r + a
           x == y % n
           d == r \div OneDay
           u == r % OneDay
<1>1. OneDay = 86400 /\ Week \in Nat \ {0}
  BY Ranges, DayLength
<1>2. /\ d \in Nat /\ u \in Nat /\ u < 86400 /\ r = 86400 * d + u /\ d <= Week - 1
      /\ a < 86400
  BY <1>1, DayLength
<1>3. n \in Nat \ {0} /\ n = 86400 * Week /\ y \in Nat /\ y = 86400 * d + u + a
  BY <1>1, <1>2, DayLength
<1>4. n \in Nat \ {0} /\ y \in Int
  BY <1>3
<1> HIDE DEF d, u, n, y
<1>5. x \in Int
  BY <1>4, DivMod
<1> SUFFICES \/ d = x \div OneDay
             \/ ((x \div OneDay) - d) % Week = 1 /\ x % OneDay < a
  BY Zenon DEF DayBehind, d, y, n
<1>6. CASE u + a < 86400
  <2>1. y \in 0 .. n - 1
    BY <1>1, <1>2, <1>3, <1>6
  <2>2. x = y
    BY <1>4, <2>1, ModSame
  <2> HIDE DEF x
  <2> QED
    BY <1>1, <1>2, <1>3, <1>6, <2>2
<1>7. CASE u + a >= 86400 /\ d + 1 < Week
  <2>1. y \in 0 .. n - 1
    BY <1>1, <1>2, <1>3, <1>7
  <2>2. x = y
    BY <1>4, <2>1, ModSame
  <2> HIDE DEF x
  <2>3. x \div OneDay = d + 1 /\ x % OneDay = u + a - 86400
    <3> DEFINE v == u + a - 86400
    <3>1. v \in Nat /\ v < 86400 /\ x = 86400 * (d + 1) + v /\ d + 1 \in Nat
      BY <1>2, <1>3, <1>7, <2>2
    <3> HIDE DEF v
    <3>2. x \div 86400 = d + 1 /\ x % 86400 = v
      BY <3>1
    <3> QED
      BY <1>1, <3>2 DEF v
  <2>4. (x \div OneDay) - d = 1 /\ 1 \in 0 .. Week - 1
    BY <1>1, <1>2, <1>7, <2>3
  <2>5. ((x \div OneDay) - d) % Week = 1
    BY <1>1, <2>4, ModSame
  <2>6. x % OneDay < a
    BY <1>2, <2>3
  <2> QED
    BY <2>5, <2>6
<1>8. CASE u + a >= 86400 /\ d + 1 = Week
  <2> DEFINE v == u + a - 86400
  <2>1. v \in 0 .. n - 1 /\ y = n * 1 + v /\ 1 \in Int
    BY <1>1, <1>2, <1>3, <1>8
  <2> HIDE DEF v
  <2>2. x = v
    BY <1>4, <2>1, ModIs
  <2> HIDE DEF x
  <2>3. x \div OneDay = 0 /\ x % OneDay = u + a - 86400
    <3>1. v \in Nat /\ v < 86400
      BY <1>2, <1>8 DEF v
    <3>2. v \div 86400 = 0 /\ v % 86400 = v
      BY <3>1
    <3> QED
      BY <1>1, <2>2, <3>2 DEF v
  <2>4. x % OneDay < a
    BY <1>2, <2>3
  <2>5. CASE Week = 1
    <3>1. d = 0
      BY <1>2, <1>8, <2>5
    <3> QED
      BY <2>3, <3>1
  <2>6. CASE Week > 1
    <3> DEFINE e == (x \div OneDay) - d
    <3>1. e \in Int /\ e = Week * (-1) + 1 /\ -1 \in Int /\ 1 \in 0 .. Week - 1
      BY <1>1, <1>2, <1>8, <2>3, <2>6
    <3> HIDE DEF e
    <3>2. e % Week = 1
      BY <1>1, <3>1, ModIs
    <3> QED
      BY <2>4, <3>2 DEF e
  <2> QED
    BY <1>1, <2>5, <2>6
<1>9. u + a < 86400 \/ (u + a >= 86400 /\ d + 1 < Week) \/ (u + a >= 86400 /\ d + 1 = Week)
  BY <1>1, <1>2
<1> QED
  BY <1>6, <1>7, <1>8, <1>9

\* The week day shown is right, or that of the day before if there was no
\* resync since midnight, for every length of the week.
THEOREM DayLagsAtMostOneAlways == Spec => []DayLagsAtMostOne
<1>1. ClockInv => DayLagsAtMostOne
  <2> SUFFICES ASSUME ClockInv, OnAir, Countable, age < OneDay * Second
               PROVE  \E c \in Lag :
                        \/ show.day = LocalTime(SecondAgo(c)).day
                        \/ /\ (LocalTime(SecondAgo(c)).day - show.day) % Week = 1
                           /\ SecondAgo(c) % OneDay < age \div Second
    BY DEF DayLagsAtMostOne
  <2>1. PICK r \in 0 .. WeekSec - 1, s \in Nat, c \in Lag, z \in Int :
          /\ s = age \div Second /\ Shows(r, s)
          /\ SecondAgo(c) = (r + s) % WeekSec
    BY MomentShown
  <2>2. s < OneDay
    <3>1. age \in 0 .. OneDay * Second - 1 /\ OneDay \in Nat \ {0} /\ Second \in Nat \ {0}
      BY Ranges DEF ClockInv, TypeOK
    <3>2. age \div Second \in 0 .. OneDay - 1
      BY <3>1, DivWithin
    <3> QED
      BY <2>1, <3>1, <3>2
  <2>3. DayBehind(show.day, SecondAgo(c), s)
    BY <2>1, <2>2, DayArith, Zenon DEF Shows
  <2>4. LocalTime(SecondAgo(c)).day = SecondAgo(c) \div OneDay
    BY AgoFields DEF ClockInv
  <2> QED
    BY <2>1, <2>3, <2>4, Zenon DEF DayBehind
<1> QED
  BY <1>1, ClockInvariant, PTL

=============================================================================
