-------------------------------- MODULE Clock --------------------------------
(***************************************************************************)
(* The wall clock of the green house firmware: update_time of update.c and *)
(* sntp_get_time of sntp.c.                                                *)
(*                                                                         *)
(* update_time takes the time of day from SNTP when the controller starts  *)
(* and again about every hour, remembers the millisecond counter at that   *)
(* moment (mSecLastSNTP), and in between adds what the counter has counted *)
(* since.  The counter is a 32-bit unsigned number that wraps around after *)
(* 49.7 days and is copied into signed integers.  sntp_get_time starts the *)
(* SNTP client, polls its status a limited number of times, and reads the  *)
(* system time in any case; the answer of the server may come at any       *)
(* moment in between, also after the last poll.                            *)
(*                                                                         *)
(* Times are in milliseconds, as the counter counts them.  The SNTP fields *)
(* are whole seconds (time), and update_time divides what it has counted   *)
(* by 1000, so two fractions of a second are lost on the way.              *)
(***************************************************************************)
EXTENDS Integers, FiniteSetsExt

CONSTANTS
  Week,        \* days of the week (7)
  Second,      \* milliseconds in a second (1000)
  Wrap,        \* the counter wraps around at this value (2^32)
  Interval,    \* SNTP_UPDATE_INTERVAL_MSEC, one hour
  RetryCount,  \* retry_count of sntp_get_time (15)
  RetryWait,   \* the wait between two polls (2 s)
  PassTime,    \* how long the rest of a pass of app_loop may take
  Gap,         \* how long after time() the counter may be read
  PowerOn,     \* times of the week at which the controller is switched on
  CapAge       \* bound: age is not counted beyond this

OneDay == 24 * 3600

\* Seconds and milliseconds of the week.
WeekSec == Week * OneDay
WeekMsec == WeekSec * Second

\* The counter wraps around after more than twice the interval (49.7 days and
\* an hour), it is read within a second of the time, and ages are told apart
\* up to where the counter turns negative.
ASSUME ClockAssumption ==
  /\ Week \in Nat \ {0} /\ Second \in Nat \ {0}
  /\ Wrap \in Nat /\ Wrap % 2 = 0 /\ Wrap > 2 * Interval
  /\ Interval \in Nat \ {0}
  /\ RetryCount \in Nat \ {0}
  /\ RetryWait \in Nat
  /\ PassTime \subseteq Nat \ {0}
  /\ Gap \subseteq 0 .. Second - 1
  /\ PowerOn \subseteq 0 .. WeekMsec - 1
  /\ CapAge \in Nat /\ CapAge >= Wrap \div 2

VARIABLES
  real,          \* the time it really is: milliseconds since the week began
  count,         \* xTaskGetTickCount() * portTICK_PERIOD_MS
  rtcSet,        \* the system time has been set since power-on
  status,        \* sntp_sync_status of the SNTP client
  sntp,          \* sntpSec, sntpMin, sntpHour, sntpDay of greenHouseInfo
  show,          \* sec, min, hour, day of greenHouseInfo
  timeIsValid,
  mSecLastSNTP,
  pc,            \* where update_time is; "loop" when app_loop is elsewhere
  caller,        \* which of its two calls of sntp_get_time is running
  retry,         \* local variable of sntp_get_time
  age,           \* history: milliseconds since mSecLastSNTP was last taken
  wrapped        \* history: the counter has wrapped around since then

env   == <<real, count, age, wrapped>>
world == <<rtcSet, status>>
green == <<sntp, show, timeIsValid>>
local == <<caller, retry>>
vars  == <<env, world, green, local, pc, mSecLastSNTP>>

Time == [sec : Int, min : Int, hour : Int, day : 0 .. Week - 1]

TypeOK ==
  /\ real \in 0 .. WeekMsec - 1
  /\ count \in 0 .. Wrap - 1
  /\ rtcSet \in BOOLEAN
  /\ status \in {"RESET", "COMPLETED"}
  /\ sntp \in Time
  /\ show \in Time
  /\ timeIsValid \in BOOLEAN
  /\ mSecLastSNTP \in 0 .. Wrap - 1
  /\ pc \in {"loop", "poll", "read", "check", "show"}
  /\ caller \in {"first", "again"}
  /\ retry \in 0 .. RetryCount
  /\ age \in 0 .. CapAge
  /\ wrapped \in BOOLEAN

-----------------------------------------------------------------------------
(* Arithmetic of C and of the library                                      *)

\* Division and remainder of C, which round towards zero.
CDiv(a, b) == IF a >= 0 THEN a \div b ELSE -((-a) \div b)
CMod(a, b) == a - b * CDiv(a, b)

\* A counter value assigned to an int.
Signed(c) == IF c % Wrap >= Wrap \div 2 THEN (c % Wrap) - Wrap ELSE c % Wrap

\* localtime_r, of a time in seconds
LocalTime(t) ==
  [sec  |-> t % 60,
   min  |-> (t \div 60) % 60,
   hour |-> (t \div 3600) % 24,
   day  |-> t \div OneDay]

\* What time() returned some milliseconds ago: whole seconds, right once the
\* system time has been set; else it counts from its epoch.
SystemTime(ago) ==
  (((IF rtcSet THEN real ELSE count) - ago) % WeekMsec) \div Second

Elapse(s) ==
  /\ real' = (real + s) % WeekMsec
  /\ count' = (count + s) % Wrap
  /\ age' = Min({age + s, CapAge})
  /\ wrapped' = (wrapped \/ count + s >= Wrap)

-----------------------------------------------------------------------------
(* sntp_get_time                                                           *)

\* initialize_sntp starts the client.  As the client is configured, this does
\* not clear the status an answer to an earlier call has left behind.
CallSntp(who) ==
  /\ caller' = who
  /\ retry' = 0
  /\ pc' = "poll"

\* The server answers while the client runs: the system time is set.
SntpReply ==
  /\ pc \in {"poll", "read"}
  /\ status' = "COMPLETED"
  /\ rtcSet' = TRUE
  /\ UNCHANGED <<env, green, local, pc, mSecLastSNTP>>

\* sntp_get_sync_status finds an answer, and forgets it.
PollAnswered ==
  /\ pc = "poll" /\ status = "COMPLETED"
  /\ status' = "RESET"
  /\ pc' = "read"
  /\ UNCHANGED <<env, rtcSet, green, local, mSecLastSNTP>>

\* Mutant: the client is polled without end, neither waiting nor counting.
PollSpin ==
  /\ pc = "poll" /\ status = "RESET"
  /\ UNCHANGED vars

\* Mutant: one poll too many.
PollOnceMore ==
  /\ pc = "poll" /\ status = "RESET"
  /\ retry' = retry + 1
  /\ IF retry' <= RetryCount
     THEN Elapse(RetryWait) /\ pc' = pc
     ELSE pc' = "read" /\ UNCHANGED env
  /\ UNCHANGED <<world, green, caller, mSecLastSNTP>>

\* No answer yet: wait and poll again, or give up.
PollPending ==
  /\ pc = "poll" /\ status = "RESET"
  /\ retry' = retry + 1
  /\ IF retry' < RetryCount
     THEN Elapse(RetryWait) /\ pc' = pc
     ELSE pc' = "read" /\ UNCHANGED env
  /\ UNCHANGED <<world, green, caller, mSecLastSNTP>>

\* Mutant: giving up is off by one.
PassedOffByOne == retry # RetryCount + 1

\* What sntp_get_time returns.
Passed == retry # RetryCount

\* Mutant: the week day is not read again.
ReadFieldsOldDay(ago) == [LocalTime(SystemTime(ago)) EXCEPT !.day = sntp.day]

\* The sntp fields as sntp_get_time sets them.
ReadFields(ago) == LocalTime(SystemTime(ago))

\* The system time goes into the sntp fields whether there was an answer or
\* not, and update_time takes the counter: for the first call only when it
\* passed, for the hourly call always.  The time was read a little before the
\* counter; the step is the reading of the counter.  (The locals are reset as
\* they go out of scope.)
ReadTime ==
  LET taken == caller = "again" \/ Passed
  IN /\ pc = "read"
     /\ \E ago \in Gap : sntp' = ReadFields(ago)
     /\ mSecLastSNTP' = IF taken THEN count ELSE mSecLastSNTP
     /\ age' = IF taken THEN 0 ELSE age
     /\ wrapped' = (wrapped /\ ~taken)
     /\ IF caller = "first"
        THEN pc' = "check" /\ timeIsValid' = Passed
        ELSE pc' = "show" /\ UNCHANGED timeIsValid
     /\ caller' = "first" /\ retry' = 0
     /\ UNCHANGED <<real, count, world, show>>

-----------------------------------------------------------------------------
(* update_time                                                             *)

\* The rest of app_loop takes s milliseconds; then update_time starts.
Update_time(s) ==
  /\ pc = "loop"
  /\ Elapse(s)
  /\ IF timeIsValid
     THEN pc' = "check" /\ UNCHANGED local
     ELSE CallSntp("first")
  /\ UNCHANGED <<world, green, mSecLastSNTP>>

\* Mutant: the counter has to hit the interval exactly.
ResyncDueExactly == count = (mSecLastSNTP + Interval) % Wrap

\* The sum of two ints, converted to unsigned and compared with the counter.
ResyncDue == count > (mSecLastSNTP + Interval) % Wrap

Check ==
  /\ pc = "check"
  /\ IF ResyncDue THEN CallSntp("again")
     ELSE pc' = "show" /\ UNCHANGED local
  /\ UNCHANGED <<env, world, green, mSecLastSNTP>>

\* The whole seconds counted since the last SNTP time.
secCount == CDiv(Signed(count - mSecLastSNTP), Second)

\* Mutant: the seconds of the SNTP time are not carried into the minutes.
ShownNoCarry ==
  [sec  |-> CMod(sntp.sec + secCount, 60),
   min  |-> CMod(sntp.min + CDiv(secCount, 60), 60),
   hour |-> CMod(sntp.hour + CDiv(sntp.sec + secCount, 3600), 24),
   day  |-> sntp.day]

\* Mutant: the hours counted since the SNTP time are left out.
ShownSntpHour ==
  [sec  |-> CMod(sntp.sec + secCount, 60),
   min  |-> CMod(sntp.min + CDiv(sntp.sec + secCount, 60), 60),
   hour |-> sntp.hour,
   day  |-> sntp.day]

\* The time of day update_time shows.
Shown ==
  [sec  |-> CMod(sntp.sec + secCount, 60),
   min  |-> CMod(sntp.min + CDiv(sntp.sec + secCount, 60), 60),
   hour |-> CMod(sntp.hour + CDiv(sntp.sec + secCount, 3600), 24),
   day  |-> sntp.day]

ShowTime ==
  /\ pc = "show"
  /\ show' = Shown
  /\ pc' = "loop"
  /\ UNCHANGED <<env, world, sntp, timeIsValid, local, mSecLastSNTP>>

-----------------------------------------------------------------------------
ZeroTime == [sec |-> 0, min |-> 0, hour |-> 0, day |-> 0]

Init ==
  /\ real \in PowerOn
  /\ count = 0
  /\ rtcSet = FALSE
  /\ status = "RESET"
  /\ sntp = ZeroTime
  /\ show = ZeroTime
  /\ timeIsValid = FALSE
  /\ mSecLastSNTP = 0
  /\ pc = "loop"
  /\ caller = "first"
  /\ retry = 0
  /\ age = 0
  /\ wrapped = FALSE

App ==
  \/ \E s \in PassTime : Update_time(s)
  \/ PollAnswered
  \/ PollPending
  \/ ReadTime
  \/ Check
  \/ ShowTime

Next == SntpReply \/ App

Spec == Init /\ [][Next]_vars

\* The app task always runs on: it sleeps, but never waits for anyone.
FairSpec == Spec /\ WF_vars(App)

-----------------------------------------------------------------------------
(* Properties                                                              *)

\* The clock is on the air: a pass is over and the time is marked valid.
OnAir == pc = "loop" /\ timeIsValid

\* sntp_get_time reads the system time even after it has given up, and an
\* answer may come after the last poll; still update_time never marks a time
\* valid that does not come from a server.
ValidMeansSet == timeIsValid => rtcSet

\* While the counter does not wrap around, update_time asks SNTP every hour,
\* also when the server stays silent: no pass ends with an older time.
ResyncOnTime == pc = "loop" /\ ~wrapped => age <= Interval

\* The counter has not counted so far that the difference turns negative.
Countable == age < Wrap \div 2

\* The second of the week it really is, and the one c seconds earlier.
SecondAgo(c) == ((real \div Second) - c) % WeekSec

\* The fractions of a second lost by time(), by the division of the counted
\* milliseconds and between the readings of the two clocks are less than
\* three seconds together.
Lag == 0 .. 2

\* The minute and the second hand are those of one moment of the last two
\* seconds, through every resync and for a counter that has wrapped around,
\* late as the resync may be: the truncations do not add up.
MinuteHandLags ==
  OnAir /\ Countable =>
    \E c \in Lag : /\ show.min = LocalTime(SecondAgo(c)).min
                   /\ show.sec = LocalTime(SecondAgo(c)).sec

\* The hour hand misses the carry from the minutes until a full hour has been
\* counted, so it may be behind that moment, but by no more than one hour.
HourLagsAtMostOne ==
  OnAir /\ Countable =>
    \E c \in Lag : (LocalTime(SecondAgo(c)).hour - show.hour) % 24 \in {0, 1}

\* The week day is that of the last resync: after midnight it may be the day
\* before, but only if there was no resync since midnight.
DayLagsAtMostOne ==
  OnAir /\ Countable /\ age < OneDay * Second =>
    \E c \in Lag :
      \/ show.day = LocalTime(SecondAgo(c)).day
      \/ /\ (LocalTime(SecondAgo(c)).day - show.day) % Week = 1
         /\ SecondAgo(c) % OneDay < age \div Second

\* update_time always comes back to app_loop, server or not.
EveryPassEnds == pc # "loop" ~> pc = "loop"

=============================================================================
