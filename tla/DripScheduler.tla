---------------------------- MODULE DripScheduler ----------------------------
(***************************************************************************)
(* The watering schedule of the green house firmware: update_drip of       *)
(* update.c as app_loop of main.c calls it, with the settings messages and *)
(* manual commands of the MQTT task interleaved, and with restarts.        *)
(*                                                                         *)
(* app_loop runs passes for ever.  A pass takes the time once              *)
(* (update_time) and then, when the time is valid, calls update_drip for   *)
(* drip 0, 1, ... in turn.  update_drip first computes the time the drip   *)
(* is to go off and later compares it with settings it reads again, so the *)
(* two halves are separate steps: a settings message may come in between.  *)
(* dripStatus is one flag per drip, but prevTimeInMin and timeRollOver are *)
(* single static variables that the calls for all drips share.             *)
(*                                                                         *)
(* The schedule goes by the time update_time shows, not by the time it is. *)
(* The hour shown is the hour of the last SNTP time plus the full hours    *)
(* counted since, with no carry from the minutes: the clock that reads     *)
(* 10:20 at a resync goes on to 10:59, then to 10:00 ... 10:19, and then   *)
(* to 11:20.  Module Clock checks that arithmetic in milliseconds, with    *)
(* lost answers and the wrap of the counter; here it is kept in minutes.   *)
(* The time it really is is that of the hands with the carry, which is two *)
(* seconds late at most.  At the wrap, every 49.7 days, update_time may    *)
(* miss a resync.  The next one then comes weeks later: the week day stays *)
(* as it is, and the count goes negative after 24.8 days.  From a missed   *)
(* resync to the next one the model lets the clock show anything.          *)
(*                                                                         *)
(* start_time and duration are minutes: Control_Drip_Start_Time stores     *)
(* hours * 60 + minutes, and update_drip compares with hour * 60 + min.    *)
(* green_house.h calls both of them seconds, and the defaults of init.c    *)
(* (300 and 3600, 7200, 10800) are seconds: taken as minutes they are      *)
(* windows of five hours that open after the end of the day.               *)
(*                                                                         *)
(* The valve pulse inside Control_Drip is one step here; module DripValve  *)
(* takes it apart.                                                         *)
(***************************************************************************)
EXTENDS Integers

CONSTANTS
  DRIP_SYS,    \* number of drip systems
  Start,       \* start times a message may set, in minutes
  Duration,    \* durations a message may set, in minutes
  Days,        \* sets of week days a message may set
  WeekDays,    \* length of the week
  MinPerHour,  \* minutes of an hour (60; fewer for a coarse clock face)
  HoursPerDay, \* hours of a day (24)
  Jump,        \* minutes that may go by from one pass to the next
  Astray,      \* minutes the clock may show after a missed resync
  CapWet,      \* bound: wet is not counted beyond this
  Restarts     \* whether the controller may restart

\* Minutes of a day.
OneDay == MinPerHour * HoursPerDay

ASSUME SchedulerAssumption ==
  /\ DRIP_SYS \in Nat \ {0}
  /\ Start \subseteq Nat /\ Start # {}
  /\ Duration \subseteq Nat /\ Duration # {}
  /\ WeekDays \in Nat \ {0}
  /\ Days \subseteq SUBSET (0 .. WeekDays - 1) /\ Days # {}
  /\ MinPerHour \in Nat \ {0}
  /\ HoursPerDay \in Nat \ {0, 1}
  /\ Jump \subseteq 0 .. MinPerHour - 1 /\ Jump # {}
  /\ Astray \subseteq -(OneDay - 1) .. OneDay - 1 /\ Astray # {}
  /\ CapWet \in Nat
  /\ Restarts \in BOOLEAN

Drip    == 0 .. DRIP_SYS - 1
Setting == [start_time : Start, duration : Duration, days : Days]

VARIABLES
  now,            \* the minute of the day it really is
  today,          \* the week day it really is
  elapsed,        \* minutes counted since the last SNTP time
  day,            \* greenHouseInfo.day, the week day of the last SNTP time
  timeIsValid,    \* greenHouseInfo.timeIsValid
  overdue,        \* a resync has been missed and none has come since
  astray,         \* the minute of the day shown while overdue, else 0
  info,           \* info[d]: start_time, duration and days of dripInfo[d]
  dripStatus,     \* dripStatus[d]: the schedule has the drip on
  prevTimeInMin,
  timeRollOver,
  pc,             \* where app_loop is: "loop", "read" or "decide"
  num,            \* argument of the current call of update_drip
  offTimeInMin,   \* local variable of that call
  wet,            \* wet[d]: minutes since the schedule opened the valve, -1
                  \* when it is closed or a manual command has moved it
  steady          \* history: no restart, no new settings and no missed
                  \* resync since then

clock == <<now, today, elapsed, day, timeIsValid, overdue, astray>>
sched == <<dripStatus, prevTimeInMin, timeRollOver>>
loop  == <<pc, num, offTimeInMin>>
vars  == <<clock, sched, loop, info, wet, steady>>

TypeOK ==
  /\ now \in 0 .. OneDay - 1
  /\ today \in 0 .. WeekDays - 1
  /\ elapsed \in 0 .. MinPerHour
  /\ day \in 0 .. WeekDays - 1
  /\ timeIsValid \in BOOLEAN
  /\ overdue \in BOOLEAN
  /\ astray \in -(OneDay - 1) .. OneDay - 1
  /\ info \in [Drip -> Setting]
  /\ dripStatus \in [Drip -> BOOLEAN]
  /\ prevTimeInMin \in -(OneDay - 1) .. OneDay - 1
  /\ timeRollOver \in BOOLEAN
  /\ pc \in {"loop", "read", "decide"}
  /\ num \in Drip
  /\ offTimeInMin \in 0 .. OneDay - 1
  /\ wet \in [Drip -> -1 .. CapWet]
  /\ steady \in [Drip -> BOOLEAN]

-----------------------------------------------------------------------------
(* app_loop: the time at the start of a pass.                              *)

\* The minute of the day update_time shows e minutes after an SNTP time, when
\* it really is t: the minutes are right, the hour lacks the carry from them.
ShownAt(t, e) ==
  LET sntpHour == ((t - e) % OneDay) \div MinPerHour
      hour     == (sntpHour + (e \div MinPerHour)) % HoursPerDay
  IN (MinPerHour * hour) + (t % MinPerHour)

\* greenHouseInfo.hour * 60 + greenHouseInfo.min of update_drip.
currTimeInMin == IF overdue THEN astray ELSE ShownAt(now, elapsed)

\* An SNTP time is taken, whether the server answers or not: the system time
\* is right once it has been set.
Resync ==
  /\ elapsed' = 0
  /\ day' = today'
  /\ overdue' = FALSE
  /\ astray' = 0

\* A pass that takes no SNTP time, j minutes after the last one.
CountOn(j) ==
  /\ ~overdue /\ elapsed + j <= MinPerHour
  /\ elapsed' = elapsed + j
  /\ UNCHANGED <<day, overdue, astray>>

\* A pass that takes no SNTP time though one is due: the counter has wrapped
\* and is below mSecLastSNTP + SNTP_UPDATE_INTERVAL_MSEC again.
MissResync(j) ==
  /\ overdue \/ elapsed + j >= MinPerHour
  /\ overdue' = TRUE
  /\ astray' \in Astray
  /\ elapsed' = 0
  /\ UNCHANGED day

\* update_time at the start of a pass, j minutes after the last one.  The
\* first SNTP time must be answered; later ones come when more than an hour
\* of seconds has been counted, which is at 60 counted minutes or at 61, or,
\* in the last hour before the counter wraps, at every pass.
Update_time(j) ==
  /\ pc = "loop"
  /\ now' = (now + j) % OneDay
  /\ today' = IF now + j >= OneDay THEN (today + 1) % WeekDays ELSE today
  /\ timeIsValid' \in {timeIsValid, TRUE}
  /\ \/ ~timeIsValid' /\ UNCHANGED <<elapsed, day, overdue, astray>>
     \/ timeIsValid' /\ Resync
     \/ timeIsValid /\ CountOn(j)
     \/ timeIsValid /\ MissResync(j)
  /\ pc' = IF timeIsValid' THEN "read" ELSE "loop"
  /\ num' = 0
  /\ wet' = [d \in Drip |->
               IF wet[d] < 0 THEN -1
               ELSE IF wet[d] + j < CapWet THEN wet[d] + j ELSE CapWet]
  /\ steady' = [d \in Drip |-> steady[d] /\ ~overdue']
  /\ UNCHANGED <<sched, offTimeInMin, info>>

-----------------------------------------------------------------------------
(* update_drip                                                             *)

\* Mutant: the off time is not taken modulo a day.
OffTimeUnbounded(d) == info[d].start_time + info[d].duration

\* The minute of the day at which drip d is to go off.
OffTime(d) == (info[d].start_time + info[d].duration) % OneDay

\* Mutant: midnight goes unnoticed.
RolledOverNever == timeRollOver

\* The clock has passed midnight: this call sees it, or an earlier one did.
RolledOver == timeRollOver \/ currTimeInMin < prevTimeInMin

\* The off time, and whether the clock has passed midnight since the last
\* call, which was for another drip unless there is only one.
ReadTimes ==
  /\ pc = "read"
  /\ offTimeInMin' = OffTime(num)
  /\ timeRollOver' = RolledOver
  /\ pc' = "decide"
  /\ UNCHANGED <<clock, dripStatus, prevTimeInMin, num, info, wet,
                 steady>>

\* update_drip returns and app_loop goes on with the next drip.
EndOfCall ==
  /\ prevTimeInMin' = currTimeInMin
  /\ IF num + 1 \in Drip
     THEN pc' = "read" /\ num' = num + 1
     ELSE pc' = "loop" /\ num' = 0
  /\ offTimeInMin' = 0

\* Mutant: the end of the window does not count.
OnDueNoEnd(d) ==
  /\ currTimeInMin >= info[d].start_time
  /\ day \in info[d].days

\* The conditions of update_drip for switching the drip on.
OnDue(d) ==
  /\ currTimeInMin >= info[d].start_time
  /\ currTimeInMin < info[d].start_time + info[d].duration
  /\ day \in info[d].days

\* Mutant: the drip is switched off a minute early.
OffDueEarly(d) ==
  /\ currTimeInMin + 1 >= offTimeInMin
  /\ offTimeInMin < info[d].start_time => timeRollOver

\* The conditions of update_drip for switching the drip off.
OffDue(d) ==
  /\ currTimeInMin >= offTimeInMin
  /\ offTimeInMin < info[d].start_time => timeRollOver

TurnOn ==
  /\ pc = "decide"
  /\ ~dripStatus[num] /\ OnDue(num)
  /\ dripStatus' = [dripStatus EXCEPT ![num] = TRUE]
  /\ timeRollOver' = FALSE
  /\ wet' = [wet EXCEPT ![num] = 0]
  /\ steady' = [steady EXCEPT ![num] = ~overdue]
  /\ EndOfCall
  /\ UNCHANGED <<clock, info>>

TurnOff ==
  /\ pc = "decide"
  /\ dripStatus[num] /\ OffDue(num)
  /\ dripStatus' = [dripStatus EXCEPT ![num] = FALSE]
  /\ wet' = [wet EXCEPT ![num] = -1]
  /\ steady' = [steady EXCEPT ![num] = FALSE]
  /\ EndOfCall
  /\ UNCHANGED <<clock, timeRollOver, info>>

LeaveAsIs ==
  /\ pc = "decide"
  /\ IF dripStatus[num] THEN ~OffDue(num) ELSE ~OnDue(num)
  /\ EndOfCall
  /\ UNCHANGED <<clock, dripStatus, timeRollOver, info, wet, steady>>

Update_drip == ReadTimes \/ TurnOn \/ TurnOff \/ LeaveAsIs

-----------------------------------------------------------------------------
(* The MQTT task                                                           *)

\* A settings message replaces one field of one drip.
Store(d, setting) ==
  /\ setting # info[d]
  /\ info' = [info EXCEPT ![d] = setting]
  /\ steady' = [e \in Drip |-> FALSE]
  /\ UNCHANGED <<clock, sched, loop, wet>>

Control_Drip_Start_Time(d, t) == Store(d, [info[d] EXCEPT !.start_time = t])
Control_Drip_Duration_Time(d, t) == Store(d, [info[d] EXCEPT !.duration = t])
Control_Drip_Days(d, ds) == Store(d, [info[d] EXCEPT !.days = ds])

\* A manual command, ON or OFF, moves the valve and tells the schedule nothing.
Control_Drip(d) ==
  /\ wet' = [wet EXCEPT ![d] = -1]
  /\ UNCHANGED <<clock, sched, loop, info, steady>>

Mqtt(d) ==
  \/ \E t \in Start : Control_Drip_Start_Time(d, t)
  \/ \E t \in Duration : Control_Drip_Duration_Time(d, t)
  \/ \E ds \in Days : Control_Drip_Days(d, ds)
  \/ Control_Drip(d)

-----------------------------------------------------------------------------
\* Reset or power cycle: the static variables start afresh, the settings come
\* back from flash, and the latching valves stay where they are.
Restart ==
  /\ Restarts
  /\ timeIsValid' = FALSE
  /\ elapsed' = 0
  /\ day' = 0
  /\ overdue' = FALSE
  /\ astray' = 0
  /\ dripStatus' = [d \in Drip |-> FALSE]
  /\ prevTimeInMin' = 0
  /\ timeRollOver' = FALSE
  /\ pc' = "loop"
  /\ num' = 0
  /\ offTimeInMin' = 0
  /\ steady' = [d \in Drip |-> FALSE]
  /\ UNCHANGED <<now, today, info, wet>>

Init ==
  /\ now = 0
  /\ today = 0
  /\ elapsed = 0
  /\ day = 0
  /\ timeIsValid = FALSE
  /\ overdue = FALSE
  /\ astray = 0
  /\ info \in [Drip -> Setting]
  /\ dripStatus = [d \in Drip |-> FALSE]
  /\ prevTimeInMin = 0
  /\ timeRollOver = FALSE
  /\ pc = "loop"
  /\ num = 0
  /\ offTimeInMin = 0
  /\ wet = [d \in Drip |-> -1]
  /\ steady = [d \in Drip |-> FALSE]

Next ==
  \/ \E j \in Jump : Update_time(j)
  \/ Update_drip
  \/ \E d \in Drip : Mqtt(d)
  \/ Restart

Spec == Init /\ [][Next]_vars

\* app_loop never stops (it waits on nothing in this model), the clock does
\* move on, and SNTP is answered at some time.
Fairness ==
  /\ WF_vars(Update_drip)
  /\ \A j \in Jump \ {0} : SF_vars(Update_time(j) /\ timeIsValid')

FairSpec == Spec /\ Fairness

-----------------------------------------------------------------------------
(* Properties                                                              *)

\* The window of drip d reaches past midnight and some other drip may be
\* switched on after midnight and before d is seen to be due.  TurnOn for that
\* drip clears the timeRollOver that d is waiting for.  (The time shown may
\* leap over the off time, by an hour and what a pass takes; the other drip
\* may then go on in the same pass.)
Disturbed(d) ==
  /\ OffTime(d) < info[d].start_time
  /\ \E e \in Drip \ {d}, j \in Jump :
       info[e].start_time < OffTime(d) + MinPerHour + j

\* Drip d is to go off so late in the day that the time shown may leap from
\* before the off time to the next day.
EndsLate(d) == \E j \in Jump : OneDay - MinPerHour - j < OffTime(d)

\* Whenever a pass of app_loop is over, a drip the schedule has opened has been
\* open for less than its duration and the hour by which the clock may lag.
\* The duration counts minutes, as update_drip does; green_house.h:79 says
\* "Water on time duration in seconds.", by which a drip waters sixty times
\* too long.
WateredFor(d) ==
  pc = "loop" /\ wet[d] >= 0 => wet[d] < info[d].duration + MinPerHour

\* With settings left alone, no restart and no resync missed, the schedule
\* waters no drip for more than an hour longer than its duration in minutes, on
\* a clock that repeats hours, across midnight and next to other drips, for the
\* windows that are neither disturbed by another drip nor end about the last
\* hour of the day.
NoOverWatering ==
  \A d \in Drip :
    steady[d] /\ ~Disturbed(d) /\ ~EndsLate(d) => WateredFor(d)

\* The same without the exception for drips that disturb one another through
\* the shared timeRollOver.
NoOverWateringNextToOthers ==
  \A d \in Drip : steady[d] /\ ~EndsLate(d) => WateredFor(d)

\* Minutes since the window of drip d last opened.
SinceStart(d) == (now - info[d].start_time) % OneDay

\* The step turns drip d off and is not a restart, which makes the time invalid.
GoesOff(d) == dripStatus[d] /\ ~dripStatus'[d] /\ timeIsValid'

\* update_drip cuts no watering short: while the settings are left alone it
\* turns a drip off only when the window has passed, for windows that end
\* before the last hour of the day (whose minutes are shown once more after
\* midnight: a drip that ends there may go on again for some of them).
NotCutShort ==
  [][\A d \in Drip :
       /\ GoesOff(d) /\ steady[d]
       /\ info[d].start_time + info[d].duration <= OneDay - MinPerHour
       => SinceStart(d) >= info[d].duration]_vars

GoesOn(d) == ~dripStatus[d] /\ dripStatus'[d]

\* Though the clock shows some minutes twice and the week day late, update_drip
\* turns a drip on no later than an hour after its window, and on a day that
\* is not one of its days only in the first hour after midnight, unless the
\* clock is overdue for a resync: then the week day is that of the last one,
\* for weeks, and the minute may be any.
StartsNearWindow ==
  [][\A d \in Drip :
       GoesOn(d) /\ ~overdue =>
         /\ SinceStart(d) < info[d].duration + MinPerHour
         /\ today \in info[d].days \/ now <= MinPerHour]_vars

\* The settings stay the same, no other drip disturbs d, its window does not
\* end about the last hour of the day, and the controller neither restarts nor
\* misses a resync any more.
Settled(d) ==
  /\ <>[][info' = info]_vars
  /\ <>[](timeIsValid /\ ~overdue /\ ~Disturbed(d) /\ ~EndsLate(d))

\* Once things have settled, the schedule has drip d off for good or again and
\* again has it off and its valve closed, unless a manual command has taken the
\* valve over: no sequence of messages, restarts and missed resyncs leaves
\* dripStatus stuck at ON, whatever start, duration and days are set by then.
\* A valve that a restart left open is closed at the end of the next window in
\* which its drip goes on; when the drip never goes on again (it has no days,
\* as by default, a duration of 0 or a start of a day or more, as 12:00PM sets
\* it) update_drip leaves the valve open.
EventuallyClosed ==
  \A d \in Drip :
    Settled(d) => <>[]~dripStatus[d] \/ []<>(~dripStatus[d] /\ wet[d] < 0)

=============================================================================
