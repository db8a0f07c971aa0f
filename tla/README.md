# Green house firmware: a TLA+ verification project

The firmware (`src/main/`, about 3100 lines of C on ESP-IDF) runs a green
house: it measures temperature and humidity, switches two fans, waters three
drip systems on a weekly schedule through latching solenoid valves, keeps its
settings in flash, and is controlled over MQTT.  This directory models it in
TLA+, checks the models with TLC and proves part of the results with TLAPS.
`PROJECT.json` lists components, runs, mutants, findings, hazards and theorems,
and maps every definition to the source lines it models.

## Inventory

Three tasks run the firmware's code.  The *app task* executes `app_main`: `Init`,
WiFi, MQTT start, and then `app_loop` for ever.  The *MQTT task* of the ESP-IDF
client executes `mqtt_event_handler_cb`.  The *event task* executes the WiFi
handlers.  They share `greenHouseInfo`, the histories and the GPIO pins without
any lock.  The SNTP client of lwIP sets the system time in the background.

| Component | State | Operations | What makes it correct |
|---|---|---|---|
| Drip valve driver (`control.c` `Control_Drip`) | six coil pins, three LEDs, `dripInfo[].state`, the latched valves | a call: opposite coil off, 100 ms, coil on, 50 ms, coil off, LED, state | no coil left energised; a call that meets the other's pulse still wins if the other stays away; a call that is alone takes effect, as if in one step |
| Drip schedule (`update.c` `update_drip`, `main.c` `app_loop`) | `dripStatus[]`, and `prevTimeInMin`, `timeRollOver` shared by all drips | turn on, turn off; settings messages; manual commands | watering in its window, for its duration, and over in the end |
| Wall clock (`update.c` `update_time`, `sntp.c`) | SNTP time, shown time, `mSecLastSNTP`, `timeIsValid` | first SNTP call, hourly resync, arithmetic in between | valid only when set; hands right to within two seconds and the missing carry; resync on time |
| Settings (`init.c` `Init_Settings`, `nvs.c`, setters of `control.c`) | eleven fields in RAM, eleven keys in flash | boot, setter, NVS read and write | a stored setting survives; a boot uses what is stored |
| GPIO set-up (`init.c`) | all pins | `Init_GPIO` at boot | everything off, valves not moved |
| MQTT handler (`mqtt.c`) | the client's receive buffer | match the topic, read the payload, call the control function, answer | a message acts on what it says and on nothing an earlier one left |
| Fan control (`control.c`, `update.c`) | two fan pins, two LEDs, `fanState[]`, a static `fanStatus`, the trip point | `Control_Fan`, `Control_Fan_Set_Temp_On`, `update_fan` | the two writers do not leave the fans apart; no chatter; the fans follow the temperature |
| Sensor (`dht11.c`, `request.c`, `update.c`) | last reading, histories, status topics | read with retries, shift the history, publish a change | readings are genuine; histories are whole; only the sensor can stop the loop |
| WiFi (`wifi_connect.c`, `main.c`) | a semaphore | event handlers, blocking connect | boot goes on once there is an address |
| Time strings (`mqtt.c`, `control.c`) | none | parse and print a start time | printing what was parsed gives it back; it is stored in the unit the schedule compares |

What is hard here: two tasks inside `Control_Drip` for the same valve, or writing
the four pins of the fans; a restart between any two writes, with valves that
stay where they are latched and settings half written; SNTP answers that are
late or missing; publications lost with the link; a WiFi event before the
semaphore it gives exists; a sensor frame cut short, whose missing bits are
read as zeros; arithmetic on a clock that wraps around, steps back and crosses
midnight; static flags shared between calls for different drips; settings that
change between two reads of one call; payloads without a terminator.  The
`hazards` of `PROJECT.json` list each place and the properties about it.

## Modules

`MCx` extends `x` and gives its constants values; `xProofs` holds its theorems.
`AppLoop` extends `WifiConnect`, `MqttReceive` extends `TimeString`, and
`DripValve` instantiates `AtomicDrip`, which it implements.  `ArithmeticLemmas` has
the facts about division and remainder that the proofs about clock and schedule
share.

### DripValve: `Control_Drip` called by two tasks

Every statement of `Control_Drip` that writes a pin, an LED or a state is an
action (`Isolate`, `Energize`, `Release`, `SetLed`, `SetState`), and so is the
write `update_drip` adds after the call (`Echo`).  `call[t]` is the call task
`t` is in; drip 1's "off" arm writes the state before the LED, as in the code
(`StateFirst`).  The valve itself is external: a coil released at the end of its
pulse, with the other one dead, leaves the valve in its position; a coil cut
off early or fighting the other leaves it anywhere.  The history `sole[t]` (kept
by `Written`) says that since `t` switched the opposite coil off nobody else has
written a coil of that drip.  `Restart` may come between
any two writes; `Init_GPIO` clears the pins and moves no valve.

### AtomicDrip: what the driver promises

A valve and the commands on it, without pins, pulses, sleeps, LEDs or states: a
command that no other overlaps moves the valve once, in one step, between its
call and its return (`Apply`); commands that overlap may move it anywhere
(`Apply`, `Fight`); a power failure forgets all commands, and only a drip whose
command had not yet taken effect may be found moved (`PowerCut`).  This is the
valve `DripScheduler` counts on when it takes a call for one step.
`DripValve` implements it with `req` mapped to `Request`: a call is "called" up
to the end of its pulse and "done" from there to its return.

### DripScheduler: `update_drip` on the clock the firmware shows

A pass of `app_loop` is `Update_time`, then for each drip `ReadTimes` (off time,
midnight flag) and one of `TurnOn`, `TurnOff`, `LeaveAsIs`.  Settings messages and
manual commands may come between any two of them, so the off time may stem from
other settings than the start time it is compared with.  `now` and `today` are the
real time, to the two seconds by which the hands are late (`MinuteHandLags`; a pass
takes ten seconds or more, so that lag turns no minute back); the schedule sees
`currTimeInMin` and `day`, which follow `update_time`: the hour lacks the carry from
the minutes (`ShownAt`), so a clock synchronised at 10:20 shows 10:20-10:59, then
10:00-10:19 again, then 11:20; the week day is that of the last resync.  `elapsed`
counts the minute boundaries since the resync, which is due when more than 3600 s
have been counted: never at 59 such minutes, possibly at 60, surely at 61 - except
about the wrap of the counter.  In the last hour before it `update_time` resyncs at
every pass (so `Resync` has no guard), and a pass that straddles it may miss the
resync (`MissResync`).  Then the clock is `overdue`: the week day stays as it is, and
the minute shown is any of `Astray`, which covers both the 24.8 days for which the
code's hands go on as before and the time after it, when the count is negative.  The
next resync ends that.

`start_time` and `duration` are minutes in the model as they are in the code.
`green_house.h` documents both in seconds, and the defaults of `init.c` are seconds;
see the findings.

### Clock: `update_time` and `sntp_get_time`

Milliseconds, as in the code; the counter wraps at `Wrap`, and the
conversions between unsigned and signed are kept (`Signed`, `ResyncDue`, `CDiv`,
`CMod`).  `time()` gives whole seconds (`SystemTime`), the counter is read up to
`Gap` later and kept as `mSecLastSNTP`, and the count since is divided by 1000 with
truncation (`secCount`).  `sntp_get_time` polls a status that the SNTP client sets
whenever an answer comes (`SntpReply`): before, between or after the polls, or never.
It reads the system time in any case.  Starting the client does not clear a status
left by an earlier late answer (lwIP is built without `SNTP_CHECK_RESPONSE` and
`SNTP_COMP_ROUNDTRIP`, so `sntp_get_system_time`, which would clear it, is not
called); `CallSntp` leaves it alone.  The system time does not drift in the model,
and daylight saving is left out.

### Settings: flash and RAM

`Table` transcribes `Init_Settings` entry by entry: the field each key is read
into, the default written to flash, the field assigned and the value assigned,
which in the code are not always the ones of the key.  `ReadKey` and `DefaultKey`
process one key; `SetField` and `WriteField` are a setter before and in its
`NVS_Write`; `Restart` may come between any two and may erase the flash, as `Init`
does when `nvs_flash_init` asks for it.  An NVS call may fail `MaxFaults` times;
the key it concerned goes into the history `hurt`.

### FanControl: two writers of the same pins

The MQTT task runs `Control_Fan` for fan 1 and then for fan 2, the app task runs
`update_fan`; `Script` lists the writes of each in the order of the code, and
`Write(t)` does the next one of task `t`, so the two interleave write by write.
`TurnOn` and `TurnOff` are the two branches of `update_fan`, with its static
`fanStatus`; `Control_Fan_Set_Temp_On` moves the trip point through an `int8_t`
(`Int8`).  `update_fan` compares `greenHouseInfo.temp`, which no statement assigns
(`Temp == 0`), while `Update_Temperature` stores what it reads in the global
variable `temp` (`measured`).  `Boot` leaves the trip point as `Init_Settings` does:
95 on the first boot, 90 once FAN_TEMP_OFF is in flash, since both keys are read
into `fanTempOn`.

### WifiConnect and AppLoop: from power-up round the main loop

`WifiConnect` has one action per step of `app_main` up to the loop (`InitBoard`,
`wifi_start`, `CreateSemaphore`, `TakeSemaphore`, `mqtt_start`) and one per event
handler.  The semaphore is created after the handlers are registered; an
address that comes earlier runs into the assertion of `xSemaphoreGive` that its
argument is not NULL, and the firmware restarts (`WifiRestart`).  The link and the
MQTT session come and go at any time; `Delivered` says when a publication
(QoS 0) arrives.

`AppLoop` adds the measurements of a pass: for each of temperature and humidity
`Copy` (the history to `dummyHistory`), `Request` (the request that succeeds, the
variable and the newest entry), `Shift` (the others move up) and `Publish` (if the
two newest differ).  `Shift` is the `memcpy` of update.c:247 and 279: a step writes
some of the places that are left, in any order, and `moved` has those written, so
that the MQTT task, on another core and without a lock, may see any half of it.  The rest of a pass is the subject of the other modules and
one step here (`Control`).  `DHT11_read` yields every frame the sum accepts among
those cut short after any number of bits: when the line stays high,
`_waitOrTimeout` returns -1, which is taken for a bit 0 (`Received`).  A reading
goes through an `int8_t` (`Result`), and to the topic through two characters
(`FirstTwo`).  The MQTT task answers requests at any moment (`AnswerRequest`).
`past` and `stale` are history variables.

### TimeString and MqttReceive: reading messages

`TimeString` has the parser of `Control_Drip_Start_Time` and
`Convert_Time_To_String` on records of hour, minute and AM or PM, with the 8-bit
variables of the code, and the reference `MinutesFromMidnight`.

`MqttReceive` has the buffer of the MQTT client (`mqtt_client.c` of esp-mqtt: one
buffer, every message read to its start, never cleared) behind the topics, byte by byte as far as
`strstr` for ON and OFF and `atoi` tell bytes apart.  There is an action for each
topic that carries a payload, and for the requests, whose topics overwrite the
buffer too.  The handlers of the drip settings terminate the payload
(`Terminated`); those of fan and drip commands do not.  What a message does once
it has been read is in the module of the part it commands.

## Runs

| Run | Result | Shows |
|---|---|---|
| `drip_valve` | passes | coil safety, a pulse that meets another's and is then left alone moves the valve, effect of a lone call, every pulse ends, the driver implements `AtomicDrip` |
| `schedule` | passes | off at most an hour after the duration in minutes; never early for windows that end before the last hour of the day; on at most an hour after the window, on a wrong day only in the first hour after midnight, unless a resync was missed |
| `schedule_live` | passes | once settings, power and resyncs are steady, no drip stays on, whatever is set; a valve a restart left open closes with the next watering of its drip, if there is one |
| `schedule_rollover` | violation | a drip starting after midnight clears the flag another waits for |
| `clock` | passes | validity, hands at most two seconds late, lag of hour and day, resync on time, passes end |
| `settings` | passes | settings survive, boots restore them and complete the flash |
| `settings_first_boot` | violation | a boot does not use the settings it stores: defaults go to other fields, FAN_TEMP_OFF is read into `fanTempOn` |
| `fan` | passes | who sets the fans alone gets them as it wants; the state reported after a command is true; no chatter; the trip point decides in the end |
| `fan_temperature` | violation | the automatic control never follows the temperature measured |
| `app_loop` | passes | no address is lost and the loop is reached; readings are genuine; histories are off by at most one place, and only during the shift; the temperature topic follows; only the sensor stops the loop |
| `mqtt` | passes | fan commands and drip settings are read as sent; start times are shown as set and stored in minutes, those that begin with 12 half a day late; only two known kinds of message are ever misread |
| `mqtt_misread` | violation | a drip OFF after a fan ON is read as ON |

The violation runs are disagreements between the code and its comments; each is
a finding in `PROJECT.json` with the line it contradicts.  Two more findings are about
units, and passing runs show what the code does: `green_house.h:79-80` and
`mqtt.c:595` say seconds of `duration` and `start_time`, while `Control_Drip_Start_Time`
stores minutes (`StoredInMinutes`) and `update_drip` compares minutes, so that a
duration of 300 waters for 300 minutes (`NoOverWatering`).  The defaults of `init.c`
are seconds: taken as minutes, starts of 3600, 7200 and 10800 lie beyond the end of
the day.

The exceptions named in the passing properties are cases the code does get
wrong, so the passing runs say that nothing else goes wrong:

* `NoOverWatering` leaves out drips with a restart or a change of settings in
  their window (`steady`): a restart leaves a latched valve open past its
  duration.  `EventuallyClosed` says of such a valve that it closes at the end of the
  next window in which its drip goes on, and no more: with no days set (the default),
  a duration of 0 or a start of a day or more (12:xxPM, and the default starts) the
  drip never goes on again and the valve stays open.  The same holds, day after day,
  for a window of less than an hour that the lagging hour skips.
* `steady` also ends with a missed resync, and `StartsNearWindow` leaves out the time
  until the next one (`overdue`): the week day is then stale for weeks.
* It leaves out `Disturbed` drips (shown by `schedule_rollover`): another drip that
  goes on after midnight clears the flag.  The time shown leaps by an hour and the
  length of a pass when the lag ends, so the other drip may start that much later
  than the off time and still go on in the pass that leaps over both.
* It leaves out drips that end late in the day (`EndsLate`): the time shown may leap
  from before the off time to the next day, and the last hour of the day is
  shown once more after midnight; such a drip stays on for nearly a day.
* `NotCutShort` is about windows that end before the last hour of the day.  For one
  across midnight the clock's step back is taken for midnight and may end it
  early; one that ends in the last hour may go on again when the minutes of that
  hour come a second time, and go off after a part of its duration.
* The hour of slack in the schedule's properties, and `HourLagsAtMostOne` and
  `DayLagsAtMostOne` in the clock's, are the missing carry from minutes to hours
  and the day of the last resync.  `ResyncOnTime` is about a counter that does not
  wrap around: a pass that straddles the wrap can miss the resync due in it, and the
  next one then comes nearly a whole counter period later.  The hands go on as before
  until the difference of the counters turns negative (`Countable`).
* `MinuteHandLags` allows two seconds: the fraction `time()` drops, the one the
  division of the counted milliseconds drops, and the gap between reading the two
  clocks are less than three seconds together, so a minute may show that late.
* `HistoryOffByAtMostOne` admits that a history sent during the shift has readings
  doubled or missing; it excludes that one is out of order, or more than one place
  away from its own.
* `EventuallyClosed` has the exceptions of `NoOverWatering` for drips that are disturbed
  or end late in the day, which may miss their off time day after day.
* `OnlyGenuineReadings` admits zero: a line that is dead from the first bit gives
  five zero bytes, whose sum is right, and is read as 32 degrees Fahrenheit.
* `TempTopicFollows` is about the first two digits, as the code publishes no more:
  100 degrees appear as 10.  `Update_Humidity` publishes the *temperature* on the
  humidity topic (update.c:284), so there is no such property for humidity; the
  answers to requests are right.
* `StoredInMinutes` says of the hours that begin with 12 what the parser does: 12:30PM
  is stored as 24:30, which no clock shows, and 12:30AM as half past noon.

### Bounds

* `drip_valve`: two drips. Drip 1 has its own order of writes, drip 2 stands for 2
  and 3; calls for different drips share no variable but the callers.
* `schedule`: two drips are enough to disturb one another. A day has three hours of
  three minutes and a pass takes one or two of them, so that a pass may begin and
  end on any side of the carry and of midnight, and the time shown may leap over
  an off time and another drip's start at once. Start and duration sets have
  windows within a day and across midnight. After a missed resync the clock shows
  the start of a window. `wet` stops at `CapWet`, the largest duration plus an hour,
  where the property is already decided. Weeks have two days.
* `schedule_live` needs of `wet` only whether the valve is open and caps it at 0. A
  day has three hours of two minutes, passes take less than a minute or one; the
  settings are all combinations of a start within the day and one at its end,
  no duration and half a day (a window across midnight), no days and every day, and
  restarts, missed resyncs and changes of settings may come anywhere. The proofs
  cover every face, window and number of drips.
* `clock`: `Wrap` is 3.84 hours instead of 49.7 days, still more than twice the
  interval, which is all the proofs need; two polls instead of 15; waits and
  passes of 1382.4 s and 2764.8 s so that resyncs fall before, at and after the hour,
  midnight and the wrap-around, and have five fractions of a second; a gap of 0 or
  900 ms, with which a lag of two seconds does occur. `age` stops at `CapAge`, where the
  counter difference turns negative and the properties end.
* `settings`: all eleven keys boot; messages set one key of each kind and drip with
  two values; one NVS call may fail (none in the violation run, which needs none).
* `fan`: trip points at zero, at both edges of the hysteresis, an ordinary one and
  two that do not fit an `int8_t` (200 is kept as -56, 255 as -1, within the
  hysteresis of zero); a temperature on either side of the ordinary
  one. `flips` counts 0, 1 and more.
* `app_loop`: two measurements, one of them with three digits of Fahrenheit; every
  cut of a frame; histories of three entries (288 in the firmware), the least
  that has a newest, an oldest and one between, moved in one portion or in two, in
  either order. The proofs cover every depth and
  every measurement.
* `mqtt`: one drip (messages for another use the same bytes); start times with one
  and with two digits of hour, in the morning and the afternoon, two of them in
  hours that begin with 12; numbers of up to
  three digits; the buffer up to byte 43, behind the end of the longest payload.

### Fairness

* `DripValve`: weak fairness of the steps inside a call. `vTaskDelay` always
  returns and both tasks are scheduled; nothing is assumed about new calls.
* `DripScheduler`: `update_drip` waits for nothing (weak fairness); time goes on and
  SNTP is answered at some time (strong fairness of `Update_time` with a valid
  time, since restarts and silence may disable it again and again). That resyncs are no
  longer missed is a hypothesis of `EventuallyClosed`, as each wrap may miss one again. That passes
  end assumes a sensor that answers, which `OnlySensorStopsLoop` of `AppLoop`
  shows to be the only thing needed.
* `Clock`: weak fairness of the app task, which sleeps but waits for nobody. No
  fairness for the server: it may stay silent for ever.
* `FanControl`: `app_loop` calls `update_fan` again and again and no write blocks
  (weak fairness of both); none for messages, weather or restarts.
* `AppLoop`: weak fairness of the app task's own steps, since it is scheduled. None
  for a successful request, as the sensor may fail for ever, nor for the events
  of link and session; the properties name what they need of them
  (`AddressStartsLoop`: the link stays up).

## Theorems

**DripValveProofs**, for every `DRIP_SYS` in `Nat \ {0}`: `TypeCorrect`, `CoilSafety`,
`PulseWins`, `LoneCallHolds`, `RefinesAtomicDrip`.  The inductive invariant
`IInv` adds to the type invariant, `CoilOnlyWhilePulsing` and
`LoneCallTakesEffect`

* `Exclusive`: while a call marked alone runs, no other task is in that drip;
* `Quiet`: a drip with a settled command has no call in progress;
* `LoneProgress`: what a lone call has achieved at each program counter (its coil
  pulls during the pulse, the valve has moved after it, LED and state are written
  in the order of the arm);
* `SoleProgress`: the same of the coils and the valve for a call that is `sole`, from
  its first write on.

Without them `LoneCallTakesEffect` has nothing to start from when a call returns,
and nothing says that another task leaves a settled drip alone.  `PulseWins` needs the
first write of `Control_Drip`: the other task may be in its pulse when the call
begins, and only that write makes the opposite coil dead.  The refinement uses the same invariant:
`Release` of a lone call is `Apply` because `LoneProgress` says its coil pulls
against a dead one; the steps before it and the writes of LED and state stutter.

**SettingsProofs**, for all `UserVal`, `Settable` and `MaxFaults` allowed by
`SettingsAssumption`: `SettingsSurvive`, `BootRestoresDrips`, `SettingsTypes` and
`BootCompletes`.  The invariant says
that `flash`, `ram` and the histories are functions on the keys (`Shape`), and that
during a boot the drip keys already passed agree between RAM and flash
(`BootProgress`).  The lemmas about `Table` state what the proof needs of the
transcription: each drip key is read into its own field, the fan keys into no
drip field, and every drip key has an entry.  That the *defaults* go astray does
not matter here, since a boot that used one has `allRead` false.  `SettingsTypes`
needs that a setter on its way to flash carries what the message said
(`PendingSet`); `BootCompletes` that the keys already passed are in flash unless an
NVS call on them failed (`FlashProgress`).

**FanControlProofs**, for every positive hysteresis and all sets of payloads and
temperatures: `FanTypes`, `NeverChatters`, `LoneSwitch`, `CommandedState`.
`NeverChatters` needs `Rests`: once the control has switched, the comparison that
would switch it back is false for this trip point, which holds because the
hysteresis is positive.  The other two need `Lone`: a task marked alone finds the
other idle (`Alone`), nobody writes while the fans are settled (`Quiet`), what a
lone task has passed of its script holds (`Written`), and what a settled task has
written still does (`AllWritten`); the lemma `ScriptCovers` says that each script
names every pin and LED, and that of the MQTT task every state.

**AppLoopProofs**, for every set of measurements in the range of the DHT11 and
every depth of the histories from 2 on:

* `AppLoopTypes`: readings stay in an `int8_t` and histories keep their length.
* `AddressNotLost`, with `Created`: while `app_main` has no semaphore it has not
  got to the wait, and an address is there only after a semaphore was.
* `ReadingsGenuine`: a frame cut short keeps whole bytes, one truncated byte and
  zeros.  If the sum byte, which comes last, is cut, it can only have lost value,
  and the sum of the four others has not unless they are cut too; if the cut is
  before it, the sum byte is zero, so all others are (`SumZero`, `ZeroOrWhole`).
* `HistoriesInOrder`, with `InStep`: at each statement, and for each set of places the
  `memcpy` may have written, how the history, its copy and the reading relate to the
  readings taken so far; `MarksCleared` says that no place is marked outside the shift.
* `TopicFollows`, with `TopicInStep`: unless a publication was lost, the topic
  shows the reading, or while an update is under way the one before it, which is
  then in `dummyHistory[0]` and after the shift in the second place; so comparing
  the two newest entries decides rightly whether to publish.

**MqttReceiveProofs**, for every set of start times, every set of lengths of
numbers and every buffer in which they fit (`MqttAssumption`):

* `ShownAsSetAlways` (all 1440 times of the day, by `RoundTrip`: the formatter
  inverts the parser, within the 8-bit variables) and `StoredInMinutesAlways`
  (`ParsedMinutes`: what the parser stores, hour by hour).
  The invariant `Stored` ties the stored minutes to the time last sent and the
  answer to the stored minutes.
* `MqttTypes`, `FanAndSettingsObeyedAlways` and `OnlyKnownMisreadingsAlways`.  The
  invariant `ReadInv` says what may be left in the buffer (`Clean`): an `O` only at
  the two bytes where commands begin, an `N` behind the second only from a fan ON,
  and digits only as far as some number has reached (`reach`).  So `strstr`, which
  searches all bytes up to the terminator, finds nothing of an earlier message
  before the command itself except in the cases the properties name.

**ClockProofs**, for every `Wrap` that is even and more than twice the interval,
every interval, number and length of waits, length of passes, gap of less than a
second, and time of power-on: `ClockTypes`, `ValidMeansSetAlways`, `ResyncOnTimeAlways`,
`MinuteHandLagsAlways`, `HourLagsAtMostOneAlways`, `DayLagsAtMostOneAlways`.  The
invariant `ClockInv` has four parts beside the types:

* `Polling`: a poll is made only while tries are left;
* `FromServer`: a valid time, a completed status and a first call about to pass all
  mean that a server has set the time;
* `Timed`: there are milliseconds `a` since the counter was kept (not capped like `age`)
  by which the counter, modulo the wrap-around, and the real time have both moved
  on from what was kept with the SNTP time, whose fields were taken less than a second
  before (`TakenAt`);
* `Displayed`: after a pass the time shown is the SNTP time advanced as the code
  advances it, and while the counter has not wrapped the age is within the
  interval.

The hands follow from `Timed` and `Displayed` as long as the difference of the two
counter values fits an `int` (`Countable`): `LagIs` says that the floor of a sum of
three terms exceeds the sum of the floors taken by less than three, so the moment
shown (`MomentShown`) is one of the last two seconds.  `Wrap` is more than twice the interval so
that this holds from every resync to the next one that is on time.

**DripSchedulerProofs**, for every number of drips, all sets of start times,
durations and days, every length of the hour, every day of at least two hours,
and passes that take less than an hour (`Jump`): `SchedulerTypes`,
`StartsNearWindowAlways`, `NotCutShortAlways`, `NoOverWateringAlways`.  `ShownIs` says
what the missing carry does: the time shown is the real time less `LagAt`, which is
nothing or an hour, unless the clock is `overdue`, when it is anything.  All of it holds
for every set `Astray`.  The invariant `ShownInv` has beside the types

* `Calls`: the time is valid while a call runs, a `steady` drip is on and no resync has
  been missed, the off time a call has read is still that of the settings, `prevTimeInMin` is the time shown
  from the first call of a pass on;
* `DayKnown`: the week day is right unless midnight has passed since the resync or one
  is overdue;
* `NoneOnLate`: a resync in the last hour of the day finds every drip that is due
  before it off, or turns it off in its own pass.  This is why a lag that carries
  the time over midnight cannot cut a watering short.

`NoOverWateringAlways` adds `OpenInTime`: for an undisturbed drip some `p` is the
minutes since its window opened, `wet` is at most `p`, and the time shown *without*
the modulo is before the time it is due (`DueAt`, beyond `OneDay` for a window across
midnight), or, until the drip's turn in the pass comes, past it by less than an hour
and a pass.  Past midnight `timeRollOver` is set or the next call sets it
(`Midnight`: what a pass and the lag can add is less than a day, so the time shown
does look earlier).  A drip that is due is then seen to be (`DueIsSeen`, where
`EndsLate` is needed), and no other drip clears the flag before (`NotCleared`, where
`Disturbed` is needed).  Both exceptions allow for the leap of the time shown when
the lag ends; on a clock face with hours of two minutes the leap is too small to
be seen.

Only model-checked: all liveness (`EveryPulseEnds`, `EventuallyClosed`,
`EveryPassEnds`, `TripPointDecides`, `AddressStartsLoop`, `OnlySensorStopsLoop`),
which rests on fairness, out of the prover's reach.  Every invariant and every
action property of a passing run is a theorem.

## Not modelled

* Most of ESP-IDF (`src/components/`, vendored) and generated files (`src/build/`), which
  are nearly all of the repository's lines; of the framework only what the
  firmware sees (SNTP status, NVS results, the semaphore, WiFi and MQTT events,
  the client's buffer, delays).
* Code nothing calls: `NVS_Erase`, `mqtt_publish_drip_status`,
  `Convert_Time_To_Duration`, and the default arm of `Control_Drip`; `wifi_disconnect`
  and `stop`, which only the shutdown handler runs, before a restart.  The grow
  light topics are compiled out.
* Vent, misc and 24 V outputs: written once at boot and never again.  The WiFi
  status LED (`on_wifi_disconnect` writes level 0 to turn it off, the level line 99
  of `wifi_connect.c` turns it on with).
* Answers that print a stored value and change nothing, other than those for
  temperature, humidity and start time; the history answers send the array whose
  content `HistoryOffByAtMostOne` describes.
* Payloads that are empty or not of the form the topic asks for, and what a fresh
  heap block may hold by chance.
* Logging, the bit timing of the DHT11 and noise on its line other than a frame
  cut short, daylight saving.

## Plan

1. Refinement: `DripScheduler`'s clock as an abstraction of `Clock`, with the lemmas
   `ShownIs` and `Displayed` as the link.
2. The safety half of the liveness properties: for `EventuallyClosed`, that a drip
   left on by earlier messages is due within a day of passes.
