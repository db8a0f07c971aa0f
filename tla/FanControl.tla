------------------------------ MODULE FanControl ------------------------------
(***************************************************************************)
(* The two fans of the green house.  The MQTT task switches them on        *)
(* command (Control_Fan, for fan 1 and then for fan 2) and moves the trip  *)
(* point (Control_Fan_Set_Temp_On); the app task switches them by itself   *)
(* (update_fan).  Both write the same four pins one by one, without a      *)
(* lock, and in different orders; only the MQTT task writes                *)
(* greenHouseInfo.fanState, which is what it reports.                      *)
(*                                                                         *)
(* update_fan compares the trip point with greenHouseInfo.temp, which no   *)
(* statement of the firmware assigns: Update_Temperature stores what it    *)
(* reads in a global variable of its own, temp (measured here).            *)
(***************************************************************************)
EXTENDS Integers, Sequences

CONSTANTS
  FAN_OFF_TEMP_HYST,  \* 2 in green_house.h
  Payload,            \* the numbers a set_temp_on message may carry
  Weather             \* the temperatures the sensor may report

ASSUME FanAssumption ==
  /\ FAN_OFF_TEMP_HYST \in Nat \ {0}
  /\ Payload \subseteq Int
  /\ Weather \subseteq Int

FAN_TEMP_ON  == 95    \* the defaults of Init_Settings
FAN_TEMP_OFF == 90

Fan    == {1, 2}
Task   == {"app", "mqtt"}
Output == {"pin", "led", "state"}

VARIABLES
  out,        \* out[o][f]: FANf_CTRL_PIN, FANf_LED_PIN (TRUE: level 0, lit)
              \* and greenHouseInfo.fanState[f-1]
  fanStatus,  \* the static variable of update_fan
  fanTempOn,  \* greenHouseInfo.fanTempOn
  measured,   \* temp, the last reading of Update_Temperature
  flashed,    \* FAN_TEMP_OFF is in flash
  job,        \* job[t]: the outputs task t is writing
  settled,    \* history: who set the fans last, and how, if it was alone
  flips       \* history: how often fanStatus changed since fanTempOn did

vars == <<out, fanStatus, fanTempOn, measured, flashed, job, settled, flips>>

\* The writes of update_fan, and of Control_Fan(1, cmd) and Control_Fan(2, cmd).
Script ==
  [t \in Task |->
     IF t = "app"
     THEN << <<"pin", 1>>, <<"pin", 2>>, <<"led", 1>>, <<"led", 2>> >>
     ELSE << <<"pin", 1>>, <<"state", 1>>, <<"led", 1>>,
             <<"pin", 2>>, <<"state", 2>>, <<"led", 2>> >>]

Length == [t \in Task |-> IF t = "app" THEN 4 ELSE 6]

\* at: the write that comes next, 0 if the task is not writing.
Job == [at : 0 .. 6, on : BOOLEAN, alone : BOOLEAN]

Nobody == [by |-> "none", on |-> FALSE]

TypeOK ==
  /\ out \in [Output -> [Fan -> BOOLEAN]]
  /\ fanStatus \in BOOLEAN
  /\ fanTempOn \in -128 .. 127
  /\ measured \in Int
  /\ flashed \in BOOLEAN
  /\ job \in [Task -> Job]
  /\ \A t \in Task : job[t].at <= Length[t]
  /\ settled \in [by : Task \cup {"none"}, on : BOOLEAN]
  /\ flips \in 0 .. 2

-----------------------------------------------------------------------------
\* greenHouseInfo.temp: zero at start-up and never assigned.
Temp == 0

\* Mutant: tempVal is a uint8_t.
UInt8(n) == n % 256

\* An int kept in an int8_t.
Int8(n) == ((n + 128) % 256) - 128

Idle(t) == job[t].at = 0

Begin(t, on) ==
  /\ Idle(t)
  /\ job' = [u \in Task |->
       IF u = t
       THEN [at |-> 1, on |-> on, alone |-> \A v \in Task \ {t} : Idle(v)]
       ELSE [job[u] EXCEPT !.alone = FALSE]]
  /\ settled' = Nobody

\* One more change of fanStatus (0, 1, or more).
OneMore(n) == IF n = 0 THEN 1 ELSE 2

\* The first branch of update_fan.
TurnOn ==
  /\ Temp >= fanTempOn /\ ~fanStatus
  /\ fanStatus' = TRUE
  /\ flips' = OneMore(flips)
  /\ Begin("app", TRUE)
  /\ UNCHANGED <<out, fanTempOn, measured, flashed>>

\* Mutant: the hysteresis is added to the trip point.
TurnOffLate ==
  /\ Temp <= fanTempOn + FAN_OFF_TEMP_HYST /\ fanStatus
  /\ fanStatus' = FALSE
  /\ flips' = OneMore(flips)
  /\ Begin("app", FALSE)
  /\ UNCHANGED <<out, fanTempOn, measured, flashed>>

\* Mutant: fanStatus is not updated.
TurnOffForgetful ==
  /\ Temp <= fanTempOn - FAN_OFF_TEMP_HYST /\ fanStatus
  /\ Begin("app", FALSE)
  /\ UNCHANGED <<out, fanStatus, fanTempOn, measured, flashed, flips>>

\* The second branch of update_fan.
TurnOff ==
  /\ Temp <= fanTempOn - FAN_OFF_TEMP_HYST /\ fanStatus
  /\ fanStatus' = FALSE
  /\ flips' = OneMore(flips)
  /\ Begin("app", FALSE)
  /\ UNCHANGED <<out, fanTempOn, measured, flashed>>

update_fan == TurnOn \/ TurnOff

\* The MQTT task gets a fan command.  One in which neither ON nor OFF is found
\* changes nothing.
Control_Fan(on) ==
  /\ Begin("mqtt", on)
  /\ UNCHANGED <<out, fanStatus, fanTempOn, measured, flashed, flips>>

\* Mutant: the outputs of fan 2 are written for fan 1.
WriteFan1(t) ==
  LET w == Script[t][job[t].at]
  IN /\ ~Idle(t)
     /\ out' = [out EXCEPT ![w[1]][1] = job[t].on]
     /\ job' = [job EXCEPT ![t].at = IF @ = Length[t] THEN 0 ELSE @ + 1]
     /\ settled' = IF job[t].at = Length[t] /\ job[t].alone
                   THEN [by |-> t, on |-> job[t].on] ELSE settled
     /\ UNCHANGED <<fanStatus, fanTempOn, measured, flashed, flips>>

\* Mutant: the state of fan 2 is written for fan 1.
WriteFan1State(t) ==
  LET w == Script[t][job[t].at]
  IN /\ ~Idle(t)
     /\ out' = [out EXCEPT ![w[1]][IF w[1] = "state" THEN 1 ELSE w[2]] = job[t].on]
     /\ job' = [job EXCEPT ![t].at = IF @ = Length[t] THEN 0 ELSE @ + 1]
     /\ settled' = IF job[t].at = Length[t] /\ job[t].alone
                   THEN [by |-> t, on |-> job[t].on] ELSE settled
     /\ UNCHANGED <<fanStatus, fanTempOn, measured, flashed, flips>>

\* The next write of the task.
Write(t) ==
  LET w == Script[t][job[t].at]
  IN /\ ~Idle(t)
     /\ out' = [out EXCEPT ![w[1]][w[2]] = job[t].on]
     /\ job' = [job EXCEPT ![t].at = IF @ = Length[t] THEN 0 ELSE @ + 1]
     /\ settled' = IF job[t].at = Length[t] /\ job[t].alone
                   THEN [by |-> t, on |-> job[t].on] ELSE settled
     /\ UNCHANGED <<fanStatus, fanTempOn, measured, flashed, flips>>

\* A set_temp_on message: zero, and what is no number, is ignored.
Control_Fan_Set_Temp_On(n) ==
  /\ Idle("mqtt")
  /\ Int8(n) # 0
  /\ fanTempOn' = Int8(n)
  /\ flips' = 0
  /\ UNCHANGED <<out, fanStatus, measured, flashed, job, settled>>

\* Update_Temperature: the app task reads the sensor before update_fan.
Update_Temperature(reading) ==
  /\ Idle("app")
  /\ measured' = reading
  /\ UNCHANGED <<out, fanStatus, fanTempOn, flashed, job, settled, flips>>

-----------------------------------------------------------------------------
\* Init_GPIO and Init switch everything off.  Init_Settings reads both
\* settings into fanTempOn; FAN_TEMP_OFF, the second, is there from the
\* second boot on (unless the write of the first one failed).
Boot(hasFlash) ==
  /\ out' = [o \in Output |-> [f \in Fan |-> FALSE]]
  /\ fanStatus' = FALSE
  /\ fanTempOn' = IF hasFlash THEN FAN_TEMP_OFF ELSE FAN_TEMP_ON
  /\ flashed' \in {hasFlash, TRUE}
  /\ measured' = 0
  /\ job' = [t \in Task |-> [at |-> 0, on |-> FALSE, alone |-> FALSE]]
  /\ settled' = Nobody
  /\ flips' = 0

Restart == Boot(flashed)

Init ==
  /\ out = [o \in Output |-> [f \in Fan |-> FALSE]]
  /\ fanStatus = FALSE
  /\ fanTempOn = FAN_TEMP_ON
  /\ flashed \in BOOLEAN
  /\ measured = 0
  /\ job = [t \in Task |-> [at |-> 0, on |-> FALSE, alone |-> FALSE]]
  /\ settled = Nobody
  /\ flips = 0

Next ==
  \/ update_fan
  \/ \E on \in BOOLEAN : Control_Fan(on)
  \/ \E t \in Task : Write(t)
  \/ \E n \in Payload : Control_Fan_Set_Temp_On(n)
  \/ \E reading \in Weather : Update_Temperature(reading)
  \/ Restart

Spec == Init /\ [][Next]_vars

\* app_loop calls update_fan again and again; no write blocks.
Fairness == WF_vars(update_fan) /\ \A t \in Task : WF_vars(Write(t))

FairSpec == Spec /\ Fairness

-----------------------------------------------------------------------------
(* Properties                                                              *)

\* Whoever sets the fans while the other task keeps out of it (update_fan or a
\* command, after whatever races) leaves both motors and both LEDs as it wants
\* them, and they stay so until somebody sets them again.  Only then can
\* the two fans be trusted to run together.
LoneSwitchTakesEffect ==
  settled.by # "none" =>
    \A f \in Fan : out["pin"][f] = settled.on /\ out["led"][f] = settled.on

\* The state the firmware reports, greenHouseInfo.fanState, tells the truth
\* about the motors as long as the last to set them was a command.
CommandedStateIsTrue ==
  settled.by = "mqtt" => \A f \in Fan : out["state"][f] = out["pin"][f]

\* The hysteresis of update_fan keeps the automatic control from switching
\* to and fro: it switches at most once for each setting of the trip point.
NoChatter == flips <= 1

\* A trip point that stands decides, whatever the commands in between: the
\* automatic control ends up off for one above the hysteresis, and on for one
\* at or below zero (such as 200, which an int8_t keeps as -56).
TripPointDecides ==
  /\ <>[](fanTempOn >= FAN_OFF_TEMP_HYST) => <>[]~fanStatus
  /\ <>[](fanTempOn <= 0) => <>[]fanStatus

\* "This function sets the fan temperature on trip point" (control.c): in a
\* green house that stays at or above a trip point nobody moves, the automatic
\* control switches on.
FansFollowTemperature ==
  <>[](measured >= fanTempOn) /\ <>[][UNCHANGED fanTempOn]_vars => <>fanStatus

=============================================================================
