-------------------------- MODULE FanControlProofs --------------------------
(***************************************************************************)
(* Proofs about FanControl, for every hysteresis, every trip point users   *)
(* send and every weather: types, that the automatic control does not      *)
(* chatter, and that a switch nobody interferes with takes effect.         *)
(***************************************************************************)
EXTENDS FanControl, TLAPS

LEMMA Int8Range == ASSUME NEW n \in Int PROVE Int8(n) \in -128 .. 127
BY DEF Int8

\* Every place of a script names an output of a fan.
LEMMA ScriptTypes ==
  ASSUME NEW t \in Task, NEW i \in 1 .. Length[t]
  PROVE  Script[t][i][1] \in Output /\ Script[t][i][2] \in Fan
<1>1. CASE t = "app"
  <2>1. i = 1 \/ i = 2 \/ i = 3 \/ i = 4
    BY <1>1 DEF Length, Task
  <2> QED
    BY <1>1, <2>1 DEF Script, Output, Fan, Task
<1>2. CASE t = "mqtt"
  <2>1. i = 1 \/ i = 2 \/ i = 3 \/ i = 4 \/ i = 5 \/ i = 6
    BY <1>2 DEF Length, Task
  <2> QED
    BY <1>2, <2>1 DEF Script, Output, Fan, Task
<1> QED
  BY <1>1, <1>2 DEF Task

LEMMA LengthFacts ==
  \A t \in Task : Length[t] \in 4 .. 6
BY DEF Length, Task

LEMMA OneMoreType == \A n : OneMore(n) \in 0 .. 2
BY DEF OneMore

\* No job.
NoJob == [t \in Task |-> [at |-> 0, on |-> FALSE, alone |-> FALSE]]

LEMMA NoJobType ==
  /\ NoJob \in [Task -> Job]
  /\ \A t \in Task : NoJob[t].at = 0 /\ 0 <= Length[t]
<1>1. [at |-> 0, on |-> FALSE, alone |-> FALSE] \in Job
  BY DEF Job
<1> QED
  BY <1>1, LengthFacts DEF NoJob

\* Begin keeps the types of the jobs.
LEMMA BeginTypes ==
  ASSUME TypeOK, NEW t \in Task, NEW on \in BOOLEAN, Begin(t, on)
  PROVE  /\ job' \in [Task -> Job]
         /\ \A u \in Task : job'[u].at <= Length[u]
         /\ settled' = Nobody
         /\ job'[t].at = 1 /\ job'[t].on = on
         /\ job'[t].alone => \A u \in Task \ {t} : Idle(u)
         /\ \A u \in Task \ {t} : job'[u].at = job[u].at /\ job'[u].alone = FALSE
<1>1. job' = [u \in Task |->
        IF u = t
        THEN [at |-> 1, on |-> on, alone |-> \A v \in Task \ {t} : Idle(v)]
        ELSE [job[u] EXCEPT !.alone = FALSE]]
  BY DEF Begin
<1>2. \A u \in Task : job[u] \in Job /\ job[u].at <= Length[u]
  BY DEF TypeOK
<1>3. job'[t] = [at |-> 1, on |-> on, alone |-> \A v \in Task \ {t} : Idle(v)]
  BY <1>1
<1>4. (\A v \in Task \ {t} : Idle(v)) \in BOOLEAN
  OBVIOUS
<1>5. job'[t] \in Job
  BY <1>3, <1>4 DEF Job
<1>6. \A u \in Task \ {t} : job'[u] = [job[u] EXCEPT !.alone = FALSE]
  BY <1>1
<1>7. \A u \in Task \ {t} : /\ job'[u] \in Job
                            /\ job'[u].at = job[u].at
                            /\ job'[u].alone = FALSE
  BY <1>2, <1>6 DEF Job
<1>8. job' \in [Task -> Job]
  BY <1>1, <1>5, <1>7
<1>9. job'[t].at = 1 /\ job'[t].on = on
  BY <1>3
<1>10. job'[t].alone => \A u \in Task \ {t} : Idle(u)
  BY <1>3
<1>11. settled' = Nobody
  BY DEF Begin
<1>12. job'[t].at <= Length[t]
  BY <1>9, LengthFacts
<1>13. ASSUME NEW u \in Task \ {t} PROVE job'[u].at <= Length[u]
  BY <1>2, <1>7
<1>14. \A u \in Task : job'[u].at <= Length[u]
  BY <1>12, <1>13
<1>15. \A u \in Task \ {t} : job'[u].at = job[u].at /\ job'[u].alone = FALSE
  BY <1>7
<1> QED
  BY <1>8, <1>9, <1>10, <1>11, <1>14, <1>15

\* A write moves one job on and writes one output.
LEMMA WriteMoves ==
  ASSUME TypeOK, NEW t \in Task, Write(t)
  PROVE  /\ job[t].at \in 1 .. Length[t]
         /\ job' \in [Task -> Job]
         /\ job'[t].at = IF job[t].at = Length[t] THEN 0 ELSE job[t].at + 1
         /\ job'[t].on = job[t].on /\ job'[t].alone = job[t].alone
         /\ \A u \in Task \ {t} : job'[u] = job[u]
         /\ out' = [out EXCEPT ![Script[t][job[t].at][1]]
                                [Script[t][job[t].at][2]] = job[t].on]
         /\ out' \in [Output -> [Fan -> BOOLEAN]]
<1>1. job[t] \in Job /\ job[t].at <= Length[t] /\ job[t].at # 0
  BY DEF TypeOK, Write, Idle
<1>2. job[t].at \in 1 .. Length[t]
  BY <1>1, LengthFacts DEF Job
<1>3. job' = [job EXCEPT ![t].at = IF @ = Length[t] THEN 0 ELSE @ + 1]
  BY DEF Write
<1>4. (IF job[t].at = Length[t] THEN 0 ELSE job[t].at + 1) \in 0 .. 6
  BY <1>2, LengthFacts
<1>5. out' = [out EXCEPT ![Script[t][job[t].at][1]]
                          [Script[t][job[t].at][2]] = job[t].on]
  BY DEF Write
<1>6. job[t].on \in BOOLEAN
  BY <1>1 DEF Job
<1>7. out' \in [Output -> [Fan -> BOOLEAN]]
  BY <1>2, <1>5, <1>6, ScriptTypes DEF TypeOK
<1>8. job' \in [Task -> Job]
  BY <1>3, <1>4 DEF TypeOK, Job
<1>9. job'[t].at = IF job[t].at = Length[t] THEN 0 ELSE job[t].at + 1
  BY <1>1, <1>3 DEF TypeOK, Job
<1>10. job'[t].on = job[t].on /\ job'[t].alone = job[t].alone
  BY <1>1, <1>3 DEF TypeOK, Job
<1> QED
  BY <1>2, <1>3, <1>5, <1>7, <1>8, <1>9, <1>10 DEF TypeOK

LEMMA TypeStep == TypeOK /\ [Next]_vars => TypeOK'
<1> SUFFICES ASSUME TypeOK, [Next]_vars PROVE TypeOK'
  OBVIOUS
<1>0. Nobody \in [by : Task \cup {"none"}, on : BOOLEAN]
  BY DEF Nobody
<1>1. CASE TurnOn \/ TurnOff
  <2>1. PICK on \in BOOLEAN : Begin("app", on)
    BY <1>1 DEF TurnOn, TurnOff
  <2>2. "app" \in Task
    BY DEF Task
  <2>3. flips' \in 0 .. 2
    BY <1>1, OneMoreType DEF TurnOn, TurnOff
  <2> QED
    BY <1>0, <1>1, <2>1, <2>2, <2>3, BeginTypes DEF TurnOn, TurnOff, TypeOK
<1>2. ASSUME NEW on \in BOOLEAN, Control_Fan(on) PROVE TypeOK'
  <2>1. "mqtt" \in Task
    BY DEF Task
  <2> QED
    BY <1>0, <1>2, <2>1, BeginTypes DEF Control_Fan, TypeOK
<1>3. ASSUME NEW t \in Task, Write(t) PROVE TypeOK'
  <2>1. settled' \in [by : Task \cup {"none"}, on : BOOLEAN]
    <3>1. job[t].on \in BOOLEAN
      BY DEF TypeOK, Job
    <3>2. [by |-> t, on |-> job[t].on] \in [by : Task \cup {"none"}, on : BOOLEAN]
      BY <3>1
    <3> QED
      BY <1>3, <3>2 DEF Write, TypeOK
  <2>2. \A u \in Task : job'[u].at <= Length[u]
    <3>1. job'[t].at <= Length[t]
      <4>1. /\ job[t].at \in 1 .. Length[t]
            /\ job'[t].at = IF job[t].at = Length[t] THEN 0 ELSE job[t].at + 1
        BY <1>3, WriteMoves
      <4>2. Length[t] \in 4 .. 6
        BY LengthFacts
      <4> QED
        BY <4>1, <4>2
    <3>2. \A u \in Task \ {t} : job'[u].at <= Length[u]
      BY <1>3, WriteMoves DEF TypeOK
    <3> QED
      BY <3>1, <3>2
  <2> QED
    BY Zenon, <1>3, <2>1, <2>2, WriteMoves DEF Write, TypeOK
<1>4. ASSUME NEW n \in Payload, Control_Fan_Set_Temp_On(n) PROVE TypeOK'
  BY <1>4, FanAssumption, Int8Range DEF Control_Fan_Set_Temp_On, TypeOK
<1>5. ASSUME NEW reading \in Weather, Update_Temperature(reading) PROVE TypeOK'
  BY <1>5, FanAssumption DEF Update_Temperature, TypeOK
<1>6. CASE Restart
  <2>1. job' = NoJob
    BY <1>6 DEF Restart, Boot, NoJob
  <2>2. job' \in [Task -> Job] /\ \A t \in Task : job'[t].at <= Length[t]
    BY <2>1, NoJobType
  <2>3. fanTempOn' \in -128 .. 127 /\ measured' \in Int /\ flips' \in 0 .. 2
    BY <1>6 DEF Restart, Boot, FAN_TEMP_ON, FAN_TEMP_OFF
  <2>4. fanStatus' \in BOOLEAN /\ flashed' \in BOOLEAN
    BY <1>6, Zenon DEF Restart, Boot, TypeOK
  <2>5. out' \in [Output -> [Fan -> BOOLEAN]]
    BY <1>6 DEF Restart, Boot
  <2>6. settled' = Nobody
    BY <1>6 DEF Restart, Boot
  <2> QED
    BY <1>0, <2>2, <2>3, <2>4, <2>5, <2>6 DEF TypeOK
<1>7. CASE UNCHANGED vars
  BY <1>7 DEF vars, TypeOK
<1> QED
  BY <1>1, <1>2, <1>3, <1>4, <1>5, <1>6, <1>7 DEF Next, update_fan

LEMMA TypeInit == Init => TypeOK
<1> SUFFICES ASSUME Init PROVE TypeOK
  OBVIOUS
<1>1. job = NoJob
  BY DEF Init, NoJob
<1>2. job \in [Task -> Job] /\ \A t \in Task : job[t].at <= Length[t]
  BY <1>1, NoJobType
<1>3. settled \in [by : Task \cup {"none"}, on : BOOLEAN]
  BY DEF Init, Nobody
<1>4. fanTempOn \in -128 .. 127 /\ measured \in Int /\ flips \in 0 .. 2
  BY DEF Init, FAN_TEMP_ON
<1>5. out \in [Output -> [Fan -> BOOLEAN]] /\ fanStatus \in BOOLEAN
  BY Zenon DEF Init
<1> QED
  BY <1>2, <1>3, <1>4, <1>5 DEF Init, TypeOK

\* Types, whatever numbers the messages carry.
THEOREM FanTypes == Spec => []TypeOK
BY TypeInit, TypeStep, PTL DEF Spec

-----------------------------------------------------------------------------
(* No chatter                                                              *)

\* After one switch fanStatus is on the side of the trip point from which
\* the hysteresis lets it go nowhere.
Rests ==
  /\ flips \in {0, 1}
  /\ flips = 1 => IF fanStatus THEN Temp >= fanTempOn
                  ELSE Temp <= fanTempOn - FAN_OFF_TEMP_HYST

LEMMA RestsStep == TypeOK /\ Rests /\ [Next]_vars => Rests'
<1> SUFFICES ASSUME TypeOK, Rests, [Next]_vars PROVE Rests'
  OBVIOUS
<1> USE FanAssumption
<1>1. CASE TurnOn
  BY <1>1 DEF TurnOn, Rests, OneMore, Temp, TypeOK
<1>2. CASE TurnOff
  BY <1>2 DEF TurnOff, Rests, OneMore, Temp, TypeOK
<1>3. ASSUME NEW n \in Payload, Control_Fan_Set_Temp_On(n) PROVE Rests'
  BY <1>3 DEF Control_Fan_Set_Temp_On, Rests
<1>4. CASE Restart
  BY <1>4 DEF Restart, Boot, Rests
<1>5. CASE UNCHANGED <<flips, fanStatus, fanTempOn>>
  BY <1>5 DEF Rests
<1> QED
  BY Zenon, <1>1, <1>2, <1>3, <1>4, <1>5
     DEF Next, update_fan, vars, Control_Fan, Write, Update_Temperature

\* The automatic control switches at most once for each setting of the trip
\* point, for every hysteresis greater than zero.
THEOREM NeverChatters == Spec => []NoChatter
<1>1. Init => Rests
  BY DEF Init, Rests
<1>2. Rests => NoChatter
  BY DEF Rests, NoChatter
<1> QED
  BY <1>1, <1>2, TypeInit, TypeStep, RestsStep, PTL DEF Spec

-----------------------------------------------------------------------------
(* A switch that is alone takes effect                                     *)

\* A job marked alone is the only one in progress.
Alone ==
  \A t, u \in Task : t # u /\ ~Idle(t) /\ job[t].alone => Idle(u)

\* Settled outputs have no job in progress.
Quiet == settled.by # "none" => \A t \in Task : Idle(t)

\* What place i of a script holds.
Holds(t, i, on) == out[Script[t][i][1]][Script[t][i][2]] = on

\* A job that is alone has written the places before the next one.
Written ==
  \A t \in Task : job[t].alone =>
    \A i \in 1 .. Length[t] : i < job[t].at => Holds(t, i, job[t].on)

\* A settled job has written them all.
AllWritten ==
  \A t \in Task : settled.by = t =>
    \A i \in 1 .. Length[t] : Holds(t, i, settled.on)

Lone == Alone /\ Quiet /\ Written /\ AllWritten

\* A job that begins finds nothing settled and has written nothing.
LEMMA BeginLone ==
  ASSUME TypeOK, Lone, NEW t \in Task, NEW on \in BOOLEAN, Begin(t, on),
         UNCHANGED out
  PROVE  Lone'
<1>1. Alone'
  <2>1. job'[t].alone => \A u \in Task \ {t} : Idle(u)
    BY BeginTypes
  <2>2. \A u \in Task \ {t} : job'[u].at = job[u].at /\ ~job'[u].alone
    BY BeginTypes
  <2> QED
    BY <2>1, <2>2 DEF Alone, Idle
<1>2. settled'.by = "none"
  BY DEF Begin, Nobody
<1>3. Written'
  <2> SUFFICES ASSUME NEW u \in Task, job'[u].alone, NEW i \in 1 .. Length[u],
                      i < job'[u].at
               PROVE  FALSE
    BY DEF Written
  <2>1. u = t
    BY BeginTypes
  <2>2. job'[t].at = 1
    BY BeginTypes
  <2>3. Length[t] \in 4 .. 6
    BY LengthFacts
  <2> QED
    BY <2>1, <2>2, <2>3
<1>4. AllWritten'
  BY <1>2 DEF AllWritten, Task
<1> QED
  BY <1>1, <1>2, <1>3, <1>4 DEF Lone, Quiet

LEMMA LoneStep == TypeOK /\ Lone /\ [Next]_vars => Lone'
<1> SUFFICES ASSUME TypeOK, Lone, [Next]_vars PROVE Lone'
  OBVIOUS
<1>1. CASE TurnOn \/ TurnOff
  <2>1. PICK on \in BOOLEAN : Begin("app", on)
    BY <1>1 DEF TurnOn, TurnOff
  <2>2. UNCHANGED out /\ "app" \in Task
    BY <1>1 DEF TurnOn, TurnOff, Task
  <2> QED
    BY <2>1, <2>2, BeginLone
<1>2. ASSUME NEW on \in BOOLEAN, Control_Fan(on) PROVE Lone'
  <2>1. UNCHANGED out /\ "mqtt" \in Task /\ Begin("mqtt", on)
    BY <1>2 DEF Control_Fan, Task
  <2> QED
    BY <2>1, BeginLone
<1>3. ASSUME NEW t \in Task, Write(t) PROVE Lone'
  <2> DEFINE k == job[t].at
  <2>1. k \in 1 .. Length[t] /\ ~Idle(t)
    BY Zenon, <1>3, WriteMoves DEF Write
  <2>2. \A u \in Task \ {t} : ~Idle(u) => ~job[u].alone
    BY <2>1 DEF Lone, Alone
  <2>3. settled.by = "none"
    BY <2>1 DEF Lone, Quiet
  <2>4. Script[t][k][1] \in Output /\ Script[t][k][2] \in Fan
    BY <2>1, ScriptTypes
  <2>5. ASSUME NEW i \in 1 .. Length[t], i = k \/ Holds(t, i, job[t].on)
        PROVE  Holds(t, i, job[t].on)'
    <3>1. Script[t][i][1] \in Output /\ Script[t][i][2] \in Fan
      BY ScriptTypes
    <3>2. job'[t].on = job[t].on
      BY Zenon, <1>3, WriteMoves
    <3>3. out' = [out EXCEPT ![Script[t][k][1]][Script[t][k][2]] = job[t].on]
      BY Zenon, <1>3, WriteMoves
    <3>4. out'[Script[t][i][1]][Script[t][i][2]] = job[t].on
      BY <2>4, <2>5, <3>1, <3>3 DEF Holds, TypeOK
    <3> QED
      BY <3>2, <3>4 DEF Holds
  <2>6. job[t].alone => \A i \in 1 .. Length[t] : i <= k => Holds(t, i, job[t].on)'
    <3> SUFFICES ASSUME job[t].alone, NEW i \in 1 .. Length[t], i <= k
                 PROVE  Holds(t, i, job[t].on)'
      OBVIOUS
    <3>1. i = k \/ i < k
      BY <2>1, LengthFacts
    <3> QED
      BY <2>5, <3>1 DEF Lone, Written
  <2>7. Alone'
    <3> SUFFICES ASSUME NEW u \in Task, NEW v \in Task, u # v,
                        job'[u].at # 0, job'[u].alone
                 PROVE  job'[v].at = 0
      BY DEF Alone, Idle
    <3>1. u = t
      <4> SUFFICES ASSUME u # t PROVE FALSE
        OBVIOUS
      <4>1. job'[u] = job[u]
        BY <1>3, WriteMoves
      <4> QED
        BY <2>2, <4>1 DEF Idle
    <3>2. job[t].alone /\ job'[v] = job[v]
      BY <1>3, <3>1, WriteMoves
    <3>3. Idle(v)
      BY <2>1, <3>1, <3>2 DEF Lone, Alone
    <3> QED
      BY <3>2, <3>3 DEF Idle
  <2>8. Written'
    <3> SUFFICES ASSUME NEW u \in Task, job'[u].alone, NEW i \in 1 .. Length[u],
                        i < job'[u].at
                 PROVE  Holds(u, i, job[u].on)'
      BY DEF Written
    <3>1. CASE u = t
      <4>1. i <= k
        <5>1. job'[t].at = IF k = Length[t] THEN 0 ELSE k + 1
          BY <1>3, WriteMoves
        <5>2. Length[t] \in 4 .. 6
          BY LengthFacts
        <5> QED
          BY <2>1, <3>1, <5>1, <5>2
      <4> QED
        BY <1>3, <2>6, <3>1, <4>1, WriteMoves
    <3>2. CASE u # t
      <4>1. job'[u] = job[u]
        BY <1>3, <3>2, WriteMoves
      <4>2. Idle(u)
        BY <2>2, <3>2, <4>1
      <4> QED
        BY <4>1, <4>2, LengthFacts DEF Idle
    <3> QED
      BY <3>1, <3>2
  <2>9. CASE k = Length[t] /\ job[t].alone
    <3>1. settled' = [by |-> t, on |-> job[t].on]
      BY <1>3, <2>9 DEF Write
    <3>2. settled'.by = t /\ settled'.on = job[t].on /\ job'[t].on = job[t].on
      BY <1>3, <3>1, WriteMoves
    <3>3. AllWritten'
      <4> SUFFICES ASSUME NEW i \in 1 .. Length[t]
                   PROVE  Holds(t, i, settled.on)'
        BY <3>2 DEF AllWritten
      <4>1. i <= k
        BY <2>9, LengthFacts
      <4>2. Holds(t, i, job[t].on)'
        BY <2>6, <2>9, <4>1
      <4> QED
        BY <3>2, <4>2 DEF Holds
    <3>4. Quiet'
      <4>1. job'[t].at = 0
        BY <1>3, <2>9, WriteMoves
      <4>2. \A u \in Task \ {t} : job'[u] = job[u] /\ job[u].at = 0
        BY <1>3, <2>1, <2>9, WriteMoves DEF Lone, Alone, Idle
      <4> QED
        BY <4>1, <4>2 DEF Quiet, Idle
    <3> QED
      BY <2>7, <2>8, <3>3, <3>4 DEF Lone
  <2>10. CASE ~(k = Length[t] /\ job[t].alone)
    <3>1. settled'.by = "none"
      BY <1>3, <2>3, <2>10 DEF Write
    <3>2. Quiet'
      BY <3>1 DEF Quiet
    <3>3. \A u \in Task : u # "none"
      BY DEF Task
    <3>4. AllWritten'
      BY <3>1, <3>3 DEF AllWritten
    <3> QED
      BY <2>7, <2>8, <3>2, <3>4 DEF Lone
  <2> QED
    BY <2>9, <2>10
<1>4. CASE Restart
  <2>1. job' = NoJob /\ settled' = Nobody
    BY <1>4 DEF Restart, Boot, NoJob
  <2>2. \A t \in Task : job'[t].at = 0 /\ job'[t].alone = FALSE
    BY <2>1 DEF NoJob
  <2>3. settled'.by = "none"
    BY <2>1 DEF Nobody
  <2> QED
    BY <2>2, <2>3 DEF Lone, Alone, Quiet, Written, AllWritten, Idle, Task
<1>5. CASE UNCHANGED <<out, job, settled>>
  BY <1>5 DEF Lone, Alone, Quiet, Written, AllWritten, Idle, Holds
<1> QED
  BY <1>1, <1>2, <1>3, <1>4, <1>5
     DEF Next, update_fan, vars, Control_Fan_Set_Temp_On, Update_Temperature

LEMMA LoneInit == Init => Lone
<1> SUFFICES ASSUME Init PROVE Lone
  OBVIOUS
<1>1. \A t \in Task : job[t].at = 0 /\ job[t].alone = FALSE
  BY DEF Init
<1>2. settled.by = "none"
  BY DEF Init, Nobody
<1> QED
  BY <1>1, <1>2 DEF Lone, Alone, Quiet, Written, AllWritten, Idle, Task

\* A script covers both motors and both LEDs, that of the MQTT task the
\* reported state too.
LEMMA ScriptCovers ==
  ASSUME TypeOK, AllWritten, settled.by # "none"
  PROVE  /\ \A f \in Fan : out["pin"][f] = settled.on /\ out["led"][f] = settled.on
         /\ settled.by = "mqtt" => \A f \in Fan : out["state"][f] = settled.on
<1>0. settled.by \in Task
  BY DEF TypeOK
<1>1. CASE settled.by = "app"
  <2>1. \A i \in 1 .. 4 : Holds("app", i, settled.on)
    BY <1>1 DEF AllWritten, Length, Task
  <2>2. /\ Script["app"][1] = <<"pin", 1>> /\ Script["app"][2] = <<"pin", 2>>
        /\ Script["app"][3] = <<"led", 1>> /\ Script["app"][4] = <<"led", 2>>
    BY DEF Script, Task
  <2> QED
    BY <1>1, <2>1, <2>2 DEF Holds, Fan
<1>2. CASE settled.by = "mqtt"
  <2>1. \A i \in 1 .. 6 : Holds("mqtt", i, settled.on)
    BY <1>2 DEF AllWritten, Length, Task
  <2>2. /\ Script["mqtt"][1] = <<"pin", 1>> /\ Script["mqtt"][2] = <<"state", 1>>
        /\ Script["mqtt"][3] = <<"led", 1>> /\ Script["mqtt"][4] = <<"pin", 2>>
        /\ Script["mqtt"][5] = <<"state", 2>> /\ Script["mqtt"][6] = <<"led", 2>>
    BY DEF Script, Task
  <2> QED
    BY <2>1, <2>2 DEF Holds, Fan
<1> QED
  BY <1>0, <1>1, <1>2 DEF Task

\* Whoever sets the fans alone, gets them set.
THEOREM LoneSwitch == Spec => []LoneSwitchTakesEffect
<1>1. TypeOK /\ Lone => LoneSwitchTakesEffect
  BY ScriptCovers DEF Lone, LoneSwitchTakesEffect
<1> QED
  BY <1>1, TypeInit, TypeStep, LoneInit, LoneStep, PTL DEF Spec

\* The state that is reported is that of the motors, if a command set it last.
THEOREM CommandedState == Spec => []CommandedStateIsTrue
<1>1. TypeOK /\ Lone => CommandedStateIsTrue
  BY ScriptCovers DEF Lone, CommandedStateIsTrue
<1> QED
  BY <1>1, TypeInit, TypeStep, LoneInit, LoneStep, PTL DEF Spec

=============================================================================
