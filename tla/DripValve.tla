------------------------------ MODULE DripValve ------------------------------
(***************************************************************************)
(* The drip valve driver of the green house firmware: Control_Drip of      *)
(* control.c, called from two tasks, and the restart that interrupts it.   *)
(*                                                                         *)
(* Each drip system has a latching solenoid valve with two coils.  "ON"    *)
(* pulses the coil on DRIPn_CLOSE_CTRL_PIN, anything else pulses the coil  *)
(* on DRIPn_OPEN_CTRL_PIN.  Around the pulse Control_Drip sleeps twice     *)
(* (vTaskDelay), and nothing locks the drip while it sleeps: the app loop  *)
(* (update_drip) and the MQTT event handler may be inside Control_Drip for *)
(* the same drip together.  Every write to a pin or to                     *)
(* greenHouseInfo.dripInfo[].state is therefore a step of its own here.    *)
(***************************************************************************)
EXTENDS Integers

CONSTANT DRIP_SYS            \* number of drip systems, 3 in green_house.h

ASSUME DripSysAssumption == DRIP_SYS \in Nat \ {0}

Drip == 1 .. DRIP_SYS        \* the id argument of Control_Drip
Task == {"app", "mqtt"}      \* the main task and the MQTT client's task
Cmd  == {"ON", "OFF"}        \* strstr(cmd, "ON") found, or not found
Coil == {"CLOSE", "OPEN"}

\* The program counter of a call: the statement that is executed next.
Pc == {"idle", "isolate", "energize", "release", "led", "state", "echo"}

Call == [pc : Pc, drip : Drip, cmd : Cmd, alone : BOOLEAN]

VARIABLES
  pin,     \* pin[d][c]: level of DRIPd_c_CTRL_PIN
  led,     \* led[d]: level of SOLd_LED_PIN, 0 lights it
  state,   \* state[d]: greenHouseInfo.dripInfo[d-1].state
  valve,   \* valve[d]: the position the valve is latched in (hardware)
  call,    \* call[t]: the Control_Drip call task t is in
  settled, \* settled[d]: history, the command of the last call on d if that
           \* call ran alone and nothing has happened to d since, else "none"
  sole     \* sole[t]: history, since the first write of the call of task t no
           \* other task has changed a coil of its drip

vars == <<pin, led, state, valve, call, settled, sole>>

TypeOK ==
  /\ pin \in [Drip -> [Coil -> {0, 1}]]
  /\ led \in [Drip -> {0, 1}]
  /\ state \in [Drip -> Cmd]
  /\ valve \in [Drip -> Cmd]
  /\ call \in [Task -> Call]
  /\ settled \in [Drip -> Cmd \cup {"none"}]
  /\ sole \in [Task -> BOOLEAN]

-----------------------------------------------------------------------------
(* The coil a command pulses, the other one, and the LED level it sets.    *)
Driven(cmd)   == IF cmd = "ON" THEN "CLOSE" ELSE "OPEN"
Opposite(cmd) == IF cmd = "ON" THEN "OPEN" ELSE "CLOSE"
LedLevel(cmd) == IF cmd = "ON" THEN 0 ELSE 1

Busy(t, d) == call[t].pc # "idle" /\ call[t].drip = d

(***************************************************************************)
(* The valve (hardware, not under src).  A coil that is let go at the end  *)
(* of its pulse with the other coil dead leaves the valve in that coil's   *)
(* position.  A coil cut off early, or let go while the other coil pulls   *)
(* too, leaves it anywhere.  Letting go of a dead coil moves nothing.      *)
(***************************************************************************)
CutOff(d, c) ==
  IF pin[d][c] = 1 THEN Cmd ELSE {valve[d]}

EndOfPulse(d, cmd) ==
  IF pin[d][Driven(cmd)] = 0 THEN {valve[d]}
  ELSE IF pin[d][Opposite(cmd)] = 0 THEN {cmd} ELSE Cmd

-----------------------------------------------------------------------------
(* Control_Drip, one action per statement.                                 *)

AfterIdle(t, d, cmd) ==
  [u \in Task |->
     IF u = t THEN [pc |-> "isolate", drip |-> d, cmd |-> cmd,
                    alone |-> \A v \in Task \ {t} : ~Busy(v, d)]
     ELSE [call[u] EXCEPT !.alone = @ /\ ~Busy(u, d)]]

\* A task enters Control_Drip(d, cmd): the app task from update_drip, the
\* MQTT task from the handler of a DRIPn_CTRL message.
Control_Drip(t, d, cmd) ==
  /\ call[t].pc = "idle"
  /\ call' = AfterIdle(t, d, cmd)
  /\ settled' = [settled EXCEPT ![d] = "none"]
  /\ sole' = [sole EXCEPT ![t] = FALSE]
  /\ UNCHANGED <<pin, led, state, valve>>

Goto(t, next) == call' = [call EXCEPT ![t].pc = next]

\* Task t writes a coil of drip d, and the other calls on d are no longer the
\* only ones to have changed a coil, if the write changes one.
Written(t, d, own) ==
  sole' = [u \in Task |->
             IF u = t THEN own
             ELSE sole[u] /\ (call[u].drip = d => pin'[d] = pin[d])]

\* Mutant: the opposite coil is not switched off.
IsolateNothing(t) ==
  /\ call[t].pc = "isolate"
  /\ Goto(t, "energize")
  /\ sole' = [sole EXCEPT ![t] = TRUE]
  /\ UNCHANGED <<pin, led, state, valve, settled>>

\* The opposite coil is switched off; then 100 ms of vTaskDelay.
Isolate(t) ==
  LET d == call[t].drip
      c == Opposite(call[t].cmd)
  IN /\ call[t].pc = "isolate"
     /\ \E pos \in CutOff(d, c) : valve' = [valve EXCEPT ![d] = pos]
     /\ pin' = [pin EXCEPT ![d][c] = 0]
     /\ Written(t, d, TRUE)
     /\ Goto(t, "energize")
     /\ UNCHANGED <<led, state, settled>>

\* Mutant: the coil of the opposite command is switched on.
EnergizeOpposite(t) ==
  LET d == call[t].drip
      c == Opposite(call[t].cmd)
  IN /\ call[t].pc = "energize"
     /\ pin' = [pin EXCEPT ![d][c] = 1]
     /\ Written(t, d, sole[t])
     /\ Goto(t, "release")
     /\ UNCHANGED <<led, state, valve, settled>>

\* The coil is switched on; then 50 ms of vTaskDelay.
Energize(t) ==
  LET d == call[t].drip
      c == Driven(call[t].cmd)
  IN /\ call[t].pc = "energize"
     /\ pin' = [pin EXCEPT ![d][c] = 1]
     /\ Written(t, d, sole[t])
     /\ Goto(t, "release")
     /\ UNCHANGED <<led, state, valve, settled>>

\* Case 1 of the switch writes the state before the LED when it turns the
\* drip off; every other arm writes the LED first.
StateFirst(t) == call[t].drip = 1 /\ call[t].cmd = "OFF"

\* Mutant: the coil is not switched off.
ReleaseNothing(t) ==
  /\ call[t].pc = "release"
  /\ Goto(t, IF StateFirst(t) THEN "state" ELSE "led")
  /\ UNCHANGED <<pin, led, state, valve, settled, sole>>

\* The coil is switched off at the end of the pulse.
Release(t) ==
  LET d == call[t].drip
      c == Driven(call[t].cmd)
  IN /\ call[t].pc = "release"
     /\ \E pos \in EndOfPulse(d, call[t].cmd) :
          valve' = [valve EXCEPT ![d] = pos]
     /\ pin' = [pin EXCEPT ![d][c] = 0]
     /\ Written(t, d, sole[t])
     /\ Goto(t, IF StateFirst(t) THEN "state" ELSE "led")
     /\ UNCHANGED <<led, state, settled>>

\* The last statement of Control_Drip returns to the caller: update_drip
\* (the app task) goes on to write the state once more, the MQTT handler
\* is done.
Return(t) ==
  LET d == call[t].drip
  IN IF t = "app"
     THEN Goto(t, "echo") /\ UNCHANGED settled
     ELSE /\ Goto(t, "idle")
          /\ settled' = [settled EXCEPT
                           ![d] = IF call[t].alone THEN call[t].cmd ELSE "none"]

\* SOLn_LED_PIN is written.
SetLed(t) ==
  LET d == call[t].drip
  IN /\ call[t].pc = "led"
     /\ led' = [led EXCEPT ![d] = LedLevel(call[t].cmd)]
     /\ IF StateFirst(t) THEN Return(t)
        ELSE Goto(t, "state") /\ UNCHANGED settled
     /\ UNCHANGED <<pin, state, valve, sole>>

\* Mutant: the state gets the text of the command, which update_drip spells Off.
SetStateText(t) ==
  LET d == call[t].drip
  IN /\ call[t].pc = "state"
     /\ state' = [state EXCEPT ![d] = IF call[t].cmd = "ON" THEN "ON" ELSE "Off"]
     /\ IF StateFirst(t) THEN Goto(t, "led") /\ UNCHANGED settled
        ELSE Return(t)
     /\ UNCHANGED <<pin, led, valve, sole>>

\* dripInfo[].state is written.
SetState(t) ==
  LET d == call[t].drip
  IN /\ call[t].pc = "state"
     /\ state' = [state EXCEPT ![d] = call[t].cmd]
     /\ IF StateFirst(t) THEN Goto(t, "led") /\ UNCHANGED settled
        ELSE Return(t)
     /\ UNCHANGED <<pin, led, valve, sole>>

\* update_drip writes the state again after Control_Drip has returned.
Echo(t) ==
  LET d == call[t].drip
  IN /\ call[t].pc = "echo"
     /\ state' = [state EXCEPT ![d] = call[t].cmd]
     /\ Goto(t, "idle")
     /\ settled' = [settled EXCEPT
                      ![d] = IF call[t].alone THEN call[t].cmd ELSE "none"]
     /\ UNCHANGED <<pin, led, valve, sole>>

Step(t) ==
  \/ Isolate(t)
  \/ Energize(t)
  \/ Release(t)
  \/ SetLed(t)
  \/ SetState(t)
  \/ Echo(t)

-----------------------------------------------------------------------------
IdleCalls ==
  [t \in Task |-> [pc |-> "idle", drip |-> 1, cmd |-> "OFF", alone |-> FALSE]]

\* Init and Init_GPIO drive every pin, LED and state to off and pulse no
\* coil: the valves stay wherever they are latched.
InitGpio ==
  /\ pin' = [d \in Drip |-> [c \in Coil |-> 0]]
  /\ led' = [d \in Drip |-> 1]
  /\ state' = [d \in Drip |-> "OFF"]

\* Reset or power cycle at any moment.  A coil that was pulling is cut off.
Restart ==
  /\ InitGpio
  /\ call' = IdleCalls
  /\ settled' = [d \in Drip |-> "none"]
  /\ sole' = [t \in Task |-> FALSE]
  /\ valve' \in {v \in [Drip -> Cmd] :
       \A d \in Drip : (\A c \in Coil : pin[d][c] = 0) => v[d] = valve[d]}

Init ==
  /\ pin = [d \in Drip |-> [c \in Coil |-> 0]]
  /\ led = [d \in Drip |-> 1]
  /\ state = [d \in Drip |-> "OFF"]
  /\ valve \in [Drip -> Cmd]
  /\ call = IdleCalls
  /\ settled = [d \in Drip |-> "none"]
  /\ sole = [t \in Task |-> FALSE]

Next ==
  \/ \E t \in Task, d \in Drip, cmd \in Cmd : Control_Drip(t, d, cmd)
  \/ \E t \in Task : Step(t)
  \/ Restart

Spec == Init /\ [][Next]_vars

\* vTaskDelay always wakes its task again, and both tasks are scheduled.
Fairness == \A t \in Task : WF_vars(Step(t))

FairSpec == Spec /\ Fairness

-----------------------------------------------------------------------------
(* Properties                                                              *)

\* A coil has current only while some task is inside the 50 ms pulse that
\* switched that very coil on: no interleaving of the two tasks, and no
\* restart, leaves a coil of control.c energised with nobody to release it.
CoilOnlyWhilePulsing ==
  \A d \in Drip, c \in Coil :
    pin[d][c] = 1 =>
      \E t \in Task : /\ call[t].pc = "release"
                      /\ call[t].drip = d
                      /\ Driven(call[t].cmd) = c

\* What the first write of Control_Drip is for, which a call that runs alone
\* does not need: a call that begins in the middle of the other task's pulse
\* still leaves the valve as commanded at the end of its own pulse, as long as
\* the other task changes no coil of that drip after this first write.
UndisturbedPulseWins ==
  \A t \in Task :
    sole[t] /\ call[t].pc \in {"led", "state", "echo"}
      => valve[call[t].drip] = call[t].cmd

\* A call of Control_Drip that no other call on the same drip overlapped
\* leaves valve, reported state and LED in agreement with its command,
\* whatever the races or restarts before it left behind.
LoneCallTakesEffect ==
  \A d \in Drip :
    settled[d] # "none" =>
      /\ valve[d] = settled[d]
      /\ state[d] = settled[d]
      /\ led[d] = LedLevel(settled[d])

\* Every coil that is energised is released again (a solenoid must not stay
\* under current), with both tasks competing for it and restarts at will.
EveryPulseEnds ==
  \A d \in Drip, c \in Coil : (pin[d][c] = 1) ~> (pin[d][c] = 0)

\* How far a call has got, in the terms of AtomicDrip: it takes effect at the
\* end of the pulse.
PhaseOf(pc) ==
  IF pc = "idle" THEN "none"
  ELSE IF pc \in {"isolate", "energize", "release"} THEN "called" ELSE "done"

Request ==
  [t \in Task |-> [phase |-> PhaseOf(call[t].pc), drip |-> call[t].drip,
                   cmd |-> call[t].cmd, alone |-> call[t].alone]]

Atomic == INSTANCE AtomicDrip WITH req <- Request

\* Control_Drip, with its two sleeps and its two callers, implements a valve
\* that is moved in one step: a lone call moves it exactly once, to where it
\* was told, at the end of the pulse, and between calls nothing moves it.
ImplementsAtomicDrip == Atomic!Spec

=============================================================================
