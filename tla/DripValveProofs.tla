--------------------------- MODULE DripValveProofs ---------------------------
(***************************************************************************)
(* Proofs, for any number of drip systems, that the driver of DripValve    *)
(* keeps its types, leaves no coil energised, and does what it was told    *)
(* when one task is in Control_Drip for the valve, or when two are and the *)
(* other one leaves the coils alone.                                       *)
(***************************************************************************)
EXTENDS DripValve, TLAPS

-----------------------------------------------------------------------------
(* The inductive invariant                                                 *)

\* A call marked alone shares its drip with no other call in progress.
Exclusive ==
  \A t, u \in Task :
    t # u /\ call[t].pc # "idle" /\ call[t].alone => ~Busy(u, call[t].drip)

\* A drip with a settled command has no call in progress.
Quiet ==
  \A d \in Drip : settled[d] # "none" => \A t \in Task : ~Busy(t, d)

\* What a call that is alone has achieved when it is about to execute the
\* statement at pc: its coil pulls during the pulse, the valve has moved
\* after it, and the LED and the state are written in the order of the arm
\* of the switch.
LoneProgressOf(t) ==
  LET d == call[t].drip
      cmd == call[t].cmd
  IN /\ call[t].pc = "release" => pin[d][Driven(cmd)] = 1
     /\ call[t].pc \in {"led", "state", "echo"} => valve[d] = cmd
     /\ call[t].pc = "state" /\ ~StateFirst(t) => led[d] = LedLevel(cmd)
     /\ call[t].pc = "led" /\ StateFirst(t) => state[d] = cmd
     /\ call[t].pc = "echo" => led[d] = LedLevel(cmd) /\ state[d] = cmd

LoneProgress == \A t \in Task : call[t].alone => LoneProgressOf(t)

IInv ==
  /\ TypeOK
  /\ CoilOnlyWhilePulsing
  /\ Exclusive
  /\ Quiet
  /\ LoneProgress
  /\ LoneCallTakesEffect

-----------------------------------------------------------------------------
LEMMA InitIInv == Init => IInv
BY DripSysAssumption
   DEF Init, IInv, TypeOK, CoilOnlyWhilePulsing, Exclusive, Quiet,
       LoneProgress, LoneProgressOf, LoneCallTakesEffect, IdleCalls, Busy,
       Drip, Task, Cmd, Coil, Pc, Call

\* Goto moves the program counter of one call and nothing else.
LEMMA GotoMoves ==
  ASSUME TypeOK, NEW t \in Task, NEW next \in Pc, Goto(t, next)
  PROVE  /\ call' \in [Task -> Call]
         /\ call'[t].pc = next
         /\ \A u \in Task : /\ call'[u].drip = call[u].drip
                            /\ call'[u].cmd = call[u].cmd
                            /\ call'[u].alone = call[u].alone
                            /\ u # t => call'[u].pc = call[u].pc
BY DEF Goto, TypeOK, Call

\* Returning ends the call or leads to the echo of update_drip.
LEMMA ReturnMoves ==
  ASSUME TypeOK, NEW t \in Task, Return(t)
  PROVE  /\ settled' \in [Drip -> Cmd \cup {"none"}]
         /\ \E next \in {"idle", "echo"} : Goto(t, next)
         /\ \/ Goto(t, "echo") /\ UNCHANGED settled
            \/ /\ Goto(t, "idle")
               /\ settled' = [settled EXCEPT ![call[t].drip] =
                               IF call[t].alone THEN call[t].cmd ELSE "none"]
<1>1. call[t].cmd \in Cmd
  BY DEF TypeOK, Call
<1> QED
  BY <1>1 DEF Return, TypeOK

\* The type invariant is inductive on its own.
LEMMA TypeStep == TypeOK /\ [Next]_vars => TypeOK'
<1> SUFFICES ASSUME TypeOK, [Next]_vars PROVE TypeOK'
  OBVIOUS
<1>0. \A t \in Task : /\ call[t] \in Call
                     /\ call[t].drip \in Drip
                     /\ call[t].cmd \in Cmd
                     /\ Driven(call[t].cmd) \in Coil
                     /\ Opposite(call[t].cmd) \in Coil
                     /\ LedLevel(call[t].cmd) \in {0, 1}
  BY DEF TypeOK, Call, Driven, Opposite, LedLevel, Coil
<1>1. ASSUME NEW t \in Task, NEW d \in Drip, NEW cmd \in Cmd,
             Control_Drip(t, d, cmd)
      PROVE TypeOK'
  BY <1>1 DEF Control_Drip, AfterIdle, Busy, TypeOK, Call, Pc
<1>2. ASSUME NEW t \in Task, Isolate(t) PROVE TypeOK'
  <2> DEFINE d == call[t].drip
             c == Opposite(call[t].cmd)
  <2>1. PICK pos \in CutOff(d, c) : valve' = [valve EXCEPT ![d] = pos]
    BY <1>2 DEF Isolate
  <2>2. pos \in Cmd
    BY <1>0, <2>1 DEF CutOff, TypeOK
  <2>3. call' \in [Task -> Call]
    BY <1>2, GotoMoves DEF Isolate, Pc
  <2> QED
    BY <1>0, <1>2, <2>1, <2>2, <2>3 DEF Isolate, Written, TypeOK
<1>3. ASSUME NEW t \in Task, Energize(t) PROVE TypeOK'
  <2>1. call' \in [Task -> Call]
    BY <1>3, GotoMoves DEF Energize, Pc
  <2> QED
    BY <1>0, <1>3, <2>1 DEF Energize, Written, TypeOK
<1>4. ASSUME NEW t \in Task, Release(t) PROVE TypeOK'
  <2> DEFINE d == call[t].drip
             c == Driven(call[t].cmd)
  <2>1. PICK pos \in EndOfPulse(d, call[t].cmd) :
          valve' = [valve EXCEPT ![d] = pos]
    BY <1>4 DEF Release
  <2>2. pos \in Cmd
    BY <1>0, <2>1 DEF EndOfPulse, TypeOK
  <2>3. call' \in [Task -> Call]
    BY <1>4, GotoMoves DEF Release, Pc
  <2> QED
    BY <1>0, <1>4, <2>1, <2>2, <2>3 DEF Release, Written, TypeOK
<1>5. ASSUME NEW t \in Task, SetLed(t) PROVE TypeOK'
  <2>1. led' \in [Drip -> {0, 1}]
    BY <1>0, <1>5 DEF SetLed, TypeOK
  <2>2. CASE StateFirst(t)
    BY <1>5, <2>1, <2>2, GotoMoves, ReturnMoves DEF SetLed, TypeOK, Pc
  <2>3. CASE ~StateFirst(t)
    BY <1>5, <2>1, <2>3, GotoMoves DEF SetLed, TypeOK, Pc
  <2> QED
    BY <2>2, <2>3
<1>6. ASSUME NEW t \in Task, SetState(t) PROVE TypeOK'
  <2>1. state' \in [Drip -> Cmd]
    BY <1>0, <1>6 DEF SetState, TypeOK
  <2>2. CASE StateFirst(t)
    BY <1>6, <2>1, <2>2, GotoMoves DEF SetState, TypeOK, Pc
  <2>3. CASE ~StateFirst(t)
    BY <1>6, <2>1, <2>3, GotoMoves, ReturnMoves DEF SetState, TypeOK, Pc
  <2> QED
    BY <2>2, <2>3
<1>7. ASSUME NEW t \in Task, Echo(t) PROVE TypeOK'
  <2>1. call' \in [Task -> Call]
    BY <1>7, GotoMoves DEF Echo, Pc
  <2> QED
    BY <1>0, <1>7, <2>1 DEF Echo, TypeOK
<1>8. CASE Restart
  BY <1>8, DripSysAssumption
     DEF Restart, InitGpio, IdleCalls, TypeOK, Call, Pc, Cmd, Drip
<1>9. CASE UNCHANGED vars
  BY <1>9 DEF vars, TypeOK
<1> QED
  BY <1>1, <1>2, <1>3, <1>4, <1>5, <1>6, <1>7, <1>8, <1>9 DEF Next, Step

\* Type correctness of the driver, for every number of drip systems.
THEOREM TypeCorrect == Spec => []TypeOK
<1>1. Init => TypeOK
  BY InitIInv DEF IInv
<1> QED
  BY <1>1, TypeStep, PTL DEF Spec

-----------------------------------------------------------------------------
(* No coil is left energised                                               *)

\* The types of the parts of a call.
LEMMA CallParts ==
  ASSUME TypeOK, NEW t \in Task
  PROVE  /\ call[t].drip \in Drip
         /\ call[t].cmd \in Cmd
         /\ call[t].pc \in Pc
         /\ call[t].alone \in BOOLEAN
         /\ Driven(call[t].cmd) \in Coil
         /\ Opposite(call[t].cmd) \in Coil
         /\ Driven(call[t].cmd) # Opposite(call[t].cmd)
BY DEF TypeOK, Call, Driven, Opposite, Coil

\* A step that switches no coil on and ends no pulse keeps every coil that
\* has current in the pulse that switched it on.
LEMMA CoilKept ==
  ASSUME TypeOK, CoilOnlyWhilePulsing,
         \A d \in Drip, c \in Coil : pin'[d][c] = 1 => pin[d][c] = 1,
         \A t \in Task : call[t].pc = "release" =>
           /\ call'[t].pc = "release"
           /\ call'[t].drip = call[t].drip
           /\ call'[t].cmd = call[t].cmd
  PROVE  CoilOnlyWhilePulsing'
BY DEF CoilOnlyWhilePulsing, Driven

LEMMA CoilStep ==
  TypeOK /\ CoilOnlyWhilePulsing /\ [Next]_vars => CoilOnlyWhilePulsing'
<1> SUFFICES ASSUME TypeOK, CoilOnlyWhilePulsing, [Next]_vars
             PROVE  CoilOnlyWhilePulsing'
  OBVIOUS
<1>1. ASSUME NEW t \in Task, NEW d \in Drip, NEW cmd \in Cmd,
             Control_Drip(t, d, cmd)
      PROVE  CoilOnlyWhilePulsing'
  <2>1. \A u \in Task : call[u].pc = "release" =>
           /\ call'[u].pc = "release"
           /\ call'[u].drip = call[u].drip
           /\ call'[u].cmd = call[u].cmd
    BY <1>1 DEF Control_Drip, AfterIdle, TypeOK, Call
  <2> QED
    BY <1>1, <2>1, CoilKept DEF Control_Drip
<1>2. ASSUME NEW t \in Task, Isolate(t) PROVE CoilOnlyWhilePulsing'
  <2>1. \A d \in Drip, c \in Coil : pin'[d][c] = 1 => pin[d][c] = 1
    BY <1>2, CallParts DEF Isolate, TypeOK
  <2> QED
    BY <1>2, <2>1, GotoMoves, CoilKept DEF Isolate, Pc
<1>3. ASSUME NEW t \in Task, Energize(t) PROVE CoilOnlyWhilePulsing'
  <2> SUFFICES ASSUME NEW d \in Drip, NEW c \in Coil, pin'[d][c] = 1
               PROVE  \E u \in Task : /\ call'[u].pc = "release"
                                      /\ call'[u].drip = d
                                      /\ Driven(call'[u].cmd) = c
    BY DEF CoilOnlyWhilePulsing, Driven
  <2>1. /\ call'[t].pc = "release"
        /\ \A u \in Task : /\ call'[u].drip = call[u].drip
                           /\ call'[u].cmd = call[u].cmd
                           /\ u # t => call'[u].pc = call[u].pc
    BY <1>3, GotoMoves DEF Energize, Pc
  <2>2. CASE d = call[t].drip /\ c = Driven(call[t].cmd)
    BY <2>1, <2>2
  <2>3. CASE ~(d = call[t].drip /\ c = Driven(call[t].cmd))
    <3>1. pin[d][c] = 1
      BY <1>3, <2>3, CallParts DEF Energize, TypeOK
    <3>2. PICK u \in Task : /\ call[u].pc = "release"
                            /\ call[u].drip = d
                            /\ Driven(call[u].cmd) = c
      BY <3>1 DEF CoilOnlyWhilePulsing
    <3>3. u # t
      BY <1>3, <3>2 DEF Energize
    <3> QED
      BY <2>1, <3>2, <3>3
  <2> QED
    BY <2>2, <2>3
<1>4. ASSUME NEW t \in Task, Release(t) PROVE CoilOnlyWhilePulsing'
  <2> SUFFICES ASSUME NEW d \in Drip, NEW c \in Coil, pin'[d][c] = 1
               PROVE  \E u \in Task : /\ call'[u].pc = "release"
                                      /\ call'[u].drip = d
                                      /\ Driven(call'[u].cmd) = c
    BY DEF CoilOnlyWhilePulsing, Driven
  <2>1. \A u \in Task : /\ call'[u].drip = call[u].drip
                        /\ call'[u].cmd = call[u].cmd
                        /\ u # t => call'[u].pc = call[u].pc
    BY <1>4, GotoMoves DEF Release, Pc
  <2>2. pin[d][c] = 1 /\ ~(d = call[t].drip /\ c = Driven(call[t].cmd))
    BY <1>4, CallParts DEF Release, TypeOK
  <2>3. PICK u \in Task : /\ call[u].pc = "release"
                          /\ call[u].drip = d
                          /\ Driven(call[u].cmd) = c
    BY <2>2 DEF CoilOnlyWhilePulsing
  <2> QED
    BY <2>1, <2>2, <2>3
<1>5. ASSUME NEW t \in Task, SetLed(t) \/ SetState(t) \/ Echo(t)
      PROVE  CoilOnlyWhilePulsing'
  <2>1. PICK next \in Pc : Goto(t, next)
    BY <1>5 DEF SetLed, SetState, Echo, Return, Pc
  <2>2. pin' = pin /\ call[t].pc # "release"
    BY <1>5 DEF SetLed, SetState, Echo
  <2> QED
    BY <2>1, <2>2, GotoMoves, CoilKept
<1>6. CASE Restart
  BY <1>6 DEF Restart, InitGpio, CoilOnlyWhilePulsing
<1>7. CASE UNCHANGED vars
  BY <1>7, CoilKept DEF vars
<1> QED
  BY <1>1, <1>2, <1>3, <1>4, <1>5, <1>6, <1>7 DEF Next, Step

\* No interleaving of the two tasks and no restart leaves a coil energised
\* outside the pulse of Control_Drip that switched it on.
THEOREM CoilSafety == Spec => []CoilOnlyWhilePulsing
<1>1. Init => TypeOK /\ CoilOnlyWhilePulsing
  BY InitIInv DEF IInv
<1> QED
  BY <1>1, TypeStep, CoilStep, PTL DEF Spec

-----------------------------------------------------------------------------
(* A call that is alone takes effect                                       *)

Lone == Exclusive /\ Quiet /\ LoneProgress /\ LoneCallTakesEffect

\* What a task that executes a statement of Control_Drip has to show: that it
\* touched only its own drip, that it made the progress the invariant says,
\* and that it settled the drip, if at all, with everything in place.
LEMMA LocalStep ==
  ASSUME TypeOK, Lone, NEW t \in Task, NEW next \in Pc, Goto(t, next),
         call[t].pc # "idle",
         \A e \in Drip \ {call[t].drip} :
           /\ pin'[e] = pin[e]
           /\ led'[e] = led[e]
           /\ state'[e] = state[e]
           /\ valve'[e] = valve[e]
           /\ settled'[e] = settled[e],
         call[t].alone => LoneProgressOf(t)',
         \/ settled'[call[t].drip] = "none"
         \/ /\ next = "idle"
            /\ call[t].alone
            /\ settled'[call[t].drip] = call[t].cmd
            /\ valve'[call[t].drip] = call[t].cmd
            /\ state'[call[t].drip] = call[t].cmd
            /\ led'[call[t].drip] = LedLevel(call[t].cmd)
  PROVE  Lone'
<1>0. /\ call'[t].pc = next
      /\ \A u \in Task : /\ call[u].drip \in Drip
                         /\ call'[u].drip = call[u].drip
                         /\ call'[u].cmd = call[u].cmd
                         /\ call'[u].alone = call[u].alone
                         /\ u # t => call'[u].pc = call[u].pc
                         /\ call'[u].pc # "idle" => call[u].pc # "idle"
  BY GotoMoves, CallParts
<1>1. Exclusive'
  BY <1>0 DEF Lone, Exclusive, Busy
<1>2. Quiet'
  <2> SUFFICES ASSUME NEW e \in Drip, settled'[e] # "none", NEW u \in Task,
                      call'[u].pc # "idle", call'[u].drip = e
               PROVE  FALSE
    BY DEF Quiet, Busy
  <2>1. CASE e = call[t].drip
    <3>1. next = "idle" /\ call[t].alone
      BY <2>1
    <3>2. u # t
      BY <1>0, <3>1
    <3> QED
      BY <1>0, <2>1, <3>1, <3>2 DEF Lone, Exclusive, Busy
  <2>2. CASE e # call[t].drip
    BY <1>0, <2>2 DEF Lone, Quiet, Busy
  <2> QED
    BY <2>1, <2>2
<1>3. LoneProgress'
  <2> SUFFICES ASSUME NEW u \in Task, call'[u].alone
               PROVE  LoneProgressOf(u)'
    BY DEF LoneProgress
  <2>1. CASE u = t
    BY <1>0, <2>1
  <2>2. CASE u # t /\ call[u].pc = "idle"
    BY <1>0, <2>2 DEF LoneProgressOf
  <2>3. CASE u # t /\ call[u].pc # "idle"
    <3>1. call[u].drip # call[t].drip
      BY <1>0, <2>3 DEF Lone, Exclusive, Busy
    <3>2. LoneProgressOf(u)
      BY <1>0 DEF Lone, LoneProgress
    <3> QED
      BY <1>0, <2>3, <3>1, <3>2
         DEF LoneProgressOf, StateFirst, Driven, LedLevel
  <2> QED
    BY <2>1, <2>2, <2>3
<1>4. LoneCallTakesEffect'
  BY <1>0 DEF Lone, LoneCallTakesEffect, LedLevel
<1> QED
  BY <1>1, <1>2, <1>3, <1>4 DEF Lone

LEMMA LoneStep ==
  TypeOK /\ CoilOnlyWhilePulsing /\ Lone /\ [Next]_vars => Lone'
<1> SUFFICES ASSUME TypeOK, CoilOnlyWhilePulsing, Lone, [Next]_vars
             PROVE  Lone'
  OBVIOUS
<1>0. ASSUME NEW t \in Task, call[t].pc # "idle"
      PROVE  settled[call[t].drip] = "none"
  BY <1>0, CallParts DEF Lone, Quiet, Busy
<1>1. ASSUME NEW t \in Task, NEW d \in Drip, NEW cmd \in Cmd,
             Control_Drip(t, d, cmd)
      PROVE  Lone'
  <2>1. /\ call'[t].pc = "isolate"
        /\ call'[t].drip = d
        /\ call'[t].alone => \A v \in Task \ {t} : ~Busy(v, d)
        /\ \A u \in Task \ {t} :
             /\ call'[u].pc = call[u].pc
             /\ call'[u].drip = call[u].drip
             /\ call'[u].cmd = call[u].cmd
             /\ call'[u].alone => call[u].alone /\ ~Busy(u, d)
    BY <1>1 DEF Control_Drip, AfterIdle, TypeOK, Call
  <2>2. Exclusive'
    <3> SUFFICES ASSUME NEW u \in Task, NEW v \in Task, u # v,
                        call'[u].pc # "idle", call'[u].alone,
                        call'[v].pc # "idle", call'[v].drip = call'[u].drip
                 PROVE  FALSE
      BY DEF Exclusive, Busy
    <3>1. CASE u = t
      BY <2>1, <3>1 DEF Busy
    <3>2. CASE v = t
      BY <2>1, <3>2 DEF Busy
    <3>3. CASE u # t /\ v # t
      BY <2>1, <3>3 DEF Lone, Exclusive, Busy
    <3> QED
      BY <3>1, <3>2, <3>3
  <2>3. settled' = [settled EXCEPT ![d] = "none"]
    BY <1>1 DEF Control_Drip
  <2>4. Quiet'
    BY <2>1, <2>3 DEF Lone, Quiet, Busy, TypeOK
  <2>5. LoneProgress'
    <3> SUFFICES ASSUME NEW u \in Task, call'[u].alone
                 PROVE  LoneProgressOf(u)'
      BY DEF LoneProgress
    <3>1. CASE u = t
      BY <2>1, <3>1 DEF LoneProgressOf
    <3>2. CASE u # t
      <4>1. LoneProgressOf(u)
        BY <2>1, <3>2 DEF Lone, LoneProgress
      <4> QED
        BY <1>1, <2>1, <3>2, <4>1
           DEF Control_Drip, LoneProgressOf, StateFirst, Driven, LedLevel
    <3> QED
      BY <3>1, <3>2
  <2>6. LoneCallTakesEffect'
    <3>1. \A e \in Drip : settled'[e] # "none" => settled'[e] = settled[e]
      BY <2>3 DEF TypeOK
    <3>2. led' = led /\ state' = state /\ valve' = valve
      BY <1>1 DEF Control_Drip
    <3> QED
      BY <3>1, <3>2 DEF Lone, LoneCallTakesEffect, LedLevel
  <2> QED
    BY <2>2, <2>4, <2>5, <2>6 DEF Lone
<1>2. ASSUME NEW t \in Task, Isolate(t) PROVE Lone'
  <2>1. Goto(t, "energize") /\ call'[t].pc = "energize"
    BY <1>2, GotoMoves DEF Isolate, Pc
  <2>2. LoneProgressOf(t)'
    BY <2>1 DEF LoneProgressOf
  <2>3. \A e \in Drip \ {call[t].drip} : pin'[e] = pin[e] /\ valve'[e] = valve[e]
    BY <1>2, CallParts DEF Isolate, TypeOK
  <2> QED
    BY <1>0, <1>2, <2>1, <2>2, <2>3, LocalStep DEF Isolate, Pc
<1>3. ASSUME NEW t \in Task, Energize(t) PROVE Lone'
  <2>1. Goto(t, "release") /\ call'[t].pc = "release"
        /\ call'[t].drip = call[t].drip /\ call'[t].cmd = call[t].cmd
    BY <1>3, GotoMoves DEF Energize, Pc
  <2>2. /\ pin'[call[t].drip][Driven(call[t].cmd)] = 1
        /\ \A e \in Drip \ {call[t].drip} : pin'[e] = pin[e]
    BY <1>3, CallParts DEF Energize, TypeOK
  <2>3. LoneProgressOf(t)'
    BY <2>1, <2>2 DEF LoneProgressOf, Driven
  <2> QED
    BY <1>0, <1>3, <2>1, <2>2, <2>3, LocalStep DEF Energize, Pc
<1>4. ASSUME NEW t \in Task, Release(t) PROVE Lone'
  <2> DEFINE d == call[t].drip
             cmd == call[t].cmd
  <2>1. PICK next \in {"state", "led"} :
          Goto(t, next) /\ (next = "state" <=> StateFirst(t))
    BY <1>4 DEF Release
  <2>2. call'[t].pc = next /\ call'[t].drip = d /\ call'[t].cmd = cmd
    BY <2>1, GotoMoves DEF Pc
  <2>3. \A e \in Drip \ {d} : pin'[e] = pin[e] /\ valve'[e] = valve[e]
    BY <1>4, CallParts DEF Release, TypeOK
  <2>4. ASSUME call[t].alone PROVE valve'[d] = cmd
    <3>1. pin[d][Driven(cmd)] = 1
      BY <1>4, <2>4 DEF Release, Lone, LoneProgress, LoneProgressOf
    <3>2. pin[d][Opposite(cmd)] = 0
      <4> SUFFICES ASSUME pin[d][Opposite(cmd)] = 1 PROVE FALSE
        BY CallParts DEF TypeOK
      <4>1. PICK u \in Task : /\ call[u].pc = "release" /\ call[u].drip = d
                              /\ Driven(call[u].cmd) = Opposite(cmd)
        BY CallParts DEF CoilOnlyWhilePulsing
      <4>2. u # t
        BY <4>1, CallParts
      <4> QED
        BY <1>4, <2>4, <4>1, <4>2 DEF Release, Lone, Exclusive, Busy
    <3> QED
      BY <1>4, <3>1, <3>2, CallParts DEF Release, EndOfPulse, TypeOK
  <2>5. call[t].alone => LoneProgressOf(t)'
    BY <2>1, <2>2, <2>4 DEF LoneProgressOf, StateFirst
  <2> QED
    BY <1>0, <1>4, <2>1, <2>3, <2>5, LocalStep DEF Release, Pc
<1>5. ASSUME NEW t \in Task, SetLed(t) PROVE Lone'
  <2> DEFINE d == call[t].drip
             cmd == call[t].cmd
  <2>1. /\ led'[d] = LedLevel(cmd)
        /\ \A e \in Drip \ {d} : led'[e] = led[e]
    BY <1>5, CallParts DEF SetLed, TypeOK
  <2>2. call[t].alone => LoneProgressOf(t)
    BY DEF Lone, LoneProgress
  <2>3. CASE StateFirst(t)
    <3>1. Return(t)
      BY <1>5, <2>3 DEF SetLed
    <3>2. PICK next \in {"idle", "echo"} : Goto(t, next)
      BY <3>1, ReturnMoves
    <3>3. call'[t].pc = next /\ call'[t].drip = d /\ call'[t].cmd = cmd
      BY <3>2, GotoMoves DEF Pc
    <3>4. call[t].alone => valve[d] = cmd /\ state[d] = cmd
      BY <1>5, <2>2, <2>3 DEF SetLed, LoneProgressOf
    <3>5. call[t].alone => LoneProgressOf(t)'
      BY <1>5, <2>1, <3>2, <3>3, <3>4 DEF SetLed, LoneProgressOf, LedLevel
    <3>6. \/ settled' = settled
          \/ /\ next = "idle"
             /\ settled' = [settled EXCEPT ![d] =
                              IF call[t].alone THEN cmd ELSE "none"]
      BY <3>1, <3>2, <3>3, ReturnMoves, GotoMoves DEF Pc
    <3> QED
      BY <1>0, <1>5, <2>1, <3>2, <3>4, <3>5, <3>6, LocalStep, CallParts
         DEF SetLed, Pc, TypeOK
  <2>4. CASE ~StateFirst(t)
    <3>1. Goto(t, "state") /\ settled' = settled
      BY <1>5, <2>4 DEF SetLed
    <3>2. call'[t].pc = "state" /\ call'[t].drip = d /\ call'[t].cmd = cmd
      BY <3>1, GotoMoves DEF Pc
    <3>3. call[t].alone => valve[d] = cmd
      BY <1>5, <2>2 DEF SetLed, LoneProgressOf
    <3>4. call[t].alone => LoneProgressOf(t)'
      BY <1>5, <2>1, <3>2, <3>3 DEF SetLed, LoneProgressOf, LedLevel
    <3> QED
      BY <1>0, <1>5, <2>1, <3>1, <3>4, LocalStep DEF SetLed, Pc
  <2> QED
    BY <2>3, <2>4
<1>6. ASSUME NEW t \in Task, SetState(t) PROVE Lone'
  <2> DEFINE d == call[t].drip
             cmd == call[t].cmd
  <2>1. /\ state'[d] = cmd
        /\ \A e \in Drip \ {d} : state'[e] = state[e]
    BY <1>6, CallParts DEF SetState, TypeOK
  <2>2. call[t].alone => LoneProgressOf(t)
    BY DEF Lone, LoneProgress
  <2>3. CASE ~StateFirst(t)
    <3>1. Return(t)
      BY <1>6, <2>3 DEF SetState
    <3>2. PICK next \in {"idle", "echo"} : Goto(t, next)
      BY <3>1, ReturnMoves
    <3>3. call'[t].pc = next /\ call'[t].drip = d /\ call'[t].cmd = cmd
      BY <3>2, GotoMoves DEF Pc
    <3>4. call[t].alone => valve[d] = cmd /\ led[d] = LedLevel(cmd)
      BY <1>6, <2>2, <2>3 DEF SetState, LoneProgressOf
    <3>5. call[t].alone => LoneProgressOf(t)'
      BY <1>6, <2>1, <3>2, <3>3, <3>4 DEF SetState, LoneProgressOf, LedLevel
    <3>6. \/ settled' = settled
          \/ /\ next = "idle"
             /\ settled' = [settled EXCEPT ![d] =
                              IF call[t].alone THEN cmd ELSE "none"]
      BY <3>1, <3>2, <3>3, ReturnMoves, GotoMoves DEF Pc
    <3> QED
      BY <1>0, <1>6, <2>1, <3>2, <3>4, <3>5, <3>6, LocalStep, CallParts
         DEF SetState, Pc, TypeOK
  <2>4. CASE StateFirst(t)
    <3>1. Goto(t, "led") /\ settled' = settled
      BY <1>6, <2>4 DEF SetState
    <3>2. call'[t].pc = "led" /\ call'[t].drip = d /\ call'[t].cmd = cmd
      BY <3>1, GotoMoves DEF Pc
    <3>3. call[t].alone => valve[d] = cmd
      BY <1>6, <2>2 DEF SetState, LoneProgressOf
    <3>4. call[t].alone => LoneProgressOf(t)'
      BY <1>6, <2>1, <3>2, <3>3 DEF SetState, LoneProgressOf
    <3> QED
      BY <1>0, <1>6, <2>1, <3>1, <3>4, LocalStep DEF SetState, Pc
  <2> QED
    BY <2>3, <2>4
<1>7. ASSUME NEW t \in Task, Echo(t) PROVE Lone'
  <2> DEFINE d == call[t].drip
             cmd == call[t].cmd
  <2>1. /\ state'[d] = cmd
        /\ \A e \in Drip \ {d} : state'[e] = state[e] /\ settled'[e] = settled[e]
        /\ settled'[d] = IF call[t].alone THEN cmd ELSE "none"
    BY <1>7, CallParts DEF Echo, TypeOK
  <2>2. Goto(t, "idle") /\ call'[t].pc = "idle"
    BY <1>7, GotoMoves DEF Echo, Pc
  <2>3. call[t].alone => valve[d] = cmd /\ led[d] = LedLevel(cmd)
    BY <1>7 DEF Echo, Lone, LoneProgress, LoneProgressOf
  <2>4. LoneProgressOf(t)'
    BY <2>2 DEF LoneProgressOf
  <2> QED
    BY <1>7, <2>1, <2>2, <2>3, <2>4, LocalStep DEF Echo, Pc
<1>8. CASE Restart
  BY <1>8 DEF Restart, IdleCalls, Lone, Exclusive, Quiet, LoneProgress,
              LoneProgressOf, LoneCallTakesEffect, Busy
<1>9. CASE UNCHANGED vars
  BY <1>9 DEF vars, Lone, Exclusive, Quiet, LoneProgress, LoneProgressOf,
              LoneCallTakesEffect, Busy, StateFirst
<1> QED
  BY <1>1, <1>2, <1>3, <1>4, <1>5, <1>6, <1>7, <1>8, <1>9 DEF Next, Step

\* A call of Control_Drip that no other call on its drip overlapped leaves
\* valve, state and LED as commanded, whatever happened before it.
THEOREM LoneCallHolds == Spec => []LoneCallTakesEffect
<1>1. Init => TypeOK /\ CoilOnlyWhilePulsing /\ Lone
  BY InitIInv DEF IInv, Lone
<1>2. Lone => LoneCallTakesEffect
  BY DEF Lone
<1> QED
  BY <1>1, <1>2, TypeStep, CoilStep, LoneStep, PTL DEF Spec

-----------------------------------------------------------------------------
(* A pulse that nobody disturbs moves the valve                            *)

\* What a call has achieved whose drip no other task has changed a coil of
\* since its first write: the opposite coil is dead, and the valve follows.
SoleProgressOf(t) ==
  LET d == call[t].drip
      cmd == call[t].cmd
  IN /\ call[t].pc \in {"energize", "release"} => pin[d][Opposite(cmd)] = 0
     /\ call[t].pc = "release" => pin[d][Driven(cmd)] = 1
     /\ call[t].pc \in {"led", "state", "echo"} => valve[d] = cmd

SoleProgress == \A t \in Task : sole[t] => SoleProgressOf(t)

\* A call keeps what it has achieved while others move.
LEMMA SoleKept ==
  ASSUME NEW u \in Task, SoleProgressOf(u),
         call'[u].pc = call[u].pc,
         call'[u].drip = call[u].drip,
         call'[u].cmd = call[u].cmd,
         pin'[call[u].drip] = pin[call[u].drip],
         valve'[call[u].drip] = valve[call[u].drip]
  PROVE  SoleProgressOf(u)'
BY DEF SoleProgressOf, Driven, Opposite

\* A write of task t to a coil leaves the other calls what they have achieved,
\* or they are no longer undisturbed.
LEMMA OthersKeep ==
  ASSUME TypeOK, SoleProgress, NEW t \in Task, NEW next \in Pc,
         Goto(t, next), NEW own, Written(t, call[t].drip, own),
         \A e \in Drip \ {call[t].drip} : pin'[e] = pin[e] /\ valve'[e] = valve[e],
         pin'[call[t].drip] = pin[call[t].drip]
           => valve'[call[t].drip] = valve[call[t].drip],
         NEW u \in Task \ {t}, sole'[u]
  PROVE  SoleProgressOf(u)'
<1>1. /\ call'[u].pc = call[u].pc
      /\ call'[u].drip = call[u].drip
      /\ call'[u].cmd = call[u].cmd
  BY GotoMoves
<1>2. sole[u] /\ (call[u].drip = call[t].drip => pin'[call[t].drip] = pin[call[t].drip])
  BY DEF Written
<1>3. SoleProgressOf(u)
  BY <1>2 DEF SoleProgress
<1>4. pin'[call[u].drip] = pin[call[u].drip] /\ valve'[call[u].drip] = valve[call[u].drip]
  BY <1>2, CallParts
<1> QED
  BY <1>1, <1>3, <1>4, SoleKept

\* A statement that writes no coil and moves no valve.
LEMMA SoleQuietStep ==
  ASSUME TypeOK, SoleProgress, NEW t \in Task, NEW next \in {"led", "state", "echo", "idle"},
         Goto(t, next), call[t].pc \in {"led", "state", "echo"},
         UNCHANGED <<pin, valve, sole>>
  PROVE  SoleProgress'
<1> SUFFICES ASSUME NEW u \in Task, sole'[u] PROVE SoleProgressOf(u)'
  BY DEF SoleProgress
<1>1. SoleProgressOf(u)
  BY DEF SoleProgress
<1>2. /\ call'[t].pc = next
      /\ call'[u].drip = call[u].drip
      /\ call'[u].cmd = call[u].cmd
      /\ u # t => call'[u].pc = call[u].pc
  BY GotoMoves DEF Pc
<1>3. CASE u = t
  BY <1>1, <1>2, <1>3 DEF SoleProgressOf
<1>4. CASE u # t
  BY <1>1, <1>2, <1>4, SoleKept
<1> QED
  BY <1>3, <1>4

LEMMA SoleStep == TypeOK /\ SoleProgress /\ [Next]_vars => SoleProgress'
<1> SUFFICES ASSUME TypeOK, SoleProgress, [Next]_vars PROVE SoleProgress'
  OBVIOUS
<1>1. ASSUME NEW t \in Task, NEW d \in Drip, NEW cmd \in Cmd,
             Control_Drip(t, d, cmd)
      PROVE  SoleProgress'
  <2> SUFFICES ASSUME NEW u \in Task, sole'[u] PROVE SoleProgressOf(u)'
    BY DEF SoleProgress
  <2>1. u # t /\ sole[u]
    BY <1>1 DEF Control_Drip, TypeOK
  <2>2. /\ call'[u].pc = call[u].pc
        /\ call'[u].drip = call[u].drip
        /\ call'[u].cmd = call[u].cmd
    BY <1>1, <2>1 DEF Control_Drip, AfterIdle, TypeOK, Call
  <2> QED
    BY <1>1, <2>1, <2>2, SoleKept DEF Control_Drip, SoleProgress
<1>2. ASSUME NEW t \in Task, Isolate(t) PROVE SoleProgress'
  <2> DEFINE d == call[t].drip
             c == Opposite(call[t].cmd)
  <2> SUFFICES ASSUME NEW u \in Task, sole'[u] PROVE SoleProgressOf(u)'
    BY DEF SoleProgress
  <2>1. PICK pos \in CutOff(d, c) : valve' = [valve EXCEPT ![d] = pos]
    BY <1>2 DEF Isolate
  <2>2. Goto(t, "energize") /\ Written(t, d, TRUE)
    BY <1>2 DEF Isolate
  <2>3. /\ pin'[d][c] = 0
        /\ \A e \in Drip \ {d} : pin'[e] = pin[e] /\ valve'[e] = valve[e]
    BY <1>2, <2>1, CallParts DEF Isolate, TypeOK
  <2>4. pin'[d] = pin[d] => valve'[d] = valve[d]
    <3> SUFFICES ASSUME pin'[d] = pin[d] PROVE valve'[d] = valve[d]
      OBVIOUS
    <3>1. pos = valve[d]
      BY <2>1, <2>3 DEF CutOff
    <3> QED
      BY <2>1, <3>1, CallParts DEF TypeOK
  <2>5. CASE u = t
    <3>1. call'[t].pc = "energize" /\ call'[t].drip = d /\ call'[t].cmd = call[t].cmd
      BY <2>2, GotoMoves DEF Pc
    <3> QED
      BY <2>3, <2>5, <3>1 DEF SoleProgressOf, Opposite
  <2>6. CASE u # t
    BY <2>2, <2>3, <2>4, <2>6, OthersKeep DEF Pc
  <2> QED
    BY <2>5, <2>6
<1>3. ASSUME NEW t \in Task, Energize(t) PROVE SoleProgress'
  <2> DEFINE d == call[t].drip
             c == Driven(call[t].cmd)
  <2> SUFFICES ASSUME NEW u \in Task, sole'[u] PROVE SoleProgressOf(u)'
    BY DEF SoleProgress
  <2>1. Goto(t, "release") /\ Written(t, d, sole[t]) /\ valve' = valve
    BY <1>3 DEF Energize
  <2>2. /\ pin'[d][c] = 1
        /\ pin'[d][Opposite(call[t].cmd)] = pin[d][Opposite(call[t].cmd)]
        /\ \A e \in Drip \ {d} : pin'[e] = pin[e]
    BY <1>3, CallParts DEF Energize, TypeOK
  <2>3. CASE u = t
    <3>1. call'[t].pc = "release" /\ call'[t].drip = d /\ call'[t].cmd = call[t].cmd
      BY <2>1, GotoMoves DEF Pc
    <3>2. sole[t]
      BY <2>1, <2>3 DEF Written
    <3>3. pin[d][Opposite(call[t].cmd)] = 0
      BY <1>3, <3>2 DEF Energize, SoleProgress, SoleProgressOf
    <3> QED
      BY <2>2, <2>3, <3>1, <3>3 DEF SoleProgressOf, Opposite, Driven
  <2>4. CASE u # t
    BY <2>1, <2>2, <2>4, OthersKeep DEF Pc
  <2> QED
    BY <2>3, <2>4
<1>4. ASSUME NEW t \in Task, Release(t) PROVE SoleProgress'
  <2> DEFINE d == call[t].drip
             cmd == call[t].cmd
             c == Driven(cmd)
             next == IF StateFirst(t) THEN "state" ELSE "led"
  <2> SUFFICES ASSUME NEW u \in Task, sole'[u] PROVE SoleProgressOf(u)'
    BY DEF SoleProgress
  <2>1. PICK pos \in EndOfPulse(d, cmd) : valve' = [valve EXCEPT ![d] = pos]
    BY <1>4 DEF Release
  <2>2. Goto(t, next) /\ Written(t, d, sole[t]) /\ next \in Pc
    BY <1>4 DEF Release, Pc
  <2>3. /\ pin'[d][c] = 0
        /\ valve'[d] = pos
        /\ \A e \in Drip \ {d} : pin'[e] = pin[e] /\ valve'[e] = valve[e]
    BY <1>4, <2>1, CallParts DEF Release, TypeOK
  <2>4. pin'[d] = pin[d] => valve'[d] = valve[d]
    <3> SUFFICES ASSUME pin'[d] = pin[d] PROVE valve'[d] = valve[d]
      OBVIOUS
    <3> QED
      BY <2>1, <2>3 DEF EndOfPulse
  <2>5. CASE u = t
    <3>1. call'[t].pc \in {"state", "led"} /\ call'[t].drip = d /\ call'[t].cmd = cmd
      BY <2>2, GotoMoves
    <3>2. sole[t]
      BY <2>2, <2>5 DEF Written
    <3>3. pin[d][Opposite(cmd)] = 0 /\ pin[d][c] = 1
      BY <1>4, <3>2 DEF Release, SoleProgress, SoleProgressOf
    <3>4. pos = cmd
      BY <2>1, <3>3 DEF EndOfPulse
    <3> QED
      BY <2>3, <2>5, <3>1, <3>4 DEF SoleProgressOf
  <2>6. CASE u # t
    <3> HIDE DEF next
    <3> QED
      BY <2>2, <2>3, <2>4, <2>6, OthersKeep
  <2> QED
    BY <2>5, <2>6
<1>5. ASSUME NEW t \in Task, SetLed(t) \/ SetState(t) \/ Echo(t)
      PROVE  SoleProgress'
  <2>1. PICK next \in {"led", "state", "echo", "idle"} : Goto(t, next)
    BY <1>5 DEF SetLed, SetState, Echo, Return
  <2>2. call[t].pc \in {"led", "state", "echo"} /\ UNCHANGED <<pin, valve, sole>>
    BY <1>5 DEF SetLed, SetState, Echo
  <2> QED
    BY <2>1, <2>2, SoleQuietStep
<1>6. CASE Restart
  BY <1>6 DEF Restart, SoleProgress
<1>7. CASE UNCHANGED vars
  <2> SUFFICES ASSUME NEW u \in Task, sole'[u] PROVE SoleProgressOf(u)'
    BY DEF SoleProgress
  <2> QED
    BY <1>7, SoleKept DEF vars, SoleProgress
<1> QED
  BY <1>1, <1>2, <1>3, <1>4, <1>5, <1>6, <1>7 DEF Next, Step

\* A call of Control_Drip that cuts the other task's pulse short, and whose own
\* pulse that task does not touch, leaves the valve as commanded.
THEOREM PulseWins == Spec => []UndisturbedPulseWins
<1>1. Init => TypeOK /\ SoleProgress
  BY InitIInv DEF IInv, Init, SoleProgress
<1>2. SoleProgress => UndisturbedPulseWins
  BY DEF SoleProgress, SoleProgressOf, UndisturbedPulseWins
<1> QED
  BY <1>1, <1>2, TypeStep, SoleStep, PTL DEF Spec

-----------------------------------------------------------------------------
(* Control_Drip implements a valve that is moved in one step               *)

\* A call that goes on within its phase is a stutter of the abstract valve.
LEMMA SamePhase ==
  ASSUME TypeOK, NEW t \in Task, NEW next \in Pc, Goto(t, next),
         PhaseOf(next) = PhaseOf(call[t].pc)
  PROVE  Request' = Request
<1>1. \A u \in Task : /\ PhaseOf(call'[u].pc) = PhaseOf(call[u].pc)
                      /\ call'[u].drip = call[u].drip
                      /\ call'[u].cmd = call[u].cmd
                      /\ call'[u].alone = call[u].alone
  BY GotoMoves
<1> QED
  BY <1>1 DEF Request

\* A call that goes on to another phase changes that phase and nothing else.
LEMMA NextPhase ==
  ASSUME TypeOK, NEW t \in Task, NEW next \in Pc, Goto(t, next)
  PROVE  Request' = [Request EXCEPT ![t].phase = PhaseOf(next)]
<1>1. \A u \in Task : /\ call'[u].drip = call[u].drip
                      /\ call'[u].cmd = call[u].cmd
                      /\ call'[u].alone = call[u].alone
                      /\ u # t => call'[u].pc = call[u].pc
                      /\ u = t => call'[u].pc = next
  BY GotoMoves
<1> QED
  BY <1>1 DEF Request

\* The end of a call is a step Finish of the abstract valve, or a stutter.
LEMMA ReturnRefines ==
  ASSUME TypeOK, NEW t \in Task, Return(t), UNCHANGED valve,
         PhaseOf(call[t].pc) = "done"
  PROVE  [Atomic!Next]_(Atomic!vars)
<1>1. CASE Goto(t, "echo")
  <2>1. Request' = Request
    BY <1>1, SamePhase DEF PhaseOf, Pc
  <2> QED
    BY <2>1 DEF Atomic!vars
<1>2. CASE Goto(t, "idle")
  <2>1. Request' = [Request EXCEPT ![t].phase = "none"]
    BY <1>2, NextPhase DEF PhaseOf, Pc
  <2>2. Request[t].phase = "done"
    BY DEF Request
  <2> QED
    BY <2>1, <2>2 DEF Atomic!Next, Atomic!Finish
<1> QED
  BY <1>1, <1>2, ReturnMoves

\* Every step of the driver is a step of the abstract valve or a stutter.
LEMMA StepRefines ==
  TypeOK /\ CoilOnlyWhilePulsing /\ Lone /\ [Next]_vars
    => [Atomic!Next]_(Atomic!vars)
<1> SUFFICES ASSUME TypeOK, CoilOnlyWhilePulsing, Lone, [Next]_vars
             PROVE  [Atomic!Next]_(Atomic!vars)
  OBVIOUS
<1>1. ASSUME NEW t \in Task, NEW d \in Drip, NEW cmd \in Cmd,
             Control_Drip(t, d, cmd)
      PROVE  Atomic!Invoke(t, d, cmd)
  <2>1. \A u \in Task : Busy(u, d) <=> Atomic!Open(u, d)
    BY DEF Busy, Atomic!Open, Request, PhaseOf
  <2>3. Request[t].phase = "none"
    BY <1>1 DEF Control_Drip, Request, PhaseOf
  <2>4. \A u \in Task \ {t} :
          call'[u] = [call[u] EXCEPT !.alone = @ /\ ~Busy(u, d)]
    BY <1>1 DEF Control_Drip, AfterIdle
  <2>5. ASSUME NEW u \in Task \ {t}
        PROVE  Request'[u] =
                 [Request[u] EXCEPT !.alone = @ /\ ~Atomic!Open(u, d)]
    <3>1. call[u] \in Call
      BY DEF TypeOK
    <3>2. /\ call'[u].pc = call[u].pc
          /\ call'[u].drip = call[u].drip
          /\ call'[u].cmd = call[u].cmd
          /\ call'[u].alone = (call[u].alone /\ ~Busy(u, d))
      BY <2>4, <3>1 DEF Call
    <3>3. Request'[u] = [phase |-> PhaseOf(call[u].pc),
                         drip |-> call[u].drip, cmd |-> call[u].cmd,
                         alone |-> (call[u].alone /\ ~Busy(u, d))]
      BY <3>2 DEF Request
    <3>4. Request[u].alone = call[u].alone
      BY DEF Request
    <3>5. (Request[u].alone /\ ~Atomic!Open(u, d))
            = (call[u].alone /\ ~Busy(u, d))
      BY <2>1, <3>4
    <3>6. ASSUME NEW b
          PROVE  [Request[u] EXCEPT !.alone = b]
                   = [phase |-> PhaseOf(call[u].pc), drip |-> call[u].drip,
                      cmd |-> call[u].cmd, alone |-> b]
      BY DEF Request
    <3> QED
      BY <3>3, <3>5, <3>6, Zenon
  <2>6. Request'[t] = [phase |-> "called", drip |-> d, cmd |-> cmd,
                       alone |-> \A v \in Task \ {t} : ~Atomic!Open(v, d)]
    BY <1>1, <2>1 DEF Control_Drip, AfterIdle, Request, PhaseOf
  <2>7. Request' = [u \in Task |->
          IF u = t THEN [phase |-> "called", drip |-> d, cmd |-> cmd,
                         alone |-> \A v \in Task \ {t} : ~Atomic!Open(v, d)]
          ELSE [Request[u] EXCEPT !.alone = @ /\ ~Atomic!Open(u, d)]]
    <3>1. Request' = [u \in Task |-> Request'[u]]
      BY DEF Request
    <3> QED
      BY <2>5, <2>6, <3>1
  <2> QED
    BY <1>1, <2>3, <2>7 DEF Atomic!Invoke, Control_Drip
<1>2. ASSUME NEW t \in Task, Isolate(t) PROVE [Atomic!Next]_(Atomic!vars)
  <2> DEFINE d == call[t].drip
             c == Opposite(call[t].cmd)
  <2>1. Request' = Request
    BY <1>2, SamePhase DEF Isolate, PhaseOf, Pc
  <2>2. PICK pos \in CutOff(d, c) : valve' = [valve EXCEPT ![d] = pos]
    BY <1>2 DEF Isolate
  <2>3. CASE pin[d][c] # 1
    BY <2>1, <2>2, <2>3, CallParts DEF CutOff, Atomic!vars, TypeOK
  <2>4. CASE pin[d][c] = 1
    <3>1. PICK u \in Task : /\ call[u].pc = "release"
                            /\ call[u].drip = d
      BY <2>4, CallParts DEF CoilOnlyWhilePulsing
    <3>2. u # t /\ Busy(u, d)
      BY <1>2, <3>1 DEF Isolate, Busy
    <3>3. ~call[t].alone
      BY <1>2, <3>2 DEF Isolate, Lone, Exclusive
    <3>4. Atomic!Fight(t)
      BY <1>2, <2>1, <2>2, <2>4, <3>3
         DEF Isolate, CutOff, Atomic!Fight, Request, PhaseOf
    <3> QED
      BY <3>4 DEF Atomic!Next
  <2> QED
    BY <2>3, <2>4
<1>3. ASSUME NEW t \in Task, Energize(t) PROVE UNCHANGED Atomic!vars
  <2>1. Request' = Request
    BY <1>3, SamePhase DEF Energize, PhaseOf, Pc
  <2> QED
    BY <1>3, <2>1 DEF Energize, Atomic!vars
<1>4. ASSUME NEW t \in Task, Release(t) PROVE Atomic!Apply(t)
  <2> DEFINE d == call[t].drip
             cmd == call[t].cmd
  <2>1. Request' = [Request EXCEPT ![t].phase = "done"]
    BY <1>4, NextPhase DEF Release, PhaseOf, Pc
  <2>2. PICK pos \in EndOfPulse(d, cmd) : valve' = [valve EXCEPT ![d] = pos]
    BY <1>4 DEF Release
  <2>3. pos \in Cmd
    BY <2>2, CallParts DEF EndOfPulse, TypeOK
  <2>4. ASSUME call[t].alone PROVE pos = cmd
    <3>1. pin[d][Driven(cmd)] = 1
      BY <1>4, <2>4 DEF Release, Lone, LoneProgress, LoneProgressOf
    <3>2. pin[d][Opposite(cmd)] = 0
      <4> SUFFICES ASSUME pin[d][Opposite(cmd)] = 1 PROVE FALSE
        BY CallParts DEF TypeOK
      <4>1. PICK u \in Task : /\ call[u].pc = "release"
                              /\ call[u].drip = d
                              /\ Driven(call[u].cmd) = Opposite(cmd)
        BY CallParts DEF CoilOnlyWhilePulsing
      <4>2. u # t /\ Busy(u, d)
        BY <4>1, CallParts DEF Busy
      <4> QED
        BY <1>4, <2>4, <4>2 DEF Release, Lone, Exclusive
    <3> QED
      BY <2>2, <3>1, <3>2 DEF EndOfPulse
  <2> QED
    BY <1>4, <2>1, <2>2, <2>3, <2>4
       DEF Release, Atomic!Apply, Request, PhaseOf
<1>5. ASSUME NEW t \in Task, SetLed(t) PROVE [Atomic!Next]_(Atomic!vars)
  <2>1. PhaseOf(call[t].pc) = "done" /\ UNCHANGED valve
    BY <1>5 DEF SetLed, PhaseOf
  <2>2. CASE StateFirst(t)
    BY <1>5, <2>1, <2>2, ReturnRefines DEF SetLed
  <2>3. CASE ~StateFirst(t)
    <3>1. Request' = Request
      BY <1>5, <2>3, SamePhase DEF SetLed, PhaseOf, Pc
    <3> QED
      BY <2>1, <3>1 DEF Atomic!vars
  <2> QED
    BY <2>2, <2>3
<1>6. ASSUME NEW t \in Task, SetState(t) PROVE [Atomic!Next]_(Atomic!vars)
  <2>1. PhaseOf(call[t].pc) = "done" /\ UNCHANGED valve
    BY <1>6 DEF SetState, PhaseOf
  <2>2. CASE StateFirst(t)
    <3>1. Request' = Request
      BY <1>6, <2>2, SamePhase DEF SetState, PhaseOf, Pc
    <3> QED
      BY <2>1, <3>1 DEF Atomic!vars
  <2>3. CASE ~StateFirst(t)
    BY <1>6, <2>1, <2>3, ReturnRefines DEF SetState
  <2> QED
    BY <2>2, <2>3
<1>7. ASSUME NEW t \in Task, Echo(t) PROVE Atomic!Finish(t)
  <2>1. Request' = [Request EXCEPT ![t].phase = "none"]
    BY <1>7, NextPhase DEF Echo, PhaseOf, Pc
  <2> QED
    BY <1>7, <2>1 DEF Echo, Atomic!Finish, Request, PhaseOf
<1>8. CASE Restart
  <2>1. \A t \in Task : Request'[t].phase = "none"
    BY <1>8 DEF Restart, IdleCalls, Request, PhaseOf
  <2>2. ASSUME NEW d \in Drip,
               \A t \in Task :
                 ~(Request[t].phase = "called" /\ Request[t].drip = d)
        PROVE  \A c \in Coil : pin[d][c] = 0
    <3> SUFFICES ASSUME NEW c \in Coil, pin[d][c] = 1 PROVE FALSE
      BY DEF TypeOK
    <3>1. PICK t \in Task : call[t].pc = "release" /\ call[t].drip = d
      BY DEF CoilOnlyWhilePulsing
    <3> QED
      BY <2>2, <3>1 DEF Request, PhaseOf
  <2>3. /\ valve' \in [Drip -> Cmd]
        /\ \A d \in Drip :
             (\A c \in Coil : pin[d][c] = 0) => valve'[d] = valve[d]
    BY <1>8 DEF Restart
  <2>4. Atomic!PowerCut
    BY <2>1, <2>2, <2>3 DEF Atomic!PowerCut
  <2> QED
    BY <2>4 DEF Atomic!Next
<1>9. CASE UNCHANGED vars
  BY <1>9 DEF vars, Atomic!vars, Request
<1> QED
  BY <1>1, <1>2, <1>3, <1>4, <1>5, <1>6, <1>7, <1>8, <1>9
     DEF Next, Step, Atomic!Next

\* The driver implements the valve of AtomicDrip, for every number of drips:
\* the initial states map to initial states and every step to a step.
THEOREM RefinesAtomicDrip == Spec => ImplementsAtomicDrip
<1>1. Init => Atomic!Init
  BY DEF Init, IdleCalls, Atomic!Init, Request, PhaseOf
<1>2. Init => TypeOK /\ CoilOnlyWhilePulsing /\ Lone
  BY InitIInv DEF IInv, Lone
<1> QED
  BY <1>1, <1>2, TypeStep, CoilStep, LoneStep, StepRefines, PTL
     DEF Spec, ImplementsAtomicDrip, Atomic!Spec

=============================================================================
