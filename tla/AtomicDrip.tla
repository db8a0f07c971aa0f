----------------------------- MODULE AtomicDrip -----------------------------
(***************************************************************************)
(* What a drip valve promises to those who command it: a command that no   *)
(* other command on the same drip overlaps moves the valve once, in one    *)
(* step, to where it was told, at some moment between the call and the     *)
(* return; and nothing else ever moves a valve but commands that overlap   *)
(* and power that fails before a command has taken effect.                 *)
(*                                                                         *)
(* This is the valve module DripScheduler counts on when it takes a call   *)
(* of Control_Drip for one step.  Module DripValve implements it.          *)
(***************************************************************************)
CONSTANTS Drip, Task, Cmd

VARIABLES
  valve,   \* valve[d]: the position of the valve
  req      \* req[t]: the command task t has given, and how far it has got

vars == <<valve, req>>

Open(t, d) == req[t].phase # "none" /\ req[t].drip = d

\* Task t gives a command; all commands on the drip now overlap.
Invoke(t, d, cmd) ==
  /\ req[t].phase = "none"
  /\ req' = [u \in Task |->
       IF u = t THEN [phase |-> "called", drip |-> d, cmd |-> cmd,
                      alone |-> \A v \in Task \ {t} : ~Open(v, d)]
       ELSE [req[u] EXCEPT !.alone = @ /\ ~Open(u, d)]]
  /\ UNCHANGED valve

\* The command takes effect, as told if it is alone.
Apply(t) ==
  /\ req[t].phase = "called"
  /\ req' = [req EXCEPT ![t].phase = "done"]
  /\ \E pos \in Cmd : /\ req[t].alone => pos = req[t].cmd
                      /\ valve' = [valve EXCEPT ![req[t].drip] = pos]

\* Commands that overlap may move the valve anywhere at any time.
Fight(t) ==
  /\ req[t].phase = "called" /\ ~req[t].alone
  /\ \E pos \in Cmd : valve' = [valve EXCEPT ![req[t].drip] = pos]
  /\ UNCHANGED req

Finish(t) ==
  /\ req[t].phase = "done"
  /\ req' = [req EXCEPT ![t].phase = "none"]
  /\ UNCHANGED valve

\* All commands are forgotten; those that had not taken effect leave their
\* valve anywhere.
PowerCut ==
  /\ \A t \in Task : req'[t].phase = "none"
  /\ valve' \in [Drip -> Cmd]
  /\ \A d \in Drip :
       (\A t \in Task : ~(req[t].phase = "called" /\ req[t].drip = d))
         => valve'[d] = valve[d]

Init ==
  /\ valve \in [Drip -> Cmd]
  /\ \A t \in Task : req[t].phase = "none"

Next ==
  \/ \E t \in Task, d \in Drip, cmd \in Cmd : Invoke(t, d, cmd)
  \/ \E t \in Task : Apply(t) \/ Fight(t) \/ Finish(t)
  \/ PowerCut

Spec == Init /\ [][Next]_vars

=============================================================================
