----------------------------- MODULE Registries -----------------------------
(***************************************************************************)
(* The two timer registries of a process, as index.ts boots them: the same  *)
(* clock, the same crashes, and a crash takes the timers of both.           *)
(***************************************************************************)
EXTENDS CronRegistry, Wakeups

vars == <<serverVars, cronVars, wakeVars>>

TypeOK == ServerTypeOK /\ CronTypeOK /\ WakeTypeOK

Init == ServerInit /\ CronInit /\ WakeInit

TimePasses == Tick /\ UNCHANGED <<cronVars, wakeVars>>
Crash == Die /\ CronDies /\ WakeDies
Boot == Start /\ CronBoots /\ WakeBoots

Next ==
  \/ TimePasses \/ Crash \/ Boot
  \/ (CronSystem \/ CronUser) /\ UNCHANGED wakeVars
  \/ WakeNext /\ UNCHANGED cronVars

\* The process comes back, time passes, and a running process works its
\* timers, its queue and its runs off.
Spec ==
  /\ Init /\ [][Next]_vars
  /\ WF_vars(TimePasses) /\ WF_vars(Boot)
  /\ WF_vars(ExecutorResyncs /\ Works /\ UNCHANGED wakeVars)
  /\ \A c \in Crons :
       /\ WF_vars(TimerWakes(c) /\ clock >= timer[c] /\ Works /\ UNCHANGED wakeVars)
       /\ WF_vars(Dispatch(c) /\ Works /\ UNCHANGED wakeVars)
       /\ WF_vars(RunStops(c) /\ Works /\ UNCHANGED wakeVars)
  /\ \A th \in Threads :
       WF_vars(AlarmRings(th) /\ clock >= alarm[th] /\ Works /\ UNCHANGED cronVars)
=============================================================================
