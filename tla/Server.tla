------------------------------- MODULE Server -------------------------------
(***************************************************************************)
(* What the in-process registries stand on: the clock, and the process     *)
(* that runs them, whose timers a crash loses and whose boot                *)
(* (api/src/index.ts) arms them anew.  One tick is the time two timers      *)
(* must differ by to be told apart.                                         *)
(***************************************************************************)
EXTENDS Integers

CONSTANTS
  MaxTime,     \* bound: the last time of the clock
  MaxCrashes,  \* bound: how often the process dies
  MaxEdits     \* bound: how often users step in

ASSUME ServerAssumption == MaxTime \in Nat /\ MaxCrashes \in Nat /\ MaxEdits \in Nat

VARIABLES
  clock,
  up,          \* the process runs
  crashes,     \* how often it has died
  edits        \* how often users have stepped in

serverVars == <<clock, up, crashes, edits>>

Never == 0     \* no time at all: the code's null
Times == 1..MaxTime

ServerTypeOK ==
  /\ clock \in 0..MaxTime
  /\ up \in BOOLEAN
  /\ crashes \in 0..MaxCrashes
  /\ edits \in 0..MaxEdits

ServerInit == clock = 0 /\ up = TRUE /\ crashes = 0 /\ edits = 0

\* Timers are late when they please: the event loop was busy.
Tick ==
  /\ clock < MaxTime
  /\ clock' = clock + 1
  /\ UNCHANGED <<up, crashes, edits>>

Die ==
  /\ up /\ crashes < MaxCrashes
  /\ up' = FALSE /\ crashes' = crashes + 1
  /\ UNCHANGED <<clock, edits>>

Start == ~up /\ up' = TRUE /\ UNCHANGED <<clock, crashes, edits>>

\* The process does something of its own, or what a user asks.
Works == up /\ UNCHANGED serverVars

Asked ==
  /\ up /\ edits < MaxEdits
  /\ edits' = edits + 1
  /\ UNCHANGED <<clock, up, crashes>>
=============================================================================
