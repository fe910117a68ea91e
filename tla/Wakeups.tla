------------------------------ MODULE Wakeups ------------------------------
(***************************************************************************)
(* Timed wake-ups: an agent ends its turn and has itself resumed later      *)
(* (services/wakeup-store.ts and wakeup-registry.ts,                        *)
(* agents/wakeup-delivery.ts and the schedule_wakeup and cancel_wakeup      *)
(* tools).  The row is durable, the timer is not, and neither is a fired    *)
(* wake-up on its way to its turn.  A thread has at most one pending row,   *)
(* and a row that settled is never looked at again.                         *)
(*                                                                         *)
(* How turns queue for a thread is ThreadTurns'; here one runs at a time.   *)
(***************************************************************************)
EXTENDS Server, Sequences

CONSTANTS
  Threads,
  Delays,      \* the delays an agent asks for
  MaxChain     \* WAKEUP_MAX_CHAIN

ASSUME WakeupAssumption == Delays \subseteq Times /\ MaxChain \in Nat

VARIABLES
  wakeup,      \* the pending row of each thread, NoWakeup when there is none
  alarm,       \* the time the thread's wake-up is armed for
  fired,       \* the fired wake-ups on their way to a turn, by chain depth
  turn         \* the turn on each thread: its depth, 0 for any other turn

wakeVars == <<wakeup, alarm, fired, turn>>

NoWakeup == [fireAt |-> Never, depth |-> 0]
NoTurn == -1
NotThere == -2   \* the thread was deleted

WakeTypeOK ==
  /\ wakeup \in [Threads -> [fireAt: 0..2 * MaxTime, depth: 0..MaxChain]]
  /\ alarm \in [Threads -> 0..2 * MaxTime]
  /\ fired \in [Threads -> Seq(1..MaxChain)]
  /\ turn \in [Threads -> -2..MaxChain]

WakeInit ==
  /\ wakeup = [th \in Threads |-> NoWakeup]
  /\ alarm = [th \in Threads |-> Never]
  /\ fired = [th \in Threads |-> <<>>]
  /\ turn = [th \in Threads |-> NoTurn]

IsPending(th) == wakeup[th] # NoWakeup

\* markFired, and the delivery it starts: nothing, unless the row is pending.
Fires(th) ==
  IF IsPending(th)
  THEN /\ wakeup' = [wakeup EXCEPT ![th] = NoWakeup]
       /\ fired' = [fired EXCEPT ![th] = Append(@, wakeup[th].depth)]
  ELSE UNCHANGED <<wakeup, fired>>

\* A timer's callback: an early one re-arms itself.
AlarmRings(th) ==
  /\ alarm[th] # Never
  /\ IF IsPending(th) /\ clock < wakeup[th].fireAt
     THEN UNCHANGED <<wakeup, alarm, fired>>
     ELSE alarm' = [alarm EXCEPT ![th] = Never] /\ Fires(th)
  /\ UNCHANGED turn

\* A message of the user, or the notice of a sub-agent: no depth.
TurnStarts(th) ==
  /\ turn[th] = NoTurn
  /\ turn' = [turn EXCEPT ![th] = 0]
  /\ UNCHANGED <<wakeup, alarm, fired>>

\* deliverWakeup: the turn of a fired wake-up, when the thread is free.  One
\* whose agent does not resolve is dropped.
WakeupTurnStarts(th) ==
  /\ turn[th] = NoTurn /\ fired[th] # <<>>
  /\ turn' \in {turn, [turn EXCEPT ![th] = Head(fired[th])]}
  /\ fired' = [fired EXCEPT ![th] = Tail(@)]
  /\ UNCHANGED <<wakeup, alarm>>

TurnEnds(th) ==
  /\ turn[th] \in 0..MaxChain
  /\ turn' = [turn EXCEPT ![th] = NoTurn]
  /\ UNCHANGED <<wakeup, alarm, fired>>

\* Mutant: the tool leaves the arming to the next boot.
ScheduleWakeupUnarmed(th, delay) ==
  /\ turn[th] \in 0..MaxChain - 1 /\ ~IsPending(th)
  /\ wakeup' = [wakeup EXCEPT ![th] = [fireAt |-> clock + delay, depth |-> turn[th] + 1]]
  /\ UNCHANGED <<alarm, fired, turn>>

\* Mutant: one wake-up more than the chain may have.
ScheduleWakeupUncapped(th, delay) ==
  /\ turn[th] \in 0..MaxChain /\ ~IsPending(th)
  /\ wakeup' = [wakeup EXCEPT ![th] = [fireAt |-> clock + delay, depth |-> turn[th] + 1]]
  /\ alarm' = [alarm EXCEPT ![th] = clock + delay]
  /\ UNCHANGED <<fired, turn>>

\* schedule_wakeup, by the turn on the thread, with the registry's sync.
ScheduleWakeup(th, delay) ==
  /\ turn[th] \in 0..MaxChain - 1 /\ ~IsPending(th)
  /\ wakeup' = [wakeup EXCEPT ![th] = [fireAt |-> clock + delay, depth |-> turn[th] + 1]]
  /\ alarm' = [alarm EXCEPT ![th] = clock + delay]
  /\ UNCHANGED <<fired, turn>>

\* cancel_wakeup, and the card's Cancel.
CancelWakeup(th) ==
  /\ IsPending(th)
  /\ wakeup' = [wakeup EXCEPT ![th] = NoWakeup]
  /\ alarm' = [alarm EXCEPT ![th] = Never]
  /\ UNCHANGED <<fired, turn>>

\* triggerNow
TriggerNow(th) ==
  /\ IsPending(th)
  /\ alarm' = [alarm EXCEPT ![th] = Never]
  /\ Fires(th)
  /\ UNCHANGED turn

\* deleteThreadHandler, whatever runs there: the row goes with the thread, the
\* alarm goes later.
DeleteThread(th) ==
  /\ turn[th] # NotThere
  /\ turn' = [turn EXCEPT ![th] = NotThere]
  /\ wakeup' = [wakeup EXCEPT ![th] = NoWakeup]
  /\ fired' = [fired EXCEPT ![th] = <<>>]
  /\ UNCHANGED alarm

\* clearThread, once the checkpoints are gone too.
ClearThread(th) ==
  /\ turn[th] = NotThere /\ alarm[th] # Never
  /\ alarm' = [alarm EXCEPT ![th] = Never]
  /\ UNCHANGED <<wakeup, fired, turn>>

WakeNext ==
  \E th \in Threads :
    \/ /\ Works
       /\ \/ AlarmRings(th) \/ TurnStarts(th) \/ WakeupTurnStarts(th) \/ TurnEnds(th)
          \/ \E delay \in Delays : ScheduleWakeup(th, delay)
          \/ turn[th] >= 0 /\ CancelWakeup(th)
          \/ ClearThread(th)
    \/ Asked /\ (CancelWakeup(th) \/ TriggerNow(th) \/ DeleteThread(th))

\* The timers, the deliveries under way and the turns die with the process.
WakeDies ==
  /\ alarm' = [th \in Threads |-> Never]
  /\ fired' = [th \in Threads |-> <<>>]
  /\ turn' = [th \in Threads |-> IF turn[th] = NotThere THEN NotThere ELSE NoTurn]
  /\ UNCHANGED <<wakeup>>

\* Mutant: what came due while the server was down is left lying.
WakeBootsLate ==
  /\ alarm' = [th \in Threads |-> IF wakeup[th].fireAt > clock THEN wakeup[th].fireAt ELSE Never]
  /\ UNCHANGED <<wakeup, fired, turn>>

\* boot: what came due while the server was down fires, the rest is armed.
WakeBoots ==
  LET due == {th \in Threads : IsPending(th) /\ wakeup[th].fireAt <= clock}
  IN /\ wakeup' = [th \in Threads |-> IF th \in due THEN NoWakeup ELSE wakeup[th]]
     /\ alarm' = [th \in Threads |-> IF th \in due THEN Never ELSE wakeup[th].fireAt]
     /\ fired' = [th \in Threads |-> IF th \in due THEN <<wakeup[th].depth>> ELSE <<>>]
     /\ UNCHANGED turn
-----------------------------------------------------------------------------
(* Properties                                                              *)

\* No thread waits for a wake-up that will not come, and none is woken by one
\* that was cancelled: while the process runs, a wake-up is pending just when
\* it is armed, for its time, but for the alarm of a thread being deleted.
PendingIsArmed ==
  up => \A th \in Threads : turn[th] # NotThere => alarm[th] = wakeup[th].fireAt

\* A wake-up does not wait for ever: it fires when its time comes, or at the boot
\* after a crash that took its timer, unless someone settles it before.  (Bound:
\* the clock reaches no time beyond MaxTime.)
WakeupSettles ==
  \A th \in Threads : IsPending(th) /\ wakeup[th].fireAt <= MaxTime ~> ~IsPending(th)
=============================================================================
