--------------------------- MODULE ProviderQueue ---------------------------
(***************************************************************************)
(* One gate of ProviderQueue (api/src/services/provider-queue.ts): the     *)
(* in-memory counter and the two FIFO queues that keep the number of       *)
(* outbound LLM calls to one provider below its maxConcurrency.  Gates of  *)
(* different providers share nothing, so one gate is the whole component.  *)
(*                                                                         *)
(* A request is one call of withSlot(): acquireSlot, the call itself, then *)
(* releaseSlot in a finally.  Every handler below runs without an await,   *)
(* so it is one step; an abort signal, another caller or a settled promise *)
(* may come between any two steps.                                         *)
(***************************************************************************)
EXTENDS Integers, FiniteSets, SequencesExt

CONSTANTS Requests,   \* the callers of withSlot
          Limits      \* the values maxConcurrency may be configured to

Unlimited == -1       \* maxConcurrency of a provider that is never gated

\* The config schema accepts any integer; 0 or less (other than -1) would
\* close the gate for good, which the README discusses.
ASSUME LimitsAssumption == Limits \subseteq Int

VARIABLES
  maxConcurrency,     \* fixed when the gate is created
  activeCount,        \* slots handed out and not yet given back
  syncQueue,          \* waiting interactive requests, oldest first
  asyncQueue,         \* waiting task-run requests, oldest first
  pc,                 \* where each request stands in withSlot()
  kind,               \* the RequestKind of each request
  aborted,            \* whether the request's AbortSignal has fired
  waiting             \* the last value its onWaitChange callback reported

gate == <<maxConcurrency, activeCount, syncQueue, asyncQueue>>
vars == <<gate, pc, kind, aborted, waiting>>

Kinds == {"sync", "async"}

\* "holding" covers the call itself: acquireSlot has resolved, releaseSlot
\* has not run.  "rejected" is the caller of an aborted wait.
Phases == {"idle", "queued", "holding", "rejected"}

TypeOK ==
  /\ maxConcurrency \in Limits
  /\ activeCount \in Nat
  /\ syncQueue \in Seq(Requests)
  /\ asyncQueue \in Seq(Requests)
  /\ pc \in [Requests -> Phases]
  /\ kind \in [Requests -> Kinds]
  /\ aborted \in [Requests -> BOOLEAN]
  /\ waiting \in [Requests -> BOOLEAN]

Init ==
  /\ maxConcurrency \in Limits
  /\ activeCount = 0
  /\ syncQueue = <<>>
  /\ asyncQueue = <<>>
  /\ pc = [r \in Requests |-> "idle"]
  /\ kind \in [Requests -> Kinds]
  /\ aborted = [r \in Requests |-> FALSE]
  /\ waiting = [r \in Requests |-> FALSE]

Gated == maxConcurrency # Unlimited

\* Mutant: one call too many.
HasRoomForOneMore == activeCount <= maxConcurrency

HasRoom == activeCount < maxConcurrency

\* Mutant: last in, first out.
Jumped(queue, r) == <<r>> \o queue

Queued(queue, r) == Append(queue, r)

(***************************************************************************)
(* acquireSlot: at once when the gate is open, otherwise to the back of    *)
(* the queue of its kind.  A signal that has already fired is not looked   *)
(* at: its listener is registered but will never be called.                *)
(***************************************************************************)
AcquireNow(r) ==
  /\ pc[r] = "idle"
  /\ Gated => HasRoom
  /\ activeCount' = IF Gated THEN activeCount + 1 ELSE activeCount
  /\ pc' = [pc EXCEPT ![r] = "holding"]
  /\ UNCHANGED <<maxConcurrency, syncQueue, asyncQueue, kind, aborted, waiting>>

AcquireLater(r) ==
  /\ pc[r] = "idle"
  /\ Gated /\ ~HasRoom
  /\ IF kind[r] = "sync"
     THEN syncQueue' = Queued(syncQueue, r) /\ UNCHANGED asyncQueue
     ELSE asyncQueue' = Queued(asyncQueue, r) /\ UNCHANGED syncQueue
  /\ waiting' = [waiting EXCEPT ![r] = TRUE]
  /\ pc' = [pc EXCEPT ![r] = "queued"]
  /\ UNCHANGED <<maxConcurrency, activeCount, kind, aborted>>

(***************************************************************************)
(* The request's AbortSignal fires.  Only a request still in a queue is    *)
(* spliced out and rejected; a dispatched one has had its listener removed *)
(* (the call it is making observes the signal itself).                     *)
(***************************************************************************)
\* Mutant: the caller is rejected but its entry stays.
Kept(queue, r) == queue

Without(queue, r) == RemoveAt(queue, CHOOSE i \in DOMAIN queue : queue[i] = r)

InQueue(r) == r \in Range(syncQueue) \/ r \in Range(asyncQueue)

Abort(r) ==
  /\ ~aborted[r]
  /\ aborted' = [aborted EXCEPT ![r] = TRUE]
  /\ IF InQueue(r)
     THEN /\ IF kind[r] = "sync"
             THEN syncQueue' = Without(syncQueue, r) /\ UNCHANGED asyncQueue
             ELSE asyncQueue' = Without(asyncQueue, r) /\ UNCHANGED syncQueue
          /\ waiting' = [waiting EXCEPT ![r] = FALSE]
          /\ pc' = [pc EXCEPT ![r] = "rejected"]
     ELSE UNCHANGED <<syncQueue, asyncQueue, waiting, pc>>
  /\ UNCHANGED <<maxConcurrency, activeCount, kind>>

(***************************************************************************)
(* releaseSlot: give one slot back, then hand out every free slot, the     *)
(* sync queue before the async one at each turn of the loop.  As nothing   *)
(* joins a queue meanwhile, the loop hands slots to the first `handed`     *)
(* entries of syncQueue \o asyncQueue.                                     *)
(***************************************************************************)
Smaller(a, b) == IF a < b THEN a ELSE b
Larger(a, b) == IF a > b THEN a ELSE b

\* Mutant: the loop stops when no sync request is left.
HandedToSyncOnly(free) == Smaller(Larger(free, 0), Len(syncQueue))

Handed(free) ==
  Smaller(Larger(free, 0), Len(syncQueue) + Len(asyncQueue))

\* Mutant: background runs first.
FromSyncLast(handed) == handed - Smaller(handed, Len(asyncQueue))

FromSync(handed) == Smaller(handed, Len(syncQueue))

ReleaseGated(r) ==
  LET handed    == Handed(maxConcurrency - (activeCount - 1))
      fromSync  == FromSync(handed)
      fromAsync == handed - fromSync
      woken     == {syncQueue[i] : i \in 1..fromSync}
                     \cup {asyncQueue[i] : i \in 1..fromAsync}
  IN /\ Gated
     /\ activeCount' = activeCount - 1 + handed
     /\ syncQueue' = SubSeq(syncQueue, fromSync + 1, Len(syncQueue))
     /\ asyncQueue' = SubSeq(asyncQueue, fromAsync + 1, Len(asyncQueue))
     /\ waiting' = [q \in Requests |-> waiting[q] /\ q \notin woken]
     /\ pc' = [q \in Requests |-> IF q = r THEN "idle"
                                  ELSE IF q \in woken THEN "holding"
                                  ELSE pc[q]]

ReleaseUngated(r) ==
  /\ ~Gated
  /\ pc' = [pc EXCEPT ![r] = "idle"]
  /\ UNCHANGED <<activeCount, syncQueue, asyncQueue, waiting>>

\* The call returned or threw: withSlot's finally.  The caller's next call
\* is a new request with a fresh signal.
Release(r) ==
  /\ pc[r] = "holding"
  /\ ReleaseGated(r) \/ ReleaseUngated(r)
  /\ aborted' = [aborted EXCEPT ![r] = FALSE]
  /\ UNCHANGED <<maxConcurrency, kind>>

\* Mutant: the finally runs for a rejected acquire too.
UnwindReleases(r) ==
  /\ pc[r] = "rejected"
  /\ activeCount' = activeCount - 1
  /\ pc' = [pc EXCEPT ![r] = "idle"]
  /\ aborted' = [aborted EXCEPT ![r] = FALSE]
  /\ UNCHANGED <<maxConcurrency, syncQueue, asyncQueue, kind, waiting>>

\* The acquire itself was rejected: withSlot throws before its try block,
\* so there is nothing to give back.
Unwind(r) ==
  /\ pc[r] = "rejected"
  /\ pc' = [pc EXCEPT ![r] = "idle"]
  /\ aborted' = [aborted EXCEPT ![r] = FALSE]
  /\ UNCHANGED <<gate, kind, waiting>>

Next ==
  \E r \in Requests :
    \/ AcquireNow(r)
    \/ AcquireLater(r)
    \/ Abort(r)
    \/ Release(r)
    \/ Unwind(r)

\* Every outbound call ends: provider-factory.ts gives each client a
\* timeout.  Callers and aborts are the users' business and get no fairness.
Fairness == \A r \in Requests : WF_vars(Release(r))

Spec == Init /\ [][Next]_vars /\ Fairness
-----------------------------------------------------------------------------
Holders == {r \in Requests : pc[r] = "holding"}

\* The counter and the calls in flight agree: no slot leaks when a call
\* throws, when a wait is aborted, or when an abort races a dispatch, and
\* none is given back twice (releaseSlot's bare activeCount--).
SlotAccounting == Gated => activeCount = Cardinality(Holders)

\* No more calls are in flight than the provider was configured for.
WithinLimit == Gated /\ maxConcurrency > 0 => Cardinality(Holders) <= maxConcurrency

\* Nobody waits while a slot is free: releaseSlot's drain loop and the
\* abort path leave no request behind that nothing will wake.
NoIdleSlot == syncQueue \o asyncQueue # <<>> => Gated /\ ~HasRoom

\* A request is in exactly the queue of its kind, exactly once, while it is
\* waiting and in none otherwise, and the provider_wait indicator the user
\* sees (onWaitChange) is on for exactly that long.
WaitersAreQueued ==
  /\ \A r \in Requests : (pc[r] = "queued") = InQueue(r)
  /\ \A r \in Requests : waiting[r] = (pc[r] = "queued")
  /\ IsInjective(syncQueue) /\ IsInjective(asyncQueue)
  /\ \A r \in Range(syncQueue) : kind[r] = "sync"
  /\ \A r \in Range(asyncQueue) : kind[r] = "async"

Granted(r) == pc[r] # "holding" /\ pc'[r] = "holding"

\* No barging: a slot is never taken over the head of a sync request that
\* was waiting for it, whether by a queued async request or by a newcomer.
SyncFirst ==
  [][\A r, s \in Requests :
        Granted(r) /\ pc[s] = "queued" /\ kind[s] = "sync" /\ pc'[s] = "queued"
          => pc[r] = "queued" /\ kind[r] = "sync"]_vars

\* s stands before r in the queue of its kind.
Ahead(s, r) ==
  \E queue \in {syncQueue, asyncQueue} : \E i, j \in DOMAIN queue :
    i < j /\ queue[i] = s /\ queue[j] = r

\* s waits, and r, of the same kind, came later or has yet to come.
Earlier(s, r) ==
  /\ s # r /\ kind[s] = kind[r]
  /\ pc[s] = "queued"
  /\ pc[r] = "queued" => Ahead(s, r)

\* Within a kind, requests are served in the order they came: as long as a
\* request waits, nobody who came later gets in front of it or gets a slot,
\* whatever is aborted around them (splice) and wherever a drain stops.
FifoWithinKind ==
  [][\A r, s \in Requests :
        Earlier(s, r) /\ pc'[s] = "queued" => Earlier(s, r)' /\ ~Granted(r)]_vars

\* An interactive request that waits is eventually served or aborted,
\* whatever the load of background task runs.
SyncServed ==
  \A r \in Requests : kind[r] = "sync" /\ pc[r] = "queued" ~> pc[r] # "queued"

\* A background request is served once interactive traffic lets up: the
\* strict priority starves it only while interactive requests keep waiting.
AsyncServedWhenQuiet ==
  <>[](syncQueue = <<>>) =>
     \A r \in Requests : kind[r] = "async" /\ pc[r] = "queued" ~> pc[r] # "queued"
=============================================================================
