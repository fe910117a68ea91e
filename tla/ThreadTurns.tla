---------------------------- MODULE ThreadTurns ----------------------------
(***************************************************************************)
(* The per-thread turn mutex of the API (active-sse-writer.ts) and the     *)
(* queue of turns deferred behind it (pending-thread-turns.ts), for one    *)
(* chat thread.  Two kinds of turn meet here:                              *)
(*                                                                         *)
(*  - Requests: a user's chat, answer or retry request.  The handler       *)
(*    refuses when the thread is busy, then awaits (agent, workspace       *)
(*    context, attachments) and only then registers itself.                *)
(*  - Deliveries: turns nobody would retry: wake-ups, sub-agent            *)
(*    completions (runHeadlessTurn) and resumed task runs (runClaimed).    *)
(*    They go through enqueuePendingTurn and register without an await.    *)
(*                                                                         *)
(* Node runs a handler without interruption up to its next await, so each  *)
(* action below is the code between two awaits.                            *)
(***************************************************************************)
EXTENDS FiniteSets, SequencesExt

CONSTANTS
  Requests,
  Deliveries,
  TaskRuns,       \* the deliveries that are task runs
  BrokenTraces,   \* the turns whose closing trace write fails
  None            \* no turn

ASSUME TurnsAssumption ==
  /\ Requests \cap Deliveries = {}
  /\ TaskRuns \subseteq Deliveries
  /\ BrokenTraces \subseteq Requests \cup Deliveries
  /\ None \notin Requests \cup Deliveries

Turns == Requests \cup Deliveries

VARIABLES
  writer,         \* the turn registered in _writers for the thread, or None
  controller,     \* the turn whose AbortController is in _controllers
  queue,          \* _queues: deferred deliveries, oldest first
  pc,             \* how far each turn has come
  stopped         \* turns whose AbortController was aborted by /stop

vars == <<writer, controller, queue, pc, stopped>>

\* "preparing": past the busy check, not yet registered.  "live": streaming.
\* "closing": the stream has ended, the turn's trace is being closed.
Phases == {"new", "refused", "preparing", "queued", "live", "closing", "over"}

TypeOK ==
  /\ writer \in Turns \cup {None}
  /\ controller \in Turns \cup {None}
  /\ queue \in Seq(Deliveries)
  /\ pc \in [Turns -> Phases]
  /\ stopped \subseteq Turns

Init ==
  /\ writer = None
  /\ controller = None
  /\ queue = <<>>
  /\ pc = [t \in Turns |-> "new"]
  /\ stopped = {}

Busy == writer # None

\* setActiveSseWriter: a task run registers no controller of its own.
Register(t) ==
  /\ writer' = t
  /\ controller' = IF t \in TaskRuns THEN controller ELSE t

\* Mutant: a request on a busy thread is deferred like a delivery.
CheckDefers(t) ==
  /\ pc[t] = "new"
  /\ queue' = IF Busy THEN Append(queue, t) ELSE queue
  /\ pc' = [pc EXCEPT ![t] = IF Busy THEN "queued" ELSE "preparing"]
  /\ UNCHANGED <<writer, controller, stopped>>

\* refuseIfThreadBusy, at the top of every chat and workspace-chat handler.
Check(t) ==
  /\ pc[t] = "new"
  /\ pc' = [pc EXCEPT ![t] = IF Busy THEN "refused" ELSE "preparing"]
  /\ UNCHANGED <<writer, controller, queue, stopped>>

\* The awaited preparation is done; the mutex is taken without a second look.
Claim(t) ==
  /\ pc[t] = "preparing"
  /\ Register(t)
  /\ pc' = [pc EXCEPT ![t] = "live"]
  /\ UNCHANGED <<queue, stopped>>

\* The preparation throws: nothing was registered and nothing is released.
PrepareFails(t) ==
  /\ pc[t] = "preparing"
  /\ pc' = [pc EXCEPT ![t] = "over"]
  /\ UNCHANGED <<writer, controller, queue, stopped>>

\* Mutant: the newest turn goes first.
DeferredFirst(t) == <<t>> \o queue

Deferred(t) == Append(queue, t)

\* Mutant: the busy check is dropped.
EnqueueAtOnce(t) ==
  /\ pc[t] = "new"
  /\ Register(t)
  /\ pc' = [pc EXCEPT ![t] = "live"]
  /\ UNCHANGED <<queue, stopped>>

\* enqueuePendingTurn: run at once on a free thread, otherwise wait in line.
Enqueue(t) ==
  /\ pc[t] = "new"
  /\ \/ /\ ~Busy
        /\ Register(t)
        /\ pc' = [pc EXCEPT ![t] = "live"]
        /\ UNCHANGED queue
     \/ /\ Busy
        /\ queue' = Deferred(t)
        /\ pc' = [pc EXCEPT ![t] = "queued"]
        /\ UNCHANGED <<writer, controller>>
  /\ UNCHANGED stopped

\* stopActiveTurn: aborts whatever controller is on file for the thread.
Stop ==
  /\ controller # None
  /\ stopped' = stopped \cup {controller}
  /\ UNCHANGED <<writer, controller, queue, pc>>

\* The stream completes, fails or is aborted; the turn's finally begins.
StreamEnds(t) ==
  /\ pc[t] = "live"
  /\ pc' = [pc EXCEPT ![t] = "closing"]
  /\ UNCHANGED <<writer, controller, queue, stopped>>

\* Mutant: the turn is read off the queue but left in it.
StartNextKeeps ==
  LET next == Head(queue) IN
  /\ writer' = next
  /\ controller' = IF next \in TaskRuns THEN None ELSE next
  /\ UNCHANGED queue

\* Mutant: drained first, cleared afterwards.
StartNextThenClear ==
  /\ writer' = Head(queue)
  /\ controller' = None
  /\ queue' = Tail(queue)

\* drainPendingTurns on a non-empty queue: the next turn takes the thread.
StartNext ==
  LET next == Head(queue) IN
  /\ writer' = next
  /\ controller' = IF next \in TaskRuns THEN None ELSE next
  /\ queue' = Tail(queue)

\* Mutant: the finally clears the mutex but does not drain.
EndUndrained(t) ==
  /\ pc[t] = "closing"
  /\ writer' = None
  /\ controller' = None
  /\ pc' = [pc EXCEPT ![t] = "over"]
  /\ UNCHANGED <<queue, stopped>>

\* turnObs.end throws: only task runs guard it, every other turn leaves its
\* finally before it reaches endThreadTurn.
SkipsRelease(t) == t \in BrokenTraces \ TaskRuns

\* The rest of the finally.  endThreadTurn clears both maps, whoever is in
\* them, and starts the next deferred turn, if any, in the same breath.
End(t) ==
  /\ pc[t] = "closing"
  /\ IF SkipsRelease(t)
     THEN /\ pc' = [pc EXCEPT ![t] = "over"]
          /\ UNCHANGED <<writer, controller, queue>>
     ELSE IF queue = <<>>
     THEN /\ writer' = None
          /\ controller' = None
          /\ pc' = [pc EXCEPT ![t] = "over"]
          /\ UNCHANGED queue
     ELSE /\ StartNext
          /\ pc' = [pc EXCEPT ![t] = "over", ![Head(queue)] = "live"]
  /\ UNCHANGED stopped

RequestStep(t) == Check(t) \/ Claim(t) \/ PrepareFails(t)
Running(t) == StreamEnds(t) \/ End(t)

Next ==
  \/ \E t \in Requests : RequestStep(t)
  \/ \E t \in Deliveries : Enqueue(t)
  \/ \E t \in Turns : Running(t)
  \/ Stop

\* A stream ends by itself (the clients have timeouts, the agents a
\* recursion limit) and a finally block runs to its end.
Fairness == \A t \in Turns : WF_vars(Running(t))

Spec == Init /\ [][Next]_vars /\ Fairness
-----------------------------------------------------------------------------
Live == {t \in Turns : pc[t] \in {"live", "closing"}}

\* A deferred turn is in line exactly once and nothing else is.
LineIsExact ==
  /\ \A t \in Turns : (pc[t] = "queued") = (t \in Range(queue))
  /\ IsInjective(queue)

\* A turn is gone without having released the thread: its closing trace
\* write failed.  Nothing but a restart or a racing request frees it.
Wedged == SkipsRelease(writer) /\ pc[writer] = "over"

\* While a turn is deferred some turn holds the mutex that has yet to pass
\* through endThreadTurn, even when requests raced past the busy check and
\* wiped each other's registration: only a failed trace write can leave a
\* deferred turn without one that will start it.
DeferredHasDriver == queue # <<>> => writer \in Live \/ Wedged

\* Turns never overlap on one thread, so no two streams write the same
\* LangGraph checkpoint.
MutualExclusion == \A t, u \in Live : t = u

\* The turn a user sees streaming is the one /stop reaches.
StopReachesLiveTurn == \A t \in Live \ TaskRuns : controller = t

\* s waits in line, and t came later or has yet to come.
Earlier(s, t) ==
  /\ pc[s] = "queued"
  /\ \/ pc[t] = "new"
     \/ pc[t] = "queued" /\ \E i, j \in DOMAIN queue :
                               i < j /\ queue[i] = s /\ queue[j] = t

\* Deliveries start in the order they came: as long as one waits, nobody
\* who came later gets in front of it in line or finds the thread free.
DeliveredInOrder ==
  [][\A s, t \in Deliveries :
        Earlier(s, t) /\ pc'[s] = "queued" => Earlier(s, t)']_vars

\* A deferred wake-up, completion notice or task run is eventually started,
\* unless the thread is wedged.
DeferredRuns ==
  \A t \in Deliveries : pc[t] = "queued" ~> pc[t] = "live" \/ Wedged

\* What the thread looks like from outside: the running turn, then the line.
Serial == INSTANCE SerialTurns WITH
            Turns <- Deliveries,
            line <- (IF Busy THEN <<writer>> ELSE <<>>) \o queue,
            over <- {t \in Turns : pc[t] = "over"}

ImplementsSerialTurns == Serial!Spec
=============================================================================
