------------------------- MODULE ThreadTurns_proofs -------------------------
(***************************************************************************)
(* What holds of ThreadTurns for any turns: its types, that a deferred     *)
(* turn always has one that will start it, that the line is exact, and,    *)
(* for a thread that only sees deliveries, mutual exclusion and the        *)
(* promise of SerialTurns.                                                 *)
(***************************************************************************)
EXTENDS ThreadTurns, TLAPS

\* The state of a thread keeps its types.
THEOREM TypeCorrect == Spec => []TypeOK
<1>1. Init => TypeOK
  BY TurnsAssumption DEF Init, TypeOK, Turns, Phases
<1>2. TypeOK /\ [Next]_vars => TypeOK'
  <2> SUFFICES ASSUME TypeOK, [Next]_vars PROVE TypeOK'
    OBVIOUS
  <2> USE TurnsAssumption DEF TypeOK, Turns, Phases
  <2>1. ASSUME NEW t \in Requests, RequestStep(t) PROVE TypeOK'
    BY <2>1 DEF RequestStep, Check, Claim, PrepareFails, Register
  <2>2. ASSUME NEW t \in Deliveries, Enqueue(t) PROVE TypeOK'
    BY <2>2 DEF Enqueue, Register, Deferred
  <2>3. ASSUME NEW t \in Turns, StreamEnds(t) PROVE TypeOK'
    BY <2>3 DEF StreamEnds
  <2>4. ASSUME NEW t \in Turns, End(t) PROVE TypeOK'
    <3>1. CASE SkipsRelease(t)
      BY <2>4, <3>1 DEF End
    <3>2. CASE ~SkipsRelease(t) /\ queue = <<>>
      BY <2>4, <3>2 DEF End
    <3>3. CASE ~SkipsRelease(t) /\ queue # <<>>
      <4>1. Head(queue) \in Deliveries /\ Tail(queue) \in Seq(Deliveries)
        BY <3>3
      <4> QED
        BY <2>4, <3>3, <4>1 DEF End, StartNext
    <3> QED
      BY <3>1, <3>2, <3>3
  <2>5. CASE Stop
    BY <2>5 DEF Stop
  <2>6. CASE UNCHANGED vars
    BY <2>6 DEF vars
  <2> QED
    BY <2>1, <2>2, <2>3, <2>4, <2>5, <2>6 DEF Next, Running
<1> QED
  BY <1>1, <1>2, PTL DEF Spec

-----------------------------------------------------------------------------
(* The inductive form of DeferredHasDriver: a registered turn has yet to   *)
(* end or has wedged the thread, and only a registered turn has others     *)
(* waiting behind it.                                                      *)

WriterIsLive == writer # None => writer \in Live \/ Wedged
LineNeedsWriter == queue # <<>> => writer # None

DriverInv == TypeOK /\ WriterIsLive /\ LineNeedsWriter

\* A registered turn is live or has wedged the thread, and a line needs one.
LEMMA DriverInvariant == Spec => []DriverInv
<1>1. Init => DriverInv
  BY TurnsAssumption
  DEF Init, DriverInv, TypeOK, WriterIsLive, LineNeedsWriter, Turns, Phases
<1>2. DriverInv /\ TypeOK' /\ [Next]_vars => DriverInv'
  <2> SUFFICES ASSUME DriverInv, TypeOK', [Next]_vars
               PROVE WriterIsLive' /\ LineNeedsWriter'
    BY DEF DriverInv
  <2> USE TurnsAssumption
      DEF DriverInv, TypeOK, WriterIsLive, LineNeedsWriter, Live, Wedged,
          SkipsRelease, Turns
  <2>1. ASSUME NEW t \in Requests, RequestStep(t)
        PROVE WriterIsLive' /\ LineNeedsWriter'
    BY <2>1 DEF RequestStep, Check, Claim, PrepareFails, Register, Busy
  <2>2. ASSUME NEW t \in Deliveries, Enqueue(t)
        PROVE WriterIsLive' /\ LineNeedsWriter'
    BY <2>2 DEF Enqueue, Register, Deferred, Busy
  <2>3. ASSUME NEW t \in Turns, StreamEnds(t)
        PROVE WriterIsLive' /\ LineNeedsWriter'
    BY <2>3 DEF StreamEnds
  <2>4. ASSUME NEW t \in Turns, End(t)
        PROVE WriterIsLive' /\ LineNeedsWriter'
    <3>1. CASE SkipsRelease(t)
      BY <2>4, <3>1 DEF End
    <3>2. CASE ~SkipsRelease(t) /\ queue = <<>>
      BY <2>4, <3>2 DEF End
    <3>3. CASE ~SkipsRelease(t) /\ queue # <<>>
      <4>1. Head(queue) \in Deliveries
        BY <3>3
      <4> QED
        BY <2>4, <3>3, <4>1 DEF End, StartNext
    <3> QED
      BY <3>1, <3>2, <3>3
  <2>5. CASE Stop
    BY <2>5 DEF Stop
  <2>6. CASE UNCHANGED vars
    BY <2>6 DEF vars
  <2> QED
    BY <2>1, <2>2, <2>3, <2>4, <2>5, <2>6 DEF Next, Running
<1> QED
  BY <1>1, <1>2, TypeCorrect, PTL DEF Spec

\* However requests race past the busy check, a deferred turn has one that
\* will start it as long as no closing trace write fails.
THEOREM DriverExists == Spec => []DeferredHasDriver
<1>1. DriverInv => DeferredHasDriver
  BY DEF DriverInv, WriterIsLive, LineNeedsWriter, DeferredHasDriver
<1> QED
  BY <1>1, DriverInvariant, PTL

-----------------------------------------------------------------------------
(* Deliveries alone: with no request to race past the busy check, only the *)
(* registered turn is live.                                                *)

OnlyWriterLive == Live \subseteq {writer}

\* Among deliveries nobody is live without being registered.
LEMMA OnlyWriterInvariant ==
  ASSUME Requests = {}
  PROVE  Spec => []OnlyWriterLive
<1>1. Init => OnlyWriterLive
  BY DEF Init, OnlyWriterLive, Live
<1>2. OnlyWriterLive /\ TypeOK /\ [Next]_vars => OnlyWriterLive'
  <2> SUFFICES ASSUME OnlyWriterLive, TypeOK, [Next]_vars PROVE OnlyWriterLive'
    OBVIOUS
  <2> USE TurnsAssumption DEF OnlyWriterLive, TypeOK, Live, Turns
  <2>1. ASSUME NEW t \in Deliveries, Enqueue(t) PROVE OnlyWriterLive'
    BY <2>1 DEF Enqueue, Register, Deferred, Busy
  <2>2. ASSUME NEW t \in Turns, StreamEnds(t) PROVE OnlyWriterLive'
    BY <2>2 DEF StreamEnds
  <2>3. ASSUME NEW t \in Turns, End(t) PROVE OnlyWriterLive'
    <3>1. CASE SkipsRelease(t)
      BY <2>3, <3>1 DEF End
    <3>2. CASE ~SkipsRelease(t) /\ queue = <<>>
      BY <2>3, <3>2 DEF End
    <3>3. CASE ~SkipsRelease(t) /\ queue # <<>>
      <4>1. Head(queue) \in Deliveries
        BY <3>3
      <4> QED
        BY <2>3, <3>3, <4>1 DEF End, StartNext
    <3> QED
      BY <3>1, <3>2, <3>3
  <2>4. CASE Stop
    BY <2>4 DEF Stop
  <2>5. CASE UNCHANGED vars
    BY <2>5 DEF vars
  <2> QED
    BY <2>1, <2>2, <2>3, <2>4, <2>5, Requests = {} DEF Next, Running
<1> QED
  BY <1>1, <1>2, TypeCorrect, PTL DEF Spec

\* Wake-ups, completion notices and task runs never overlap on a thread.
THEOREM DeliveriesExclude ==
  ASSUME Requests = {}
  PROVE  Spec => []MutualExclusion
<1>1. OnlyWriterLive => MutualExclusion
  BY DEF OnlyWriterLive, MutualExclusion
<1>2. Spec => []OnlyWriterLive
  BY OnlyWriterInvariant, Requests = {}
<1> QED
  BY <1>1, <1>2, PTL

\* Whichever of them is streaming, a task run apart, is the one whose
\* controller is on file, so /stop reaches it: neither the release of the
\* turn before it nor a task run in between leaves the wrong one there.
THEOREM StopReachesDeliveries ==
  ASSUME Requests = {}
  PROVE  Spec => []StopReachesLiveTurn
<1>1. Init => StopReachesLiveTurn
  BY DEF Init, StopReachesLiveTurn, Live
<1>2. /\ StopReachesLiveTurn /\ OnlyWriterLive /\ OnlyWriterLive' /\ TypeOK
      /\ [Next]_vars
      => StopReachesLiveTurn'
  <2> SUFFICES ASSUME StopReachesLiveTurn, OnlyWriterLive, OnlyWriterLive', TypeOK,
                      [Next]_vars, NEW u \in Live' \ TaskRuns
               PROVE  controller' = u
    BY DEF StopReachesLiveTurn
  <2> USE TurnsAssumption DEF StopReachesLiveTurn, OnlyWriterLive, TypeOK, Live, Turns
  <2>1. writer' = u
    OBVIOUS
  <2>2. ASSUME NEW t \in Deliveries, Enqueue(t) PROVE controller' = u
    BY <2>1, <2>2 DEF Enqueue, Register, Deferred, Busy
  <2>3. ASSUME NEW t \in Turns, StreamEnds(t) PROVE controller' = u
    BY <2>3 DEF StreamEnds
  <2>4. ASSUME NEW t \in Turns, End(t) PROVE controller' = u
    <3>1. CASE SkipsRelease(t)
      BY <2>4, <3>1 DEF End
    <3>2. CASE ~SkipsRelease(t) /\ queue = <<>>
      BY <2>1, <2>4, <3>2 DEF End
    <3>3. CASE ~SkipsRelease(t) /\ queue # <<>>
      BY <2>1, <2>4, <3>3 DEF End, StartNext
    <3> QED
      BY <3>1, <3>2, <3>3
  <2>5. CASE Stop
    BY <2>5 DEF Stop
  <2>6. CASE UNCHANGED vars
    BY <2>6 DEF vars
  <2> QED
    BY <2>2, <2>3, <2>4, <2>5, <2>6, Requests = {} DEF Next, Running
<1>3. Spec => []OnlyWriterLive
  BY OnlyWriterInvariant, Requests = {}
<1> QED
  BY <1>1, <1>2, <1>3, TypeCorrect, PTL DEF Spec

-----------------------------------------------------------------------------
(* The line of deferred turns.                                             *)

\* A turn joins the line at its end.
LEMMA AppendRange ==
  ASSUME NEW S, NEW s \in Seq(S), NEW e \in S
  PROVE  /\ Range(Append(s, e)) = Range(s) \cup {e}
         /\ IsInjective(s) /\ e \notin Range(s) => IsInjective(Append(s, e))
<1>1. /\ Len(Append(s, e)) = Len(s) + 1
      /\ \A i \in 1..Len(s) : Append(s, e)[i] = s[i]
      /\ Append(s, e)[Len(s) + 1] = e
  OBVIOUS
<1>2. DOMAIN Append(s, e) = 1..(Len(s) + 1) /\ DOMAIN s = 1..Len(s) /\ Len(s) \in Nat
  OBVIOUS
<1>3. Range(Append(s, e)) = Range(s) \cup {e}
  BY <1>1, <1>2 DEF Range
<1>4. ASSUME IsInjective(s), e \notin Range(s) PROVE IsInjective(Append(s, e))
  BY <1>1, <1>2, <1>4 DEF Range, IsInjective
<1> QED
  BY <1>3, <1>4

\* The first of the line leaves it, and only the first.
LEMMA TailRange ==
  ASSUME NEW S, NEW s \in Seq(S), s # <<>>, IsInjective(s)
  PROVE  Range(Tail(s)) = Range(s) \ {Head(s)} /\ IsInjective(Tail(s))
<1>1. /\ Len(Tail(s)) = Len(s) - 1
      /\ \A i \in 1..(Len(s) - 1) : Tail(s)[i] = s[i + 1]
      /\ Head(s) = s[1]
  OBVIOUS
<1>2. /\ DOMAIN Tail(s) = 1..(Len(s) - 1)
      /\ DOMAIN s = 1..Len(s)
      /\ Len(s) \in Nat \ {0}
  OBVIOUS
<1>3. \A i, j \in 1..Len(s) : s[i] = s[j] => i = j
  BY <1>2 DEF IsInjective
<1>4. Range(Tail(s)) \subseteq Range(s) \ {Head(s)}
  <2>1. \A i \in 1..(Len(s) - 1) : i + 1 \in 1..Len(s) /\ i + 1 # 1
    BY <1>2
  <2> QED
    BY <1>1, <1>2, <1>3, <2>1 DEF Range
<1>5. Range(s) \ {Head(s)} \subseteq Range(Tail(s))
  <2> SUFFICES ASSUME NEW i \in 1..Len(s), s[i] # s[1]
               PROVE  s[i] \in Range(Tail(s))
    BY <1>1, <1>2 DEF Range
  <2>1. i - 1 \in 1..(Len(s) - 1) /\ (i - 1) + 1 = i
    BY <1>2
  <2>2. Tail(s)[i - 1] = s[i]
    BY <1>1, <2>1
  <2> QED
    BY <1>2, <2>1, <2>2 DEF Range
<1>6. IsInjective(Tail(s))
  BY <1>1, <1>2, <1>3 DEF IsInjective
<1> QED
  BY <1>4, <1>5, <1>6

\* A deferred turn is in line exactly once, and nothing else is.
THEOREM LineStaysExact == Spec => []LineIsExact
<1>1. Init => LineIsExact
  BY DEF Init, LineIsExact, Range, IsInjective
<1>2. LineIsExact /\ TypeOK /\ [Next]_vars => LineIsExact'
  <2> SUFFICES ASSUME LineIsExact, TypeOK, [Next]_vars PROVE LineIsExact'
    OBVIOUS
  <2> USE TurnsAssumption DEF LineIsExact, TypeOK, Turns
  <2>1. ASSUME NEW t \in Requests, RequestStep(t) PROVE LineIsExact'
    BY <2>1 DEF RequestStep, Check, Claim, PrepareFails, Register
  <2>2. ASSUME NEW t \in Deliveries, Enqueue(t) PROVE LineIsExact'
    <3>1. t \notin Range(queue)
      BY <2>2 DEF Enqueue
    <3>2. CASE ~Busy
      BY <2>2, <3>1, <3>2 DEF Enqueue
    <3>3. CASE Busy
      <4>1. queue' = Append(queue, t) /\ pc' = [pc EXCEPT ![t] = "queued"]
        BY <2>2, <3>3 DEF Enqueue, Deferred
      <4>2. Range(queue') = Range(queue) \cup {t} /\ IsInjective(queue')
        BY <3>1, <4>1, AppendRange
      <4> QED
        BY <4>1, <4>2
    <3> QED
      BY <3>2, <3>3
  <2>3. ASSUME NEW t \in Turns, StreamEnds(t) PROVE LineIsExact'
    BY <2>3 DEF StreamEnds
  <2>4. ASSUME NEW t \in Turns, End(t) PROVE LineIsExact'
    <3>1. t \notin Range(queue)
      BY <2>4 DEF End
    <3>2. CASE SkipsRelease(t) \/ queue = <<>>
      BY <2>4, <3>1, <3>2 DEF End
    <3>3. CASE ~SkipsRelease(t) /\ queue # <<>>
      <4>1. /\ queue' = Tail(queue)
            /\ pc' = [pc EXCEPT ![t] = "over", ![Head(queue)] = "live"]
        BY <2>4, <3>3 DEF End, StartNext
      <4>2. Range(queue') = Range(queue) \ {Head(queue)} /\ IsInjective(queue')
        BY <3>3, <4>1, TailRange
      <4>3. Head(queue) \in Deliveries
        BY <3>3
      <4> QED
        BY <3>1, <4>1, <4>2, <4>3
    <3> QED
      BY <3>2, <3>3
  <2>5. CASE Stop
    BY <2>5 DEF Stop
  <2>6. CASE UNCHANGED vars
    BY <2>6 DEF vars
  <2> QED
    BY <2>1, <2>2, <2>3, <2>4, <2>5, <2>6 DEF Next, Running
<1> QED
  BY <1>1, <1>2, TypeCorrect, PTL DEF Spec

-----------------------------------------------------------------------------
(* Order.                                                                  *)

OrderStep ==
  \A s, t \in Deliveries :
    Earlier(s, t) /\ pc'[s] = "queued" => Earlier(s, t)'

\* Deferred deliveries start in the order they came and are not overtaken,
\* requests racing or not.
THEOREM OrderKept == Spec => DeliveredInOrder
<1>1. DriverInv /\ LineIsExact /\ [Next]_vars => [OrderStep]_vars
  <2> SUFFICES ASSUME DriverInv, LineIsExact, Next,
                      NEW s \in Deliveries, NEW u \in Deliveries,
                      Earlier(s, u), pc'[s] = "queued"
               PROVE  Earlier(s, u)'
    BY DEF vars, OrderStep
  <2> USE TurnsAssumption DEF DriverInv, TypeOK, Turns
  <2>1. pc[s] = "queued" /\ pc[u] \in {"new", "queued"} /\ queue # <<>>
    BY DEF Earlier, LineIsExact, Range
  <2>2. ASSUME pc' = pc, queue' = queue PROVE Earlier(s, u)'
    BY <2>2 DEF Earlier
  <2>3. ASSUME NEW t \in Requests, RequestStep(t) PROVE Earlier(s, u)'
    <3>1. queue' = queue /\ pc'[s] = pc[s] /\ pc'[u] = pc[u]
      BY <2>3 DEF RequestStep, Check, Claim, PrepareFails
    <3> QED
      BY <3>1 DEF Earlier
  <2>4. ASSUME NEW t \in Deliveries, Enqueue(t) PROVE Earlier(s, u)'
    <3>1. queue' = Append(queue, t) /\ pc' = [pc EXCEPT ![t] = "queued"] /\ pc[t] = "new"
      BY <2>1, <2>4 DEF Enqueue, Deferred, LineNeedsWriter, Busy
    <3>2. \A i \in DOMAIN queue : i \in DOMAIN queue' /\ queue'[i] = queue[i]
      BY <3>1
    <3>3. CASE u = t
      <4>1. PICK i \in DOMAIN queue : queue[i] = s
        BY <2>1 DEF LineIsExact, Range
      <4>2. Len(queue) + 1 \in DOMAIN queue' /\ queue'[Len(queue) + 1] = u
            /\ i < Len(queue) + 1
        BY <3>1, <3>3
      <4>3. pc'[u] = "queued"
        BY <3>1, <3>3
      <4> QED
        BY <3>2, <4>1, <4>2, <4>3 DEF Earlier
    <3>4. CASE u # t
      <4>1. pc'[u] = pc[u]
        BY <3>1, <3>4
      <4> QED
        BY <3>2, <4>1 DEF Earlier
    <3> QED
      BY <3>3, <3>4
  <2>5. ASSUME NEW t \in Turns, StreamEnds(t) PROVE Earlier(s, u)'
    <3>1. queue' = queue /\ pc'[s] = pc[s] /\ pc'[u] = pc[u]
      BY <2>1, <2>5 DEF StreamEnds
    <3> QED
      BY <3>1 DEF Earlier
  <2>6. ASSUME NEW t \in Turns, End(t) PROVE Earlier(s, u)'
    <3>1. CASE SkipsRelease(t)
      <4>1. queue' = queue /\ pc'[s] = pc[s] /\ pc'[u] = pc[u]
        BY <2>1, <2>6, <3>1 DEF End
      <4> QED
        BY <4>1 DEF Earlier
    <3>2. CASE ~SkipsRelease(t)
      <4>1. /\ pc' = [pc EXCEPT ![t] = "over", ![Head(queue)] = "live"]
            /\ queue' = Tail(queue)
            /\ pc[t] = "closing"
        BY <2>1, <2>6, <3>2 DEF End, StartNext
      <4>2. Head(queue) = queue[1] /\ queue[1] \in Deliveries /\ pc[queue[1]] = "queued"
        BY <2>1 DEF LineIsExact, Range
      <4>3. queue[1] # s
        BY <4>1, <4>2
      <4>4. CASE pc[u] = "new"
        BY <4>1, <4>2, <4>4 DEF Earlier
      <4>5. CASE pc[u] = "queued"
        <5>1. PICK i \in DOMAIN queue, j \in DOMAIN queue :
                i < j /\ queue[i] = s /\ queue[j] = u
          BY <4>5 DEF Earlier
        <5>2. i # 1 /\ j # 1 /\ i \in Nat \ {0} /\ j \in Nat \ {0}
              /\ i <= Len(queue) /\ j <= Len(queue)
          BY <4>3, <5>1
        <5>3. u # queue[1]
          BY <5>1, <5>2 DEF LineIsExact, IsInjective
        <5>4. pc'[u] = "queued"
          BY <4>1, <4>2, <4>5, <5>3
        <5>5. /\ i - 1 \in DOMAIN queue' /\ queue'[i - 1] = s
              /\ j - 1 \in DOMAIN queue' /\ queue'[j - 1] = u
              /\ i - 1 < j - 1
          BY <4>1, <5>1, <5>2, <2>1
        <5> QED
          BY <5>4, <5>5 DEF Earlier
      <4> QED
        BY <2>1, <4>4, <4>5
    <3> QED
      BY <3>1, <3>2
  <2>7. CASE Stop
    BY <2>2, <2>7 DEF Stop
  <2> QED
    BY <2>3, <2>4, <2>5, <2>6, <2>7 DEF Next, Running
<1> QED
  BY <1>1, DriverInvariant, LineStaysExact, PTL
  DEF Spec, DeliveredInOrder, OrderStep

-----------------------------------------------------------------------------
(* Refinement.                                                             *)

RefinementInv == DriverInv /\ LineIsExact /\ OnlyWriterLive

SerialLine == (IF Busy THEN <<writer>> ELSE <<>>) \o queue

\* Seen from outside, a thread that only sees deliveries runs them one at a
\* time in the order it accepted them: it implements the safety part of
\* SerialTurns, if no trace but a task run's fails to close.
THEOREM ImplementsSerialSafety ==
  ASSUME Requests = {}, BrokenTraces \subseteq TaskRuns
  PROVE  Spec => Serial!Init /\ [][Serial!Next]_Serial!vars
<1>1. Init => Serial!Init
  BY DEF Init, Serial!Init, Busy
<1>2. RefinementInv /\ TypeOK' /\ [Next]_vars => [Serial!Next]_Serial!vars
  <2> SUFFICES ASSUME RefinementInv, TypeOK', [Next]_vars
               PROVE  [Serial!Next]_Serial!vars
    OBVIOUS
  <2> DEFINE over == {u \in Turns : pc[u] = "over"}
  <2> USE TurnsAssumption, Requests = {}, BrokenTraces \subseteq TaskRuns
      DEF RefinementInv, DriverInv, TypeOK, Turns
  <2>1. ASSUME NEW t \in Deliveries, Enqueue(t) PROVE Serial!Accept(t)
    <3>1. over' = over
      BY <2>1 DEF Enqueue
    <3>2. t \notin over
      BY <2>1 DEF Enqueue
    <3>3. ~Serial!InLine(t)
      <4>1. t # writer
        BY <2>1 DEF Enqueue, WriterIsLive, Wedged, Live
      <4>2. \A i \in DOMAIN queue : queue[i] # t
        BY <2>1 DEF Enqueue, LineIsExact, Range
      <4>3. CASE Busy
        <5>1. \A i \in DOMAIN SerialLine :
                SerialLine[i] = writer \/ \E j \in DOMAIN queue : SerialLine[i] = queue[j]
          BY <4>3 DEF SerialLine
        <5> QED
          BY <4>1, <4>2, <5>1 DEF Serial!InLine, SerialLine
      <4>4. CASE ~Busy
        <5>1. queue = <<>>
          BY <4>4 DEF LineNeedsWriter, Busy
        <5> QED
          BY <4>4, <5>1 DEF Serial!InLine
      <4> QED
        BY <4>3, <4>4
    <3>4. SerialLine' = Append(SerialLine, t)
      <4>1. CASE ~Busy
        <5>1. queue = <<>> /\ queue' = <<>> /\ writer' = t /\ t # None
          BY <2>1, <4>1 DEF Enqueue, Register, LineNeedsWriter, Busy
        <5> QED
          BY <4>1, <5>1 DEF SerialLine, Busy
      <4>2. CASE Busy
        <5>1. queue' = Append(queue, t) /\ writer' = writer
          BY <2>1, <4>2 DEF Enqueue, Deferred
        <5> QED
          BY <4>2, <5>1 DEF SerialLine, Busy
      <4> QED
        BY <4>1, <4>2
    <3> QED
      BY <3>1, <3>2, <3>3, <3>4 DEF Serial!Accept, SerialLine
  <2>2. ASSUME NEW t \in Turns, End(t) PROVE Serial!Finish
    <3>1. ~SkipsRelease(t) /\ t = writer /\ Busy
      BY <2>2 DEF End, SkipsRelease, OnlyWriterLive, Live, Busy
    <3>2. SerialLine = <<t>> \o queue
      BY <3>1 DEF SerialLine
    <3>3. SerialLine # <<>> /\ Head(SerialLine) = t /\ Tail(SerialLine) = queue
      BY <3>2
    <3>4. over' = over \cup {t}
      <4>1. CASE queue = <<>>
        BY <2>2, <3>1, <4>1 DEF End
      <4>2. CASE queue # <<>>
        <5>1. pc' = [pc EXCEPT ![t] = "over", ![Head(queue)] = "live"]
          BY <2>2, <3>1, <4>2 DEF End
        <5>2. Head(queue) = queue[1] /\ 1 \in DOMAIN queue
          BY <4>2
        <5>3. Head(queue) \in Deliveries /\ pc[Head(queue)] = "queued"
          BY <5>2 DEF LineIsExact, Range
        <5>4. pc[t] = "closing"
          BY <2>2 DEF End
        <5> QED
          BY <5>1, <5>3, <5>4
      <4> QED
        BY <4>1, <4>2
    <3>5. SerialLine' = queue
      <4>1. CASE queue = <<>>
        BY <2>2, <3>1, <4>1 DEF End, SerialLine, Busy
      <4>2. CASE queue # <<>>
        <5>1. writer' = Head(queue) /\ queue' = Tail(queue) /\ Head(queue) # None
          BY <2>2, <3>1, <4>2 DEF End, StartNext
        <5>2. SerialLine' = <<Head(queue)>> \o Tail(queue)
          BY <5>1 DEF SerialLine, Busy
        <5> QED
          BY <4>2, <5>2
      <4> QED
        BY <4>1, <4>2
    <3>6. /\ SerialLine # <<>> /\ SerialLine' = Tail(SerialLine)
          /\ over' = over \cup {Head(SerialLine)}
      BY <3>3, <3>4, <3>5
    <3> QED
      BY ONLY <3>6 DEF Serial!Finish, SerialLine, over
  <2>3. ASSUME NEW t \in Turns, StreamEnds(t) PROVE UNCHANGED Serial!vars
    BY <2>3 DEF StreamEnds, Serial!vars, Busy
  <2>4. CASE Stop
    BY <2>4 DEF Stop, Serial!vars, Busy
  <2>5. CASE UNCHANGED vars
    BY <2>5 DEF vars, Serial!vars, Busy
  <2> QED
    BY <2>1, <2>2, <2>3, <2>4, <2>5 DEF Next, Running, Serial!Next
<1>3. Spec => []OnlyWriterLive
  BY OnlyWriterInvariant, Requests = {}
<1> QED
  BY <1>1, <1>2, <1>3, DriverInvariant, LineStaysExact, TypeCorrect, PTL
  DEF Spec, RefinementInv
=============================================================================
