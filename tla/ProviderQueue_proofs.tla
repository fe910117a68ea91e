------------------------ MODULE ProviderQueue_proofs ------------------------
(***************************************************************************)
(* What holds of a gate for any callers and any limits: no slot is lost or *)
(* given back twice, the limit is kept, nobody waits beside a free slot,   *)
(* and the queues hold exactly the waiting requests.                       *)
(***************************************************************************)
EXTENDS ProviderQueue, FiniteSetTheorems, TLAPS

-----------------------------------------------------------------------------
(* The queues.                                                             *)

\* The library's concatenation, element by element.
LEMMA ConcatFacts ==
  ASSUME NEW S, NEW a \in Seq(S), NEW b \in Seq(S)
  PROVE  /\ a \o b \in Seq(S)
         /\ Len(a \o b) = Len(a) + Len(b)
         /\ \A j \in 1..(Len(a) + Len(b)) :
              (a \o b)[j] = IF j <= Len(a) THEN a[j] ELSE b[j - Len(a)]
OBVIOUS

\* A queue that loses its i-th entry, as the splice of an aborted wait does,
\* keeps all others, once each and in their order.
LEMMA RemoveAtFacts ==
  ASSUME NEW S, NEW s \in Seq(S), NEW i \in 1..Len(s)
  PROVE  /\ RemoveAt(s, i) \in Seq(S)
         /\ Len(RemoveAt(s, i)) = Len(s) - 1
         /\ \A j \in 1..(Len(s) - 1) :
              RemoveAt(s, i)[j] = IF j < i THEN s[j] ELSE s[j + 1]
<1> DEFINE a == SubSeq(s, 1, i - 1)
           b == SubSeq(s, i + 1, Len(s))
<1>1. a \in Seq(S) /\ Len(a) = i - 1 /\ \A j \in 1..(i - 1) : a[j] = s[j]
  OBVIOUS
<1>2. /\ b \in Seq(S) /\ Len(b) = Len(s) - i
      /\ \A j \in 1..(Len(s) - i) : b[j] = s[i + j]
  OBVIOUS
<1>3. RemoveAt(s, i) = a \o b
  BY DEF RemoveAt
<1> HIDE DEF a, b
<1>4. Len(s) \in Nat /\ i \in Int /\ 1 <= i /\ i <= Len(s)
  OBVIOUS
<1>5. /\ a \o b \in Seq(S) /\ Len(a \o b) = Len(s) - 1
      /\ \A j \in 1..(Len(s) - 1) :
           (a \o b)[j] = IF j <= i - 1 THEN a[j] ELSE b[j - (i - 1)]
  <2>1. Len(a) + Len(b) = Len(s) - 1
    BY <1>1, <1>2, <1>4
  <2>2. a \in Seq(S) /\ b \in Seq(S) /\ Len(a) = i - 1
    BY <1>1, <1>2
  <2>3. /\ a \o b \in Seq(S)
        /\ Len(a \o b) = Len(a) + Len(b)
        /\ \A j \in 1..(Len(a) + Len(b)) :
             (a \o b)[j] = IF j <= Len(a) THEN a[j] ELSE b[j - Len(a)]
    BY <2>2, ConcatFacts
  <2> QED
    BY <2>1, <2>2, <2>3
<1>6. \A j \in 1..(Len(s) - 1) :
        (a \o b)[j] = IF j < i THEN s[j] ELSE s[j + 1]
  <2> SUFFICES ASSUME NEW j \in 1..(Len(s) - 1)
               PROVE  (a \o b)[j] = IF j < i THEN s[j] ELSE s[j + 1]
    OBVIOUS
  <2>1. CASE j < i
    BY <1>1, <1>4, <1>5, <2>1
  <2>2. CASE ~(j < i)
    <3>1. j - (i - 1) \in 1..(Len(s) - i) /\ i + (j - (i - 1)) = j + 1
      BY <1>4, <2>2
    <3> QED
      BY <1>2, <1>4, <1>5, <2>2, <3>1
  <2> QED
    BY <2>1, <2>2
<1> QED
  BY <1>3, <1>5, <1>6

\* Without(queue, r): r is gone, the others are all still there, once each.
LEMMA WithoutFacts ==
  ASSUME NEW s \in Seq(Requests), IsInjective(s), NEW r \in Range(s)
  PROVE  /\ Without(s, r) \in Seq(Requests)
         /\ Range(Without(s, r)) = Range(s) \ {r}
         /\ IsInjective(Without(s, r))
<1> DEFINE i == CHOOSE k \in DOMAIN s : s[k] = r
           w == Without(s, r)
<1>1. i \in 1..Len(s) /\ s[i] = r
  BY DEF Range
<1>2. w = RemoveAt(s, i)
  BY DEF Without
<1> HIDE DEF i, w
<1>3. /\ w \in Seq(Requests) /\ DOMAIN w = 1..(Len(s) - 1)
      /\ \A j \in 1..(Len(s) - 1) : w[j] = IF j < i THEN s[j] ELSE s[j + 1]
  <2>1. /\ RemoveAt(s, i) \in Seq(Requests)
        /\ Len(RemoveAt(s, i)) = Len(s) - 1
        /\ \A j \in 1..(Len(s) - 1) :
             RemoveAt(s, i)[j] = IF j < i THEN s[j] ELSE s[j + 1]
    BY <1>1, RemoveAtFacts
  <2>2. w \in Seq(Requests) /\ Len(w) = Len(s) - 1
    BY <1>2, <2>1
  <2> QED
    BY <1>2, <2>1, <2>2
<1>4. \A k \in 1..Len(s) : k # i => \E j \in DOMAIN w : w[j] = s[k]
  <2> SUFFICES ASSUME NEW k \in 1..Len(s), k # i PROVE \E j \in DOMAIN w : w[j] = s[k]
    OBVIOUS
  <2>1. CASE k < i
    BY <1>1, <1>3, <2>1
  <2>2. CASE k > i
    <3>1. k - 1 \in DOMAIN w /\ w[k - 1] = s[k]
      BY <1>1, <1>3, <2>2
    <3> QED
      BY <3>1
  <2> QED
    BY <1>1, <2>1, <2>2
<1>5. \A j \in DOMAIN w : \E k \in 1..Len(s) : k # i /\ w[j] = s[k]
  <2> SUFFICES ASSUME NEW j \in DOMAIN w PROVE \E k \in 1..Len(s) : k # i /\ w[j] = s[k]
    OBVIOUS
  <2>1. j \in 1..(Len(s) - 1) /\ Len(s) \in Nat
    BY <1>3
  <2>2. CASE j < i
    <3>1. j \in 1..Len(s) /\ j # i /\ w[j] = s[j]
      BY <1>1, <1>3, <2>1, <2>2
    <3> QED
      BY <3>1
  <2>3. CASE ~(j < i)
    <3>1. j + 1 \in 1..Len(s) /\ j + 1 # i /\ w[j] = s[j + 1]
      BY <1>1, <1>3, <2>1, <2>3
    <3> QED
      BY <3>1
  <2> QED
    BY <2>2, <2>3
<1>6. Range(w) = Range(s) \ {r}
  BY <1>1, <1>4, <1>5 DEF Range, IsInjective
<1>7. IsInjective(w)
  <2> SUFFICES ASSUME NEW j \in DOMAIN w, NEW k \in DOMAIN w, w[j] = w[k]
               PROVE  j = k
    BY DEF IsInjective
  <2>1. j \in 1..(Len(s) - 1) /\ k \in 1..(Len(s) - 1) /\ Len(s) \in Nat
    BY <1>3
  <2>2. PICK l \in 1..Len(s) : s[l] = w[j] /\ IF j < i THEN l = j ELSE l = j + 1
    <3>1. j \in 1..Len(s) /\ j + 1 \in 1..Len(s)
      BY <2>1
    <3> QED
      BY <1>3, <2>1, <3>1
  <2>3. PICK m \in 1..Len(s) : s[m] = w[k] /\ IF k < i THEN m = k ELSE m = k + 1
    <3>1. k \in 1..Len(s) /\ k + 1 \in 1..Len(s)
      BY <2>1
    <3> QED
      BY <1>3, <2>1, <3>1
  <2>4. l = m
    BY <2>2, <2>3 DEF IsInjective
  <2> QED
    BY <1>1, <2>1, <2>2, <2>3, <2>4
<1> QED
  BY <1>3, <1>6, <1>7 DEF w

\* Append(queue, r): r joins the others.
LEMMA AppendFacts ==
  ASSUME NEW s \in Seq(Requests), IsInjective(s), NEW r \in Requests, r \notin Range(s)
  PROVE  /\ Append(s, r) \in Seq(Requests)
         /\ Range(Append(s, r)) = Range(s) \cup {r}
         /\ IsInjective(Append(s, r))
<1> DEFINE t == Append(s, r)
<1>1. /\ t \in Seq(Requests) /\ DOMAIN t = 1..(Len(s) + 1)
      /\ \A j \in 1..Len(s) : t[j] = s[j]
      /\ t[Len(s) + 1] = r
  OBVIOUS
<1> HIDE DEF t
<1>2. Range(t) = Range(s) \cup {r}
  <2>1. \A j \in DOMAIN t : j \in DOMAIN s \/ j = Len(s) + 1
    BY <1>1
  <2>2. DOMAIN s = 1..Len(s) /\ Len(s) \in Nat
    OBVIOUS
  <2> QED
    BY <1>1, <2>1, <2>2 DEF Range
<1>3. IsInjective(t)
  BY <1>1 DEF IsInjective, Range
<1> QED
  BY <1>1, <1>2, <1>3 DEF t

\* The first n entries of a queue, which a drain wakes.
FirstOf(s, n) == {s[i] : i \in 1..n}

\* What a drain leaves of a queue is the queue without the entries it woke.
LEMMA DrainFacts ==
  ASSUME NEW s \in Seq(Requests), IsInjective(s), NEW n \in 0..Len(s)
  PROVE  LET rest == SubSeq(s, n + 1, Len(s)) IN
         /\ rest \in Seq(Requests)
         /\ Len(rest) = Len(s) - n
         /\ Range(rest) = Range(s) \ FirstOf(s, n)
         /\ IsInjective(rest)
<1> DEFINE rest == SubSeq(s, n + 1, Len(s))
<1>1. /\ rest \in Seq(Requests) /\ Len(rest) = Len(s) - n
      /\ DOMAIN rest = 1..(Len(s) - n)
      /\ \A j \in 1..(Len(s) - n) : rest[j] = s[n + j]
  OBVIOUS
<1> HIDE DEF rest
<1>2. \A j \in DOMAIN rest : n + j \in DOMAIN s /\ n + j \notin 1..n
  BY <1>1
<1>3. \A k \in DOMAIN s : k \notin 1..n => k - n \in DOMAIN rest /\ rest[k - n] = s[k]
  BY <1>1
<1>4. 1..n \subseteq DOMAIN s
  OBVIOUS
<1>5. Range(rest) = Range(s) \ FirstOf(s, n)
  <2>1. Range(rest) \subseteq Range(s) \ FirstOf(s, n)
    BY <1>1, <1>2, <1>4 DEF Range, FirstOf, IsInjective
  <2>2. Range(s) \ FirstOf(s, n) \subseteq Range(rest)
    BY <1>3 DEF Range, FirstOf
  <2> QED
    BY <2>1, <2>2
<1>6. IsInjective(rest)
  <2> SUFFICES ASSUME NEW j \in DOMAIN rest, NEW k \in DOMAIN rest, rest[j] = rest[k]
               PROVE  j = k
    BY DEF IsInjective
  <2>1. n + j \in DOMAIN s /\ n + k \in DOMAIN s /\ s[n + j] = s[n + k]
    BY <1>1, <1>2
  <2>2. n + j = n + k
    BY <2>1 DEF IsInjective
  <2> QED
    BY <1>1, <2>2
<1> QED
  BY <1>1, <1>5, <1>6 DEF rest

\* A drain wakes as many requests as it hands out slots.
LEMMA FirstOfCardinality ==
  ASSUME NEW s \in Seq(Requests), IsInjective(s), NEW n \in 0..Len(s)
  PROVE  IsFiniteSet(FirstOf(s, n)) /\ Cardinality(FirstOf(s, n)) = n
<1> DEFINE f == [i \in 1..n |-> s[i]]
<1>1. f \in Bijection(1..n, FirstOf(s, n))
  <2>1. 1..n \subseteq DOMAIN s
    OBVIOUS
  <2>2. f \in Injection(1..n, FirstOf(s, n))
    BY <2>1 DEF Injection, FirstOf, IsInjective
  <2>3. f \in Surjection(1..n, FirstOf(s, n))
    BY DEF Surjection, FirstOf
  <2> QED
    BY <2>2, <2>3 DEF Bijection
<1>2. ExistsBijection(1..n, FirstOf(s, n))
  BY <1>1 DEF ExistsBijection
<1> QED
  BY <1>2, FS_CountingElements, FS_NatBijection

-----------------------------------------------------------------------------
(* The queues and the counter.                                             *)

CountersOK == maxConcurrency \in Limits /\ activeCount \in Int

QueuesOK ==
  /\ syncQueue \in Seq(Requests) /\ asyncQueue \in Seq(Requests)
  /\ pc \in [Requests -> Phases]
  /\ kind \in [Requests -> Kinds]
  /\ aborted \in [Requests -> BOOLEAN]
  /\ waiting \in [Requests -> BOOLEAN]

\* WaitersAreQueued needs only the shapes of the state, and the rest of the
\* invariant needs it: it is proved first.
QueueInv == CountersOK /\ QueuesOK /\ WaitersAreQueued

\* How a drain splits the slots it hands out between the two queues.
LEMMA HandedFacts ==
  ASSUME CountersOK, QueuesOK, NEW free \in Int
  PROVE  LET handed == Handed(free) IN
         /\ handed \in Nat
         /\ free > 0 => handed <= free
         /\ free <= 0 => handed = 0
         /\ FromSync(handed) \in 0..Len(syncQueue)
         /\ handed - FromSync(handed) \in 0..Len(asyncQueue)
         /\ handed < Len(syncQueue) + Len(asyncQueue) => handed >= free
BY DEF CountersOK, QueuesOK, Handed, FromSync, Smaller, Larger

\* The gate's memory and the callers agree about who is waiting, whatever
\* limit is configured.
LEMMA QueueInvariant == Spec => []QueueInv
<1> USE DEF CountersOK, QueuesOK, Phases, Kinds
<1>1. Init => QueueInv
  <2> SUFFICES ASSUME Init PROVE QueueInv
    OBVIOUS
  <2>1. CountersOK /\ QueuesOK
    BY DEF Init
  <2>2. /\ Range(syncQueue) = {} /\ Range(asyncQueue) = {}
        /\ IsInjective(syncQueue) /\ IsInjective(asyncQueue)
    BY DEF Init, IsInjective, Range
  <2> QED
    BY <2>1, <2>2 DEF Init, QueueInv, WaitersAreQueued, InQueue
<1>2. QueueInv /\ [Next]_vars => QueueInv'
  <2> SUFFICES ASSUME QueueInv, [Next]_vars PROVE QueueInv'
    OBVIOUS
  <2> USE LimitsAssumption DEF QueueInv
  <2>1. ASSUME NEW r \in Requests, AcquireNow(r) PROVE QueueInv'
    <3>1. CountersOK'
      BY <2>1 DEF AcquireNow
    <3>2. pc[r] = "idle" /\ pc' = [pc EXCEPT ![r] = "holding"]
          /\ UNCHANGED <<syncQueue, asyncQueue, kind, aborted, waiting>>
      BY <2>1 DEF AcquireNow
    <3>3. QueuesOK'
      BY <3>2 DEF Phases
    <3>4. \A u \in Requests : (pc'[u] = "queued") = (pc[u] = "queued")
      BY <3>2
    <3>5. \A u \in Requests : InQueue(u)' = InQueue(u)
      BY <3>2 DEF InQueue
    <3>6. WaitersAreQueued'
      BY <3>2, <3>4, <3>5 DEF WaitersAreQueued
    <3> QED
      BY <3>1, <3>3, <3>6
  <2>2. ASSUME NEW r \in Requests, AcquireLater(r) PROVE QueueInv'
    <3>1. r \notin Range(syncQueue) /\ r \notin Range(asyncQueue)
      <4>1. pc[r] # "queued"
        BY <2>2 DEF AcquireLater
      <4>2. ~InQueue(r)
        BY <4>1 DEF WaitersAreQueued
      <4> QED
        BY <4>2 DEF InQueue
    <3>2. CASE kind[r] = "sync"
      <4>1. syncQueue' = Append(syncQueue, r) /\ asyncQueue' = asyncQueue
        BY <2>2, <3>2 DEF AcquireLater, Queued
      <4>2. /\ syncQueue' \in Seq(Requests)
            /\ Range(syncQueue') = Range(syncQueue) \cup {r}
            /\ IsInjective(syncQueue')
        BY <3>1, <4>1, AppendFacts DEF WaitersAreQueued
      <4> QED
        BY <2>2, <3>2, <4>1, <4>2 DEF AcquireLater, WaitersAreQueued, InQueue
    <3>3. CASE kind[r] = "async"
      <4>1. asyncQueue' = Append(asyncQueue, r) /\ syncQueue' = syncQueue
        BY <2>2, <3>3 DEF AcquireLater, Queued
      <4>2. /\ asyncQueue' \in Seq(Requests)
            /\ Range(asyncQueue') = Range(asyncQueue) \cup {r}
            /\ IsInjective(asyncQueue')
        BY <3>1, <4>1, AppendFacts DEF WaitersAreQueued
      <4> QED
        BY <2>2, <3>3, <4>1, <4>2 DEF AcquireLater, WaitersAreQueued, InQueue
    <3> QED
      BY <3>2, <3>3
  <2>3. ASSUME NEW r \in Requests, Abort(r) PROVE QueueInv'
    <3>1. CASE ~InQueue(r)
      BY <2>3, <3>1 DEF Abort, WaitersAreQueued, InQueue
    <3>2. CASE InQueue(r) /\ kind[r] = "sync"
      <4>1. /\ syncQueue' = Without(syncQueue, r) /\ asyncQueue' = asyncQueue
            /\ r \in Range(syncQueue) /\ r \notin Range(asyncQueue)
        BY <2>3, <3>2 DEF Abort, WaitersAreQueued, InQueue
      <4>2. /\ syncQueue' \in Seq(Requests)
            /\ Range(syncQueue') = Range(syncQueue) \ {r}
            /\ IsInjective(syncQueue')
        BY <4>1, WithoutFacts DEF WaitersAreQueued
      <4>3. /\ pc' = [pc EXCEPT ![r] = "rejected"]
            /\ waiting' = [waiting EXCEPT ![r] = FALSE]
            /\ aborted' = [aborted EXCEPT ![r] = TRUE]
            /\ UNCHANGED <<maxConcurrency, activeCount, kind>>
        BY <2>3, <3>2 DEF Abort
      <4>4. CountersOK' /\ QueuesOK'
        BY <4>1, <4>2, <4>3
      <4>5. \A q \in Requests : InQueue(q)' = (InQueue(q) /\ q # r)
        BY <4>1, <4>2 DEF InQueue
      <4> QED
        BY <4>1, <4>2, <4>3, <4>4, <4>5 DEF WaitersAreQueued
    <3>3. CASE InQueue(r) /\ kind[r] = "async"
      <4>1. /\ asyncQueue' = Without(asyncQueue, r) /\ syncQueue' = syncQueue
            /\ r \in Range(asyncQueue) /\ r \notin Range(syncQueue)
        BY <2>3, <3>3 DEF Abort, WaitersAreQueued, InQueue
      <4>2. /\ asyncQueue' \in Seq(Requests)
            /\ Range(asyncQueue') = Range(asyncQueue) \ {r}
            /\ IsInjective(asyncQueue')
        BY <4>1, WithoutFacts DEF WaitersAreQueued
      <4>3. /\ pc' = [pc EXCEPT ![r] = "rejected"]
            /\ waiting' = [waiting EXCEPT ![r] = FALSE]
            /\ aborted' = [aborted EXCEPT ![r] = TRUE]
            /\ UNCHANGED <<maxConcurrency, activeCount, kind>>
        BY <2>3, <3>3 DEF Abort
      <4>4. CountersOK' /\ QueuesOK'
        BY <4>1, <4>2, <4>3
      <4>5. \A q \in Requests : InQueue(q)' = (InQueue(q) /\ q # r)
        BY <4>1, <4>2 DEF InQueue
      <4> QED
        BY <4>1, <4>2, <4>3, <4>4, <4>5 DEF WaitersAreQueued
    <3> QED
      BY <3>1, <3>2, <3>3
  <2>4. ASSUME NEW r \in Requests, Release(r) PROVE QueueInv'
    <3>1. CASE ReleaseUngated(r)
      BY <2>4, <3>1 DEF Release, ReleaseUngated, WaitersAreQueued, InQueue
    <3>2. CASE ReleaseGated(r)
      <4> DEFINE free      == maxConcurrency - (activeCount - 1)
                 handed    == Handed(free)
                 fromSync  == FromSync(handed)
                 fromAsync == handed - fromSync
                 woken     == FirstOf(syncQueue, fromSync)
                                \cup FirstOf(asyncQueue, fromAsync)
      <4>1. /\ handed \in Int
            /\ fromSync \in 0..Len(syncQueue)
            /\ fromAsync \in 0..Len(asyncQueue)
        <5>1. free \in Int
          BY LimitsAssumption
        <5> HIDE DEF free
        <5>2. /\ handed \in Nat
              /\ free > 0 => handed <= free
              /\ free <= 0 => handed = 0
              /\ fromSync \in 0..Len(syncQueue)
              /\ fromAsync \in 0..Len(asyncQueue)
              /\ handed < Len(syncQueue) + Len(asyncQueue) => handed >= free
          BY <5>1, HandedFacts
        <5> HIDE DEF handed, fromSync
        <5> QED
          BY <5>2
      <4>2. /\ activeCount' = activeCount - 1 + handed
            /\ syncQueue' = SubSeq(syncQueue, fromSync + 1, Len(syncQueue))
            /\ asyncQueue' = SubSeq(asyncQueue, fromAsync + 1, Len(asyncQueue))
            /\ waiting' = [q \in Requests |-> waiting[q] /\ q \notin woken]
            /\ pc' = [q \in Requests |-> IF q = r THEN "idle"
                                         ELSE IF q \in woken THEN "holding"
                                         ELSE pc[q]]
        BY <3>2, Zenon DEF ReleaseGated, FirstOf
      <4> HIDE DEF handed, fromSync, fromAsync
      <4>3. /\ syncQueue' \in Seq(Requests)
            /\ Range(syncQueue') = Range(syncQueue) \ FirstOf(syncQueue, fromSync)
            /\ IsInjective(syncQueue')
        BY <4>1, <4>2, DrainFacts DEF WaitersAreQueued
      <4>4. /\ asyncQueue' \in Seq(Requests)
            /\ Range(asyncQueue') = Range(asyncQueue) \ FirstOf(asyncQueue, fromAsync)
            /\ IsInjective(asyncQueue')
        BY <4>1, <4>2, DrainFacts DEF WaitersAreQueued
      <4>5. /\ FirstOf(syncQueue, fromSync) \subseteq Range(syncQueue)
            /\ FirstOf(asyncQueue, fromAsync) \subseteq Range(asyncQueue)
        BY <4>1 DEF FirstOf, Range
      <4>6. pc[r] = "holding" /\ ~InQueue(r)
        BY <2>4 DEF Release, WaitersAreQueued
      <4>7. /\ \A q \in Range(syncQueue) : kind[q] = "sync"
            /\ \A q \in Range(asyncQueue) : kind[q] = "async"
        BY DEF WaitersAreQueued
      <4>8. CountersOK' /\ QueuesOK'
        BY <2>4, <4>1, <4>2, <4>3, <4>4 DEF Release
      <4>9. kind' = kind
        BY <2>4 DEF Release
      <4>10. \A q \in Requests : (pc'[q] = "queued") = (pc[q] = "queued" /\ q \notin woken)
        <5> HIDE DEF woken
        <5> QED
          BY <4>2, <4>6
      <4>11. \A q \in Requests : InQueue(q)' = (InQueue(q) /\ q \notin woken)
        BY <4>3, <4>4, <4>5, <4>7 DEF InQueue
      <4>12. \A q \in Requests : waiting'[q] = (waiting[q] /\ q \notin woken)
        BY <4>2
      <4> HIDE DEF woken
      <4>13. /\ \A q \in Requests : (pc'[q] = "queued") = InQueue(q)'
             /\ \A q \in Requests : waiting'[q] = (pc'[q] = "queued")
        BY <4>10, <4>11, <4>12 DEF WaitersAreQueued
      <4> QED
        BY <4>3, <4>4, <4>7, <4>8, <4>9, <4>13 DEF WaitersAreQueued
    <3> QED
      BY <2>4, <3>1, <3>2 DEF Release
  <2>5. ASSUME NEW r \in Requests, Unwind(r) PROVE QueueInv'
    BY <2>5 DEF Unwind, gate, WaitersAreQueued, InQueue
  <2>6. CASE UNCHANGED vars
    BY <2>6 DEF vars, gate, WaitersAreQueued, InQueue
  <2> QED
    BY <2>1, <2>2, <2>3, <2>4, <2>5, <2>6 DEF Next
<1> QED
  BY <1>1, <1>2, PTL DEF Spec

\* A request is in exactly the queue of its kind, once, while it waits.
THEOREM WaitersStayQueued == Spec => []WaitersAreQueued
BY QueueInvariant, PTL DEF QueueInv

-----------------------------------------------------------------------------
(* The slots.                                                              *)

\* A provider that is not gated counts nothing, so the counter is a natural
\* number only together with SlotAccounting: releaseSlot subtracts blindly.
SlotInv ==
  /\ activeCount \in Nat
  /\ IsFiniteSet(Holders)
  /\ SlotAccounting
  /\ Gated /\ maxConcurrency > 0 => activeCount <= maxConcurrency
  /\ NoIdleSlot

\* Somebody waits just when a queue has an entry.
LEMMA QueuesEmpty ==
  ASSUME QueuesOK
  PROVE  /\ (syncQueue \o asyncQueue # <<>>) = (Len(syncQueue) + Len(asyncQueue) > 0)
         /\ Len(syncQueue) \in Nat /\ Len(asyncQueue) \in Nat
BY DEF QueuesOK

\* The slots in use are exactly the calls in flight, and no free slot is
\* left beside a waiting request.
LEMMA SlotInvariant == Spec => []SlotInv
<1> USE DEF CountersOK, QueuesOK, Phases, Kinds
<1>1. Init => SlotInv
  <2> SUFFICES ASSUME Init PROVE SlotInv
    OBVIOUS
  <2>1. Holders = {}
    BY DEF Init, Holders
  <2>2. IsFiniteSet(Holders) /\ Cardinality(Holders) = 0
    BY <2>1, FS_EmptySet
  <2>3. syncQueue \o asyncQueue = <<>>
    BY DEF Init
  <2>4. activeCount = 0
    BY DEF Init
  <2> QED
    BY <2>2, <2>3, <2>4, LimitsAssumption DEF SlotInv, SlotAccounting, NoIdleSlot, Init
<1>2. QueueInv /\ SlotInv /\ [Next]_vars => SlotInv'
  <2> SUFFICES ASSUME QueueInv, SlotInv, [Next]_vars PROVE SlotInv'
    OBVIOUS
  <2> USE LimitsAssumption DEF QueueInv, SlotInv
  <2>1. ASSUME NEW r \in Requests, AcquireNow(r) PROVE SlotInv'
    <3>1. Holders' = Holders \cup {r} /\ r \notin Holders
      BY <2>1 DEF AcquireNow, Holders
    <3>2. /\ IsFiniteSet(Holders')
          /\ Cardinality(Holders') = Cardinality(Holders) + 1
      BY <3>1, FS_AddElement
    <3>3. /\ syncQueue' = syncQueue /\ asyncQueue' = asyncQueue
          /\ maxConcurrency' = maxConcurrency
          /\ Gated => HasRoom
          /\ activeCount' = IF Gated THEN activeCount + 1 ELSE activeCount
      BY <2>1 DEF AcquireNow
    <3>4. syncQueue \o asyncQueue = <<>>
      BY <3>3 DEF NoIdleSlot
    <3> QED
      BY <3>2, <3>3, <3>4 DEF SlotAccounting, NoIdleSlot, Gated, HasRoom
  <2>2. ASSUME NEW r \in Requests, AcquireLater(r) PROVE SlotInv'
    <3>1. Holders' = Holders
      BY <2>2 DEF AcquireLater, Holders
    <3> QED
      BY <2>2, <3>1 DEF AcquireLater, SlotAccounting, NoIdleSlot, Gated, HasRoom
  <2>3. ASSUME NEW r \in Requests, Abort(r) PROVE SlotInv'
    <3>1. Holders' = Holders
      <4>1. InQueue(r) => pc[r] = "queued"
        BY DEF WaitersAreQueued
      <4> QED
        BY <2>3, <4>1 DEF Abort, Holders
    <3>2. InQueue(r) => syncQueue \o asyncQueue # <<>>
      <4>1. InQueue(r) => syncQueue # <<>> \/ asyncQueue # <<>>
        BY DEF InQueue, Range
      <4> QED
        BY <4>1
    <3>3. /\ maxConcurrency' = maxConcurrency /\ activeCount' = activeCount
          /\ ~InQueue(r) => syncQueue' = syncQueue /\ asyncQueue' = asyncQueue
      BY <2>3 DEF Abort
    <3> QED
      BY <3>1, <3>2, <3>3 DEF SlotAccounting, NoIdleSlot, Gated, HasRoom
  <2>4. ASSUME NEW r \in Requests, Release(r) PROVE SlotInv'
    <3>1. r \in Holders
      BY <2>4 DEF Release, Holders
    <3>2. /\ IsFiniteSet(Holders \ {r})
          /\ Cardinality(Holders \ {r}) = Cardinality(Holders) - 1
          /\ Cardinality(Holders \ {r}) \in Nat
      BY <3>1, FS_RemoveElement, FS_CardinalityType
    <3>3. CASE ReleaseUngated(r)
      <4>1. Holders' = Holders \ {r}
        BY <2>4, <3>3 DEF Release, ReleaseUngated, Holders
      <4>2. /\ syncQueue' = syncQueue /\ asyncQueue' = asyncQueue
            /\ maxConcurrency' = maxConcurrency /\ activeCount' = activeCount
            /\ ~Gated
        BY <2>4, <3>3 DEF Release, ReleaseUngated
      <4> QED
        BY <3>2, <4>1, <4>2 DEF SlotAccounting, NoIdleSlot, Gated
    <3>4. CASE ReleaseGated(r)
      <4> DEFINE free      == maxConcurrency - (activeCount - 1)
                 handed    == Handed(free)
                 fromSync  == FromSync(handed)
                 fromAsync == handed - fromSync
                 wokenS    == FirstOf(syncQueue, fromSync)
                 wokenA    == FirstOf(asyncQueue, fromAsync)
      <4>1. /\ Gated
            /\ activeCount' = activeCount - 1 + handed
            /\ syncQueue' = SubSeq(syncQueue, fromSync + 1, Len(syncQueue))
            /\ asyncQueue' = SubSeq(asyncQueue, fromAsync + 1, Len(asyncQueue))
            /\ pc' = [q \in Requests |-> IF q = r THEN "idle"
                                         ELSE IF q \in wokenS \cup wokenA THEN "holding"
                                         ELSE pc[q]]
        BY <3>4, Zenon DEF ReleaseGated, FirstOf
      <4>2. free \in Int /\ free = maxConcurrency - (activeCount - 1)
            /\ maxConcurrency' = maxConcurrency
        BY <2>4 DEF Release
      <4> HIDE DEF free
      <4>3. /\ handed \in Nat
            /\ free > 0 => handed <= free
            /\ free <= 0 => handed = 0
            /\ fromSync \in 0..Len(syncQueue)
            /\ fromAsync \in 0..Len(asyncQueue)
            /\ handed < Len(syncQueue) + Len(asyncQueue) => handed >= free
        BY <4>2, HandedFacts
      <4> HIDE DEF handed, fromSync
      <4>4. activeCount = Cardinality(Holders)
        BY <4>1 DEF SlotAccounting
      <4>5. /\ IsFiniteSet(wokenS) /\ Cardinality(wokenS) = fromSync
            /\ IsFiniteSet(wokenA) /\ Cardinality(wokenA) = fromAsync
        BY <4>3, FirstOfCardinality DEF WaitersAreQueued
      <4>6. wokenS \subseteq Range(syncQueue) /\ wokenA \subseteq Range(asyncQueue)
        BY <4>3 DEF FirstOf, Range
      <4>7. /\ wokenS \cup wokenA \subseteq Requests
            /\ wokenS \cap wokenA = {}
            /\ \A q \in wokenS \cup wokenA : pc[q] = "queued"
        <5>1. Range(syncQueue) \subseteq Requests /\ Range(asyncQueue) \subseteq Requests
          BY DEF Range
        <5>2. \A q \in Range(syncQueue) : kind[q] = "sync"
          BY DEF WaitersAreQueued
        <5>3. \A q \in Range(asyncQueue) : kind[q] = "async"
          BY DEF WaitersAreQueued
        <5> HIDE DEF wokenS, wokenA
        <5>4. \A q \in wokenS \cup wokenA : InQueue(q) /\ q \in Requests
          BY <4>6, <5>1 DEF InQueue
        <5>5. wokenS \cap wokenA = {}
          BY <4>6, <5>2, <5>3
        <5> QED
          BY <5>4, <5>5 DEF WaitersAreQueued
      <4> HIDE DEF wokenS, wokenA
      <4>8. /\ IsFiniteSet(wokenS \cup wokenA)
            /\ Cardinality(wokenS \cup wokenA) = handed
        <5>1. fromSync \in Int /\ fromAsync \in Int /\ fromSync + fromAsync = handed
          BY <4>3
        <5>2. Cardinality(wokenS \cap wokenA) = 0
          BY <4>7, FS_EmptySet
        <5> HIDE DEF fromAsync
        <5>3. /\ IsFiniteSet(wokenS \cup wokenA)
              /\ Cardinality(wokenS \cup wokenA) =
                   Cardinality(wokenS) + Cardinality(wokenA) - Cardinality(wokenS \cap wokenA)
          BY <4>5, FS_Union
        <5> QED
          BY <4>5, <5>1, <5>2, <5>3
      <4>9. Holders' = (Holders \ {r}) \cup (wokenS \cup wokenA)
        <5>1. \A q \in Requests : pc'[q] = "holding" <=>
                q # r /\ (q \in wokenS \cup wokenA \/ pc[q] = "holding")
          BY <4>1
        <5>2. r \notin wokenS \cup wokenA
          BY <3>1, <4>7 DEF Holders
        <5> QED
          BY <4>7, <5>1, <5>2 DEF Holders
      <4>10. (Holders \ {r}) \cap (wokenS \cup wokenA) = {}
        BY <4>7 DEF Holders
      <4>11. IsFiniteSet(Holders') /\ Cardinality(Holders') = activeCount'
        <5>1. Cardinality((Holders \ {r}) \cap (wokenS \cup wokenA)) = 0
          BY <4>10, FS_EmptySet
        <5>2. /\ IsFiniteSet(Holders')
              /\ Cardinality(Holders') = Cardinality(Holders \ {r}) + Cardinality(wokenS \cup wokenA) - 0
          BY <3>2, <4>8, <4>9, <5>1, FS_Union
        <5> QED
          BY <3>2, <4>1, <4>3, <4>4, <4>8, <5>2
      <4>12. activeCount' \in Nat
        BY <3>2, <4>1, <4>3, <4>4
      <4>13. Gated' = Gated
        BY <4>2 DEF Gated
      <4>14. maxConcurrency > 0 => activeCount' <= maxConcurrency'
        BY <4>1, <4>2, <4>3
      <4>15. NoIdleSlot'
        <5>1. /\ Len(syncQueue') = Len(syncQueue) - fromSync
              /\ Len(asyncQueue') = Len(asyncQueue) - fromAsync
              /\ syncQueue' \in Seq(Requests) /\ asyncQueue' \in Seq(Requests)
          <6> HIDE DEF fromAsync
          <6> QED
            BY <4>1, <4>3, DrainFacts DEF WaitersAreQueued
        <5>2. syncQueue' \o asyncQueue' # <<>> => handed < Len(syncQueue) + Len(asyncQueue)
          <6>1. syncQueue' \o asyncQueue' # <<>> => Len(syncQueue') + Len(asyncQueue') > 0
            BY <5>1
          <6> QED
            BY <4>3, <5>1, <6>1
        <5>3. handed >= free => ~(activeCount' < maxConcurrency')
          BY <4>1, <4>2, <4>3
        <5> QED
          BY <4>1, <4>3, <4>13, <5>2, <5>3 DEF NoIdleSlot, HasRoom
      <4> QED
        BY <4>2, <4>11, <4>12, <4>13, <4>14, <4>15 DEF SlotAccounting
    <3> QED
      BY <2>4, <3>3, <3>4 DEF Release
  <2>5. ASSUME NEW r \in Requests, Unwind(r) PROVE SlotInv'
    <3>1. Holders' = Holders
      BY <2>5 DEF Unwind, Holders
    <3> QED
      BY <2>5, <3>1 DEF Unwind, gate, SlotAccounting, NoIdleSlot, Gated, HasRoom
  <2>6. CASE UNCHANGED vars
    <3>1. Holders' = Holders
      BY <2>6 DEF vars, Holders
    <3> QED
      BY <2>6, <3>1 DEF vars, gate, SlotAccounting, NoIdleSlot, Gated, HasRoom
  <2> QED
    BY <2>1, <2>2, <2>3, <2>4, <2>5, <2>6 DEF Next
<1> QED
  BY <1>1, <1>2, QueueInvariant, PTL DEF Spec

\* The gate keeps its types; the counter never goes below zero.
THEOREM TypeCorrect == Spec => []TypeOK
<1>1. QueueInv /\ SlotInv => TypeOK
  BY DEF QueueInv, CountersOK, QueuesOK, SlotInv, TypeOK
<1> QED
  BY <1>1, QueueInvariant, SlotInvariant, PTL

\* No slot leaks and none is given back twice, whatever is aborted or fails.
THEOREM SlotsAccounted == Spec => []SlotAccounting
BY SlotInvariant, PTL DEF SlotInv

\* No more calls are in flight than the provider was configured for.
THEOREM LimitKept == Spec => []WithinLimit
<1>1. SlotInv => WithinLimit
  BY DEF SlotInv, SlotAccounting, WithinLimit
<1> QED
  BY <1>1, SlotInvariant, PTL

\* Nobody waits beside a free slot: a drain and an aborted wait leave no
\* request behind that nothing will wake.
THEOREM NoSlotIdles == Spec => []NoIdleSlot
BY SlotInvariant, PTL DEF SlotInv

-----------------------------------------------------------------------------
(* Priority.                                                               *)

SyncFirstStep ==
  \A r, s \in Requests :
    Granted(r) /\ pc[s] = "queued" /\ kind[s] = "sync" /\ pc'[s] = "queued"
      => pc[r] = "queued" /\ kind[r] = "sync"

\* A slot is never taken over the head of a waiting interactive request:
\* a newcomer finds no free slot while somebody waits, and a drain reaches
\* the background queue only after it has emptied the interactive one.
THEOREM PriorityKept == Spec => SyncFirst
<1> USE DEF CountersOK, QueuesOK, Phases, Kinds
<1>1. QueueInv /\ SlotInv /\ [Next]_vars => [SyncFirstStep]_vars
  <2> SUFFICES ASSUME QueueInv, SlotInv, Next,
                      NEW g \in Requests, NEW s \in Requests,
                      Granted(g), pc[s] = "queued", kind[s] = "sync", pc'[s] = "queued"
               PROVE  pc[g] = "queued" /\ kind[g] = "sync"
    BY DEF SyncFirstStep
  <2> USE LimitsAssumption DEF QueueInv
  <2>1. s \in Range(syncQueue) /\ s \notin Range(asyncQueue)
    BY DEF WaitersAreQueued, InQueue
  <2>2. syncQueue \o asyncQueue # <<>>
    <3>1. syncQueue # <<>>
      BY <2>1 DEF Range
    <3> QED
      BY <3>1
  <2>3. ASSUME NEW r \in Requests, AcquireNow(r) PROVE FALSE
    BY <2>2, <2>3 DEF AcquireNow, SlotInv, NoIdleSlot
  <2>4. ASSUME NEW r \in Requests, AcquireLater(r) \/ Abort(r) \/ Unwind(r) PROVE FALSE
    BY <2>4 DEF AcquireLater, Abort, Unwind, Granted
  <2>5. ASSUME NEW r \in Requests, Release(r)
        PROVE  pc[g] = "queued" /\ kind[g] = "sync"
    <3>1. CASE ReleaseUngated(r)
      BY <3>1 DEF ReleaseUngated, Granted
    <3>2. CASE ReleaseGated(r)
      <4> DEFINE free      == maxConcurrency - (activeCount - 1)
                 handed    == Handed(free)
                 fromSync  == FromSync(handed)
                 fromAsync == handed - fromSync
                 wokenS    == FirstOf(syncQueue, fromSync)
                 wokenA    == FirstOf(asyncQueue, fromAsync)
      <4>1. pc' = [q \in Requests |-> IF q = r THEN "idle"
                                      ELSE IF q \in wokenS \cup wokenA THEN "holding"
                                      ELSE pc[q]]
        BY <3>2, Zenon DEF ReleaseGated, FirstOf
      <4>2. free \in Int
        OBVIOUS
      <4> HIDE DEF free
      <4>3. /\ handed \in Nat
            /\ free > 0 => handed <= free
            /\ free <= 0 => handed = 0
            /\ fromSync \in 0..Len(syncQueue)
            /\ fromAsync \in 0..Len(asyncQueue)
            /\ handed < Len(syncQueue) + Len(asyncQueue) => handed >= free
        BY <4>2, HandedFacts
      <4>4. fromSync < Len(syncQueue) => fromSync = handed
        BY <4>3 DEF FromSync, Smaller
      <4> HIDE DEF handed, fromSync
      <4>5. s \notin wokenS /\ g \in wokenS \cup wokenA
        BY <4>1 DEF Granted
      <4>6. fromSync < Len(syncQueue)
        <5>1. PICK i \in 1..Len(syncQueue) : syncQueue[i] = s
          BY <2>1 DEF Range
        <5>2. i \notin 1..fromSync
          BY <4>5, <5>1 DEF FirstOf
        <5>3. i \in Int /\ 1 <= i /\ i <= Len(syncQueue) /\ fromSync \in Int
          BY <4>3
        <5> QED
          BY <5>2, <5>3
      <4>7. wokenA = {}
        BY <4>3, <4>4, <4>6 DEF FirstOf
      <4>8. g \in Range(syncQueue)
        <5>1. 1..fromSync \subseteq DOMAIN syncQueue
          BY <4>3
        <5> QED
          BY <4>5, <4>7, <5>1 DEF FirstOf, Range
      <4> QED
        BY <4>8 DEF WaitersAreQueued, InQueue
    <3> QED
      BY <2>5, <3>1, <3>2 DEF Release
  <2> QED
    BY <2>3, <2>4, <2>5 DEF Next
<1> QED
  BY <1>1, QueueInvariant, SlotInvariant, PTL DEF Spec, SyncFirst, SyncFirstStep

-----------------------------------------------------------------------------
(* Order.                                                                  *)

\* s stands before r in this queue.
AheadIn(queue, s, r) ==
  \E i, j \in DOMAIN queue : i < j /\ queue[i] = s /\ queue[j] = r

\* Ahead is to stand before somebody in one of the two queues.
LEMMA AheadInEither ==
  ASSUME NEW s, NEW r
  PROVE  Ahead(s, r) <=> AheadIn(syncQueue, s, r) \/ AheadIn(asyncQueue, s, r)
BY DEF Ahead, AheadIn

\* Who joins a queue stands behind everybody in it.
LEMMA AppendOrder ==
  ASSUME NEW q \in Seq(Requests), NEW x \in Requests
  PROVE  /\ \A s, r : AheadIn(q, s, r) => AheadIn(Append(q, x), s, r)
         /\ \A s \in Range(q) : AheadIn(Append(q, x), s, x)
<1> DEFINE t == Append(q, x)
<1>1. /\ DOMAIN t = 1..(Len(q) + 1) /\ DOMAIN q = 1..Len(q) /\ Len(q) \in Nat
      /\ \A j \in 1..Len(q) : t[j] = q[j]
      /\ t[Len(q) + 1] = x
  OBVIOUS
<1> HIDE DEF t
<1>2. ASSUME NEW s, NEW r, AheadIn(q, s, r) PROVE AheadIn(t, s, r)
  BY <1>1, <1>2 DEF AheadIn
<1>3. ASSUME NEW s \in Range(q) PROVE AheadIn(t, s, x)
  <2>1. PICK i \in DOMAIN q : q[i] = s
    BY DEF Range
  <2>2. i \in DOMAIN t /\ Len(q) + 1 \in DOMAIN t /\ i < Len(q) + 1 /\ t[i] = s
    BY <1>1, <2>1
  <2> QED
    BY <1>1, <2>2 DEF AheadIn
<1> QED
  BY <1>2, <1>3 DEF t

\* The splice of an aborted wait leaves the others in their order.
LEMMA WithoutOrder ==
  ASSUME NEW q \in Seq(Requests), NEW x \in Range(q),
         NEW s, NEW r, s # x, r # x, AheadIn(q, s, r)
  PROVE  AheadIn(Without(q, x), s, r)
<1> DEFINE k == CHOOSE i \in DOMAIN q : q[i] = x
           w == Without(q, x)
<1>1. k \in 1..Len(q) /\ q[k] = x
  BY DEF Range
<1>2. w = RemoveAt(q, k)
  BY DEF Without
<1> HIDE DEF k, w
<1>3. /\ w \in Seq(Requests) /\ DOMAIN w = 1..(Len(q) - 1)
      /\ \A j \in 1..(Len(q) - 1) : w[j] = IF j < k THEN q[j] ELSE q[j + 1]
  <2>1. /\ RemoveAt(q, k) \in Seq(Requests)
        /\ Len(RemoveAt(q, k)) = Len(q) - 1
        /\ \A j \in 1..(Len(q) - 1) :
             RemoveAt(q, k)[j] = IF j < k THEN q[j] ELSE q[j + 1]
    BY <1>1, RemoveAtFacts
  <2>2. w \in Seq(Requests) /\ Len(w) = Len(q) - 1
    BY <1>2, <2>1
  <2> QED
    BY <1>2, <2>1, <2>2
<1>4. PICK i \in 1..Len(q), j \in 1..Len(q) : i < j /\ q[i] = s /\ q[j] = r
  BY DEF AheadIn
<1> DEFINE moved(n) == IF n < k THEN n ELSE n - 1
<1>5. ASSUME NEW n \in 1..Len(q), n # k
      PROVE  moved(n) \in DOMAIN w /\ w[moved(n)] = q[n]
  <2>1. CASE n < k
    BY <1>1, <1>3, <2>1
  <2>2. CASE n > k
    <3>1. /\ n - 1 \in 1..(Len(q) - 1) /\ ~(n - 1 < k) /\ (n - 1) + 1 = n
          /\ ~(n < k)
      BY <1>1, <2>2
    <3>2. w[n - 1] = q[n]
      BY <1>3, <3>1
    <3> QED
      BY <1>3, <3>1, <3>2
  <2> QED
    BY <1>1, <1>5, <2>1, <2>2
<1>6. i # k /\ j # k
  BY <1>1, <1>4
<1>7. moved(i) < moved(j)
  BY <1>1, <1>4, <1>6
<1> HIDE DEF moved
<1> QED
  BY <1>4, <1>5, <1>6, <1>7 DEF AheadIn, w

\* A drain that does not reach s reaches nobody behind s, and leaves those
\* it does not reach in their order.
LEMMA DrainOrder ==
  ASSUME NEW q \in Seq(Requests), IsInjective(q), NEW n \in 0..Len(q),
         NEW s, NEW r, AheadIn(q, s, r), s \notin FirstOf(q, n)
  PROVE  /\ AheadIn(SubSeq(q, n + 1, Len(q)), s, r)
         /\ r \notin FirstOf(q, n)
<1> DEFINE rest == SubSeq(q, n + 1, Len(q))
<1>1. /\ DOMAIN rest = 1..(Len(q) - n)
      /\ \A j \in 1..(Len(q) - n) : rest[j] = q[n + j]
  OBVIOUS
<1> HIDE DEF rest
<1>2. PICK i \in 1..Len(q), j \in 1..Len(q) : i < j /\ q[i] = s /\ q[j] = r
  BY DEF AheadIn
<1>3. i > n
  BY <1>2 DEF FirstOf
<1>4. AheadIn(rest, s, r)
  <2>1. /\ i - n \in DOMAIN rest /\ j - n \in DOMAIN rest /\ i - n < j - n
        /\ n + (i - n) = i /\ n + (j - n) = j
    BY <1>1, <1>2, <1>3
  <2>2. rest[i - n] = s /\ rest[j - n] = r
    BY <1>1, <1>2, <2>1
  <2> QED
    BY <2>1, <2>2 DEF AheadIn
<1>5. r \notin FirstOf(q, n)
  <2> SUFFICES ASSUME NEW m \in 1..n, q[m] = r PROVE FALSE
    BY DEF FirstOf
  <2>1. m = j
    BY <1>2 DEF IsInjective
  <2> QED
    BY <1>2, <1>3, <2>1
<1> QED
  BY <1>4, <1>5 DEF rest

FifoStep ==
  \A r, s \in Requests :
    Earlier(s, r) /\ pc'[s] = "queued" => Earlier(s, r)' /\ ~Granted(r)

\* Within a kind, requests are served in the order they came: as long as
\* one waits, nobody who came later gets before it or gets a slot, wherever
\* a wait is aborted and wherever a drain stops.
THEOREM ServedInOrder == Spec => FifoWithinKind
<1> USE DEF CountersOK, QueuesOK, Phases, Kinds
<1>1. QueueInv /\ SlotInv /\ [Next]_vars => [FifoStep]_vars
  <2> SUFFICES ASSUME QueueInv, SlotInv, Next,
                      NEW r \in Requests, NEW s \in Requests,
                      Earlier(s, r), pc'[s] = "queued"
               PROVE  Earlier(s, r)' /\ ~Granted(r)
    BY DEF FifoStep
  <2> USE LimitsAssumption DEF QueueInv
  <2>1. /\ s # r /\ kind[s] = kind[r] /\ pc[s] = "queued"
        /\ pc[r] = "queued" => AheadIn(syncQueue, s, r) \/ AheadIn(asyncQueue, s, r)
    BY AheadInEither DEF Earlier
  <2>2. s \in Range(syncQueue) \/ s \in Range(asyncQueue)
    BY <2>1 DEF WaitersAreQueued, InQueue
  <2>3. syncQueue \o asyncQueue # <<>>
    <3>1. syncQueue # <<>> \/ asyncQueue # <<>>
      BY <2>2 DEF Range
    <3> QED
      BY <3>1
  <2>4. kind' = kind
    BY DEF Next, AcquireNow, AcquireLater, Abort, Release, Unwind
  <2>5. SUFFICES /\ pc'[r] = "queued" =>
                      AheadIn(syncQueue', s, r) \/ AheadIn(asyncQueue', s, r)
                 /\ ~Granted(r)
    <3>1. Ahead(s, r)' <=> AheadIn(syncQueue', s, r) \/ AheadIn(asyncQueue', s, r)
      BY DEF Ahead, AheadIn
    <3> QED
      BY <2>1, <2>4, <2>5, <3>1 DEF Earlier
  <2>6. ASSUME NEW x \in Requests, AcquireNow(x) PROVE FALSE
    BY <2>3, <2>6 DEF AcquireNow, SlotInv, NoIdleSlot
  <2>7. ASSUME NEW x \in Requests, AcquireLater(x)
        PROVE  /\ pc'[r] = "queued" =>
                    AheadIn(syncQueue', s, r) \/ AheadIn(asyncQueue', s, r)
               /\ ~Granted(r)
    <3>1. pc[x] = "idle" /\ pc' = [pc EXCEPT ![x] = "queued"]
      BY <2>7 DEF AcquireLater
    <3>2. ~Granted(r)
      BY <3>1 DEF Granted
    <3>3. /\ kind[x] = "sync" => syncQueue' = Append(syncQueue, x) /\ asyncQueue' = asyncQueue
          /\ kind[x] = "async" => asyncQueue' = Append(asyncQueue, x) /\ syncQueue' = syncQueue
      BY <2>7 DEF AcquireLater, Queued
    <3>4. CASE r = x
      <4>1. /\ kind[x] = "sync" => s \in Range(syncQueue)
            /\ kind[x] = "async" => s \in Range(asyncQueue)
        BY <2>1, <2>2, <3>4 DEF WaitersAreQueued
      <4> QED
        BY <3>2, <3>3, <3>4, <4>1, AppendOrder
    <3>5. CASE r # x
      <4>1. pc'[r] = pc[r]
        BY <3>1, <3>5
      <4> QED
        BY <2>1, <3>2, <3>3, <4>1, AppendOrder
    <3> QED
      BY <3>4, <3>5
  <2>8. ASSUME NEW x \in Requests, Abort(x)
        PROVE  /\ pc'[r] = "queued" =>
                    AheadIn(syncQueue', s, r) \/ AheadIn(asyncQueue', s, r)
               /\ ~Granted(r)
    <3>1. CASE ~InQueue(x)
      BY <2>1, <2>8, <3>1 DEF Abort, Granted
    <3>2. CASE InQueue(x)
      <4>1. pc' = [pc EXCEPT ![x] = "rejected"]
        BY <2>8, <3>2 DEF Abort
      <4>2. ~Granted(r) /\ s # x
        BY <4>1 DEF Granted
      <4>3. /\ kind[x] = "sync" =>
                 /\ syncQueue' = Without(syncQueue, x) /\ asyncQueue' = asyncQueue
                 /\ x \in Range(syncQueue)
            /\ kind[x] = "async" =>
                 /\ asyncQueue' = Without(asyncQueue, x) /\ syncQueue' = syncQueue
                 /\ x \in Range(asyncQueue)
        BY <2>8, <3>2 DEF Abort, WaitersAreQueued, InQueue
      <4>4. CASE r = x
        BY <4>1, <4>2, <4>4
      <4>5. CASE r # x
        <5>1. pc'[r] = pc[r]
          BY <4>1, <4>5
        <5> QED
          BY <2>1, <4>2, <4>3, <4>5, <5>1, WithoutOrder
      <4> QED
        BY <4>4, <4>5
    <3> QED
      BY <3>1, <3>2
  <2>9. ASSUME NEW x \in Requests, Release(x)
        PROVE  /\ pc'[r] = "queued" =>
                    AheadIn(syncQueue', s, r) \/ AheadIn(asyncQueue', s, r)
               /\ ~Granted(r)
    <3>1. CASE ReleaseUngated(x)
      BY <2>1, <3>1 DEF ReleaseUngated, Granted
    <3>2. CASE ReleaseGated(x)
      <4> DEFINE free      == maxConcurrency - (activeCount - 1)
                 handed    == Handed(free)
                 fromSync  == FromSync(handed)
                 fromAsync == handed - fromSync
                 wokenS    == FirstOf(syncQueue, fromSync)
                 wokenA    == FirstOf(asyncQueue, fromAsync)
      <4>1. /\ syncQueue' = SubSeq(syncQueue, fromSync + 1, Len(syncQueue))
            /\ asyncQueue' = SubSeq(asyncQueue, fromAsync + 1, Len(asyncQueue))
            /\ pc' = [q \in Requests |-> IF q = x THEN "idle"
                                         ELSE IF q \in wokenS \cup wokenA THEN "holding"
                                         ELSE pc[q]]
        BY <3>2, Zenon DEF ReleaseGated, FirstOf
      <4>2. free \in Int
        OBVIOUS
      <4> HIDE DEF free
      <4>3. fromSync \in 0..Len(syncQueue) /\ fromAsync \in 0..Len(asyncQueue)
        BY <4>2, HandedFacts
      <4> HIDE DEF fromSync, fromAsync
      <4>4. wokenS \subseteq Range(syncQueue) /\ wokenA \subseteq Range(asyncQueue)
        BY <4>3 DEF FirstOf, Range
      <4>5. IsInjective(syncQueue) /\ IsInjective(asyncQueue)
        BY DEF WaitersAreQueued
      <4> HIDE DEF wokenS, wokenA
      <4>6. s \notin wokenS \cup wokenA
        BY <4>1
      <4>7. AheadIn(syncQueue, s, r) => AheadIn(syncQueue', s, r) /\ r \notin wokenS
        BY <4>1, <4>3, <4>5, <4>6, DrainOrder DEF wokenS
      <4>8. AheadIn(asyncQueue, s, r) => AheadIn(asyncQueue', s, r) /\ r \notin wokenA
        BY <4>1, <4>3, <4>5, <4>6, DrainOrder DEF wokenA
      <4>9. r \in wokenS \cup wokenA => pc[r] = "queued"
        BY <4>4 DEF WaitersAreQueued, InQueue
      <4>10. r \notin wokenS \cup wokenA
        <5>1. AheadIn(syncQueue, s, r) => kind[r] = "sync"
          BY DEF AheadIn, WaitersAreQueued, Range
        <5>2. AheadIn(asyncQueue, s, r) => kind[r] = "async"
          BY DEF AheadIn, WaitersAreQueued, Range
        <5>3. (r \in wokenS => kind[r] = "sync") /\ (r \in wokenA => kind[r] = "async")
          BY <4>4 DEF WaitersAreQueued
        <5> QED
          BY <2>1, <4>7, <4>8, <4>9, <5>1, <5>2, <5>3
      <4> QED
        BY <2>1, <4>1, <4>7, <4>8, <4>10 DEF Granted
    <3> QED
      BY <2>9, <3>1, <3>2 DEF Release
  <2>10. ASSUME NEW x \in Requests, Unwind(x)
         PROVE  /\ pc'[r] = "queued" =>
                     AheadIn(syncQueue', s, r) \/ AheadIn(asyncQueue', s, r)
                /\ ~Granted(r)
    BY <2>1, <2>10 DEF Unwind, gate, Granted
  <2> QED
    BY <2>6, <2>7, <2>8, <2>9, <2>10 DEF Next
<1> QED
  BY <1>1, QueueInvariant, SlotInvariant, PTL DEF Spec, FifoWithinKind, FifoStep
=============================================================================
