-------------------------- MODULE TaskMoves_proofs --------------------------
(***************************************************************************)
(* What a move of the board does to the tables, step by step: the lemmas   *)
(* that the invariant of TaskWaiters_proofs and MovesLand rest on.         *)
(***************************************************************************)
EXTENDS TaskTables_proofs, SequenceTheorems

-----------------------------------------------------------------------------
(* A move is the loop over the steps of its plan.                          *)

\* Where a move starts.
Start(d) == [d |-> d, failed |-> FALSE]

\* g goes through the first n steps.
GoesThrough(g, n, d, E, t, steps, order) ==
  g = [i \in 0..n |-> IF i = 0 THEN Start(d) ELSE NextStep(g[i - 1], E, t, steps[i], order)]

\* f goes through them all, to where the move ends.
EndsIn(f, n, d, E, t, steps, order) ==
  GoesThrough(f, n, d, E, t, steps, order) /\ Moved(d, E, t, steps, order) = f[n]

\* A move ends where a loop over its steps ends: there is one by what it went
\* through.
LEMMA MovedIsLoop ==
  ASSUME NEW d, NEW E, NEW t, NEW order, NEW steps, NEW n, Len(steps) = n,
         NEW g, GoesThrough(g, n, d, E, t, steps, order)
  PROVE  \E f : EndsIn(f, n, d, E, t, steps, order)
<1> DEFINE Body(f) == [i \in 0..Len(steps) |->
                        IF i = 0 THEN [d |-> d, failed |-> FALSE]
                        ELSE NextStep(f[i - 1], E, t, steps[i], order)]
           Over(f) == [i \in 0..n |-> IF i = 0 THEN Start(d)
                                      ELSE NextStep(f[i - 1], E, t, steps[i], order)]
           after == CHOOSE f : f = Body(f)
<1>1. Moved(d, E, t, steps, order) = after[Len(steps)]
  BY Zenon DEF Moved
<1>2. \A f : Body(f) = Over(f)
  BY Zenon DEF Start
<1>3. g = Over(g)
  BY Zenon DEF GoesThrough
<1> HIDE DEF Body, Over
<1>4. g = Body(g)
  BY <1>2, <1>3, Zenon
<1>5. after = Body(after)
  BY <1>4, Zenon
<1>6. after = Over(after)
  BY <1>2, <1>5, Zenon
<1> HIDE DEF after
<1>7. GoesThrough(after, n, d, E, t, steps, order)
  BY <1>6, Zenon DEF GoesThrough, Over
<1>8. EndsIn(after, n, d, E, t, steps, order)
  BY <1>1, <1>7, Zenon DEF EndsIn
<1> QED
  BY <1>8, Zenon

\* A move of one step.
LEMMA MovedOne ==
  ASSUME NEW d, NEW E, NEW t, NEW order, NEW a
  PROVE  Moved(d, E, t, <<a>>, order) = NextStep(Start(d), E, t, a, order)
<1> DEFINE steps == <<a>>
           s1 == NextStep(Start(d), E, t, a, order)
           g == [i \in 0..1 |-> IF i = 0 THEN Start(d) ELSE s1]
<1>1. Len(steps) = 1 /\ steps[1] = a
  OBVIOUS
<1> HIDE DEF steps
<1>2. \A i \in 0..1 : i # 0 => i = 1 /\ i - 1 = 0
  OBVIOUS
<1>3. \A i \in 0..1 :
        g[i] = IF i = 0 THEN Start(d) ELSE NextStep(g[i - 1], E, t, steps[i], order)
  BY <1>1, <1>2
<1>4. GoesThrough(g, 1, d, E, t, steps, order)
  BY <1>3 DEF GoesThrough
<1> HIDE DEF g
<1>5. PICK f : EndsIn(f, 1, d, E, t, steps, order)
  <2>1. Len(steps) = 1
    BY <1>1
  <2> QED
    BY <1>4, <2>1, MovedIsLoop, Zenon
<1>6. f[0] = Start(d) /\ f[1] = NextStep(f[0], E, t, steps[1], order)
  BY <1>5 DEF GoesThrough, EndsIn
<1> QED
  BY <1>1, <1>5, <1>6, Zenon DEF steps, EndsIn

\* A move of two steps.
LEMMA MovedTwo ==
  ASSUME NEW d, NEW E, NEW t, NEW order, NEW a, NEW b
  PROVE  Moved(d, E, t, <<a, b>>, order)
           = NextStep(NextStep(Start(d), E, t, a, order), E, t, b, order)
<1> DEFINE steps == <<a, b>>
           s1 == NextStep(Start(d), E, t, a, order)
           s2 == NextStep(s1, E, t, b, order)
           g == [i \in 0..2 |-> IF i = 0 THEN Start(d) ELSE IF i = 1 THEN s1 ELSE s2]
<1>1. Len(steps) = 2 /\ steps[1] = a /\ steps[2] = b
  OBVIOUS
<1> HIDE DEF steps
<1>2. \A i \in 0..2 : i # 0 => i \in {1, 2} /\ i - 1 \in {0, 1} /\ (i = 2 <=> i - 1 = 1)
  OBVIOUS
<1>3. \A i \in 0..2 :
        g[i] = IF i = 0 THEN Start(d) ELSE NextStep(g[i - 1], E, t, steps[i], order)
  BY <1>1, <1>2
<1>4. GoesThrough(g, 2, d, E, t, steps, order)
  BY <1>3 DEF GoesThrough
<1> HIDE DEF g
<1>5. PICK f : EndsIn(f, 2, d, E, t, steps, order)
  <2>1. Len(steps) = 2
    BY <1>1
  <2> QED
    BY <1>4, <2>1, MovedIsLoop, Zenon
<1>6. /\ f[0] = Start(d) /\ f[1] = NextStep(f[0], E, t, steps[1], order)
      /\ f[2] = NextStep(f[1], E, t, steps[2], order)
  BY <1>5 DEF GoesThrough, EndsIn
<1> QED
  BY <1>1, <1>5, <1>6, Zenon DEF steps, EndsIn

\* A move of three steps.
LEMMA MovedThree ==
  ASSUME NEW d, NEW E, NEW t, NEW order, NEW a, NEW b, NEW c
  PROVE  Moved(d, E, t, <<a, b, c>>, order)
           = NextStep(NextStep(NextStep(Start(d), E, t, a, order), E, t, b, order),
                      E, t, c, order)
<1> DEFINE steps == <<a, b, c>>
           s1 == NextStep(Start(d), E, t, a, order)
           s2 == NextStep(s1, E, t, b, order)
           s3 == NextStep(s2, E, t, c, order)
           g == [i \in 0..3 |-> IF i = 0 THEN Start(d) ELSE IF i = 1 THEN s1
                                ELSE IF i = 2 THEN s2 ELSE s3]
<1>1. Len(steps) = 3 /\ steps[1] = a /\ steps[2] = b /\ steps[3] = c
  OBVIOUS
<1> HIDE DEF steps
<1>2. \A i \in 0..3 : i # 0 =>
        /\ i \in {1, 2, 3} /\ i - 1 \in {0, 1, 2}
        /\ (i = 2 <=> i - 1 = 1) /\ (i = 3 <=> i - 1 = 2)
  OBVIOUS
<1>3. \A i \in 0..3 :
        g[i] = IF i = 0 THEN Start(d) ELSE NextStep(g[i - 1], E, t, steps[i], order)
  BY <1>1, <1>2
<1>4. GoesThrough(g, 3, d, E, t, steps, order)
  BY <1>3 DEF GoesThrough
<1> HIDE DEF g
<1>5. PICK f : EndsIn(f, 3, d, E, t, steps, order)
  <2>1. Len(steps) = 3
    BY <1>1
  <2> QED
    BY <1>4, <2>1, MovedIsLoop, Zenon
<1>6. /\ f[0] = Start(d) /\ f[1] = NextStep(f[0], E, t, steps[1], order)
      /\ f[2] = NextStep(f[1], E, t, steps[2], order)
      /\ f[3] = NextStep(f[2], E, t, steps[3], order)
  BY <1>5 DEF GoesThrough, EndsIn
<1> QED
  BY <1>1, <1>5, <1>6, Zenon DEF steps, EndsIn

-----------------------------------------------------------------------------
(* The plans there are.                                                    *)

\* A step appended to an empty prefix.
LEMMA AppendToNone ==
  ASSUME NEW S, NEW a \in S
  PROVE  Append(<<>>, a) = <<a>>
<1> DEFINE l == Append(<<>>, a)
           r == <<a>>
<1>1. <<>> \in Seq(S) /\ r \in Seq(S) /\ l \in Seq(S)
  OBVIOUS
<1>2. Len(l) = 1 /\ Len(r) = 1
  BY <1>1, AppendProperties
<1>3. \A i \in 1..Len(l) : i \in {1}
  BY <1>2
<1>4. l[1] = r[1]
  BY <1>1, AppendProperties
<1>5. Len(l) = Len(r) /\ \A i \in 1..Len(l) : l[i] = r[i]
  <2> HIDE DEF l, r
  <2> QED
    BY <1>2, <1>3, <1>4
<1> HIDE DEF l, r
<1>6. l = r
  BY <1>1, <1>5, SeqEqual
<1> QED
  BY <1>6 DEF l, r

\* A step appended to one.
LEMMA AppendToOne ==
  ASSUME NEW S, NEW a \in S, NEW b \in S
  PROVE  Append(<<a>>, b) = <<a, b>>
<1> DEFINE l == Append(<<a>>, b)
           r == <<a, b>>
<1>1. <<a>> \in Seq(S) /\ r \in Seq(S) /\ l \in Seq(S)
  OBVIOUS
<1>2. Len(l) = 2 /\ Len(r) = 2
  BY <1>1, AppendProperties
<1>3. \A i \in 1..Len(l) : i \in {1, 2}
  BY <1>2
<1>4. l[1] = r[1] /\ l[2] = r[2]
  BY <1>1, AppendProperties
<1>5. Len(l) = Len(r) /\ \A i \in 1..Len(l) : l[i] = r[i]
  <2> HIDE DEF l, r
  <2> QED
    BY <1>2, <1>3, <1>4
<1> HIDE DEF l, r
<1>6. l = r
  BY <1>1, <1>5, SeqEqual
<1> QED
  BY <1>6 DEF l, r

\* A step appended to two.
LEMMA AppendToTwo ==
  ASSUME NEW S, NEW a \in S, NEW b \in S, NEW c \in S
  PROVE  Append(<<a, b>>, c) = <<a, b, c>>
<1> DEFINE l == Append(<<a, b>>, c)
           r == <<a, b, c>>
<1>1. <<a, b>> \in Seq(S) /\ r \in Seq(S) /\ l \in Seq(S)
  OBVIOUS
<1>2. Len(l) = 3 /\ Len(r) = 3
  BY <1>1, AppendProperties
<1>3. \A i \in 1..Len(l) : i \in {1, 2, 3}
  BY <1>2
<1>4. l[1] = r[1] /\ l[2] = r[2] /\ l[3] = r[3]
  BY <1>1, AppendProperties
<1>5. Len(l) = Len(r) /\ \A i \in 1..Len(l) : l[i] = r[i]
  <2> HIDE DEF l, r
  <2> QED
    BY <1>2, <1>3, <1>4
<1> HIDE DEF l, r
<1>6. l = r
  BY <1>1, <1>5, SeqEqual
<1> QED
  BY <1>6 DEF l, r

\* A step after another.
LEMMA OneAndOne ==
  ASSUME NEW S, NEW a \in S, NEW b \in S
  PROVE  <<a>> \o <<b>> = <<a, b>>
<1> DEFINE l == <<a>> \o <<b>>
           r == <<a, b>>
<1>1. <<a>> \in Seq(S) /\ <<b>> \in Seq(S) /\ r \in Seq(S) /\ l \in Seq(S)
  OBVIOUS
<1>2. Len(l) = 2 /\ Len(r) = 2
  BY <1>1, ConcatProperties
<1>3. \A i \in 1..Len(l) : i \in {1, 2}
  BY <1>2
<1>4. l[1] = r[1] /\ l[2] = r[2]
  BY <1>1, ConcatProperties
<1>5. Len(l) = Len(r) /\ \A i \in 1..Len(l) : l[i] = r[i]
  <2> HIDE DEF l, r
  <2> QED
    BY <1>2, <1>3, <1>4
<1> HIDE DEF l, r
<1>6. l = r
  BY <1>1, <1>5, SeqEqual
<1> QED
  BY <1>6 DEF l, r

\* Two steps after another.
LEMMA OneAndTwo ==
  ASSUME NEW S, NEW a \in S, NEW b \in S, NEW c \in S
  PROVE  <<a>> \o <<b, c>> = <<a, b, c>>
<1> DEFINE l == <<a>> \o <<b, c>>
           r == <<a, b, c>>
<1>1. <<a>> \in Seq(S) /\ <<b, c>> \in Seq(S) /\ r \in Seq(S) /\ l \in Seq(S)
  OBVIOUS
<1>2. Len(l) = 3 /\ Len(r) = 3
  BY <1>1, ConcatProperties
<1>3. \A i \in 1..Len(l) : i \in {1, 2, 3}
  BY <1>2
<1>4. l[1] = r[1] /\ l[2] = r[2] /\ l[3] = r[3]
  BY <1>1, ConcatProperties
<1>5. Len(l) = Len(r) /\ \A i \in 1..Len(l) : l[i] = r[i]
  <2> HIDE DEF l, r
  <2> QED
    BY <1>2, <1>3, <1>4
<1> HIDE DEF l, r
<1>6. l = r
  BY <1>1, <1>5, SeqEqual
<1> QED
  BY <1>6 DEF l, r

CardSources == {"pending_agent", "pending_user", "pending_waiting_dependency", "scheduled",
                "ready", "running", "waiting_on_user", "blocked_paused",
                "blocked_dependency_failed", "blocked_awaiting_children", "failed",
                "schedule_paused", "done"}

\* A queued task is taken off the queue; one that only shows as queued is patched.
TakesOut(queued, step) == step = IF queued THEN "dequeue" ELSE "patch_pending"

\* The steps that put a card at source on a lane.
ToScheduled(queued, source, plan) ==
  \/ /\ source \in {"pending_agent", "pending_user", "scheduled", "failed", "done"}
     /\ plan = <<"save_cron_once">>
  \/ source = "ready" /\ \E a : TakesOut(queued, a) /\ plan = <<a, "save_cron_once">>
  \/ source = "blocked_paused" /\ plan = <<"detach_paused", "patch_pending", "save_cron_once">>
  \/ source = "schedule_paused" /\ plan = <<"enable_trigger">>

ToQueue(source, plan) ==
  \/ /\ source \in {"pending_agent", "scheduled", "failed", "schedule_paused", "done"}
     /\ plan = <<"enqueue">>
  \/ source = "pending_user" /\ plan = <<"reassign_to_agent", "enqueue">>
  \/ source = "scheduled" /\ plan = <<"clear_trigger", "enqueue">>
  \/ source = "ready" /\ plan = <<"reorder">>
  \/ source = "blocked_paused" /\ plan = <<"resume">>

ToBacklog(c, queued, source, plan) ==
  \/ source \in {"scheduled", "blocked_awaiting_children"} /\ plan = <<"disable_trigger">>
  \/ source = "ready" /\ \E a : TakesOut(queued, a) /\ plan = <<a>>
  \/ source \in {"blocked_dependency_failed", "failed", "done"} /\ plan = <<"patch_pending">>
  \/ source = "blocked_paused" /\ plan = <<"detach_paused", "patch_pending">>
  \/ source = "schedule_paused" /\ plan = <<"clear_trigger">>
  \/ source = "done" /\ IsCron(c) /\ plan = <<"clear_trigger", "patch_pending">>

ToDone(queued, source, plan) ==
  \/ /\ source \in {"pending_agent", "pending_user", "pending_waiting_dependency",
                    "blocked_dependency_failed", "failed", "schedule_paused"}
     /\ plan = MarkDone
  \/ source = "scheduled" /\ plan = <<"disable_trigger", "patch_done", "release_dependents">>
  \/ source = "ready" /\ \E a : /\ TakesOut(queued, a)
                                /\ plan = <<a, "patch_done", "release_dependents">>
  \/ /\ source = "blocked_paused"
     /\ plan = <<"detach_paused", "patch_done", "release_dependents">>

PlanIs(c, queued, source, to, plan) ==
  \/ to = "scheduled" /\ ToScheduled(queued, source, plan)
  \/ to = "queue" /\ ToQueue(source, plan)
  \/ to = "backlog" /\ ToBacklog(c, queued, source, plan)
  \/ to = "done" /\ ToDone(queued, source, plan)
  \/ to = "attention" /\ source = "running" /\ plan = <<"pause">>

\* The table has those plans and no other.
LEMMA PlanTable ==
  ASSUME NEW c, NEW queued, NEW source \in CardSources, NEW to,
         NEW plan, plan = PlanFrom(c, queued, source, to), plan # Rejected
  PROVE  PlanIs(c, queued, source, to, plan)
<1>1. ScheduleOnce(c, <<>>) \in {<<>>, <<"save_cron_once">>}
  BY AppendToNone DEF ScheduleOnce, Rejected
<1>2. \A a : ScheduleOnce(c, <<a>>) \in {<<>>, <<a, "save_cron_once">>}
  <2>1. \A a : Append(<<a>>, "save_cron_once") = <<a, "save_cron_once">>
    <3> SUFFICES ASSUME NEW a PROVE Append(<<a>>, "save_cron_once") = <<a, "save_cron_once">>
      OBVIOUS
    <3>1. a \in {a, "save_cron_once"} /\ "save_cron_once" \in {a, "save_cron_once"}
      OBVIOUS
    <3> QED
      BY <3>1, AppendToOne, Zenon
  <2> QED
    BY <2>1 DEF ScheduleOnce, Rejected
<1>3. <<"detach_paused">> \o <<"patch_pending">> = <<"detach_paused", "patch_pending">>
  <2> DEFINE S == {"detach_paused", "patch_pending"}
  <2>1. "detach_paused" \in S /\ "patch_pending" \in S
    OBVIOUS
  <2> HIDE DEF S
  <2> QED
    BY <2>1, OneAndOne, Zenon
<1>4. ScheduleOnce(c, <<"detach_paused", "patch_pending">>)
        \in {<<>>, <<"detach_paused", "patch_pending", "save_cron_once">>}
  <2> DEFINE S == {"detach_paused", "patch_pending", "save_cron_once"}
  <2>1. "detach_paused" \in S /\ "patch_pending" \in S /\ "save_cron_once" \in S
    OBVIOUS
  <2> HIDE DEF S
  <2>2. Append(<<"detach_paused", "patch_pending">>, "save_cron_once")
          = <<"detach_paused", "patch_pending", "save_cron_once">>
    BY <2>1, AppendToTwo, Zenon
  <2> QED
    BY <2>2 DEF ScheduleOnce, Rejected
<1>5. \A a : <<a>> \o MarkDone = <<a, "patch_done", "release_dependents">>
  <2> SUFFICES ASSUME NEW a PROVE <<a>> \o MarkDone = <<a, "patch_done", "release_dependents">>
    OBVIOUS
  <2> DEFINE S == {a, "patch_done", "release_dependents"}
  <2>1. a \in S /\ "patch_done" \in S /\ "release_dependents" \in S
    OBVIOUS
  <2> HIDE DEF S
  <2> QED
    BY <2>1, OneAndTwo, Zenon DEF MarkDone
<1>6. CASE source = "pending_agent"
  <2> DEFINE row == [scheduled |-> ScheduleOnce(c, <<>>), queue |-> <<"enqueue">>,
                     done |-> MarkDone]
  <2>1. MoveTable(c, queued)["pending_agent"] = row
    BY DEF MoveTable
  <2>2. DOMAIN row = {"scheduled", "queue", "done"}
    OBVIOUS
  <2> HIDE DEF row
  <2>3. plan = row[to] /\ to \in DOMAIN row
    BY <1>6, <2>1, Zenon DEF PlanFrom, Rejected
  <2> QED
    BY <1>1, <1>6, <2>2, <2>3 DEF row, PlanIs, ToScheduled, ToQueue, ToDone, Rejected
<1>7. CASE source = "pending_user"
  <2> DEFINE row == [scheduled |-> ScheduleOnce(c, <<>>), done |-> MarkDone,
                     queue |-> <<"reassign_to_agent", "enqueue">>]
  <2>1. MoveTable(c, queued)["pending_user"] = row
    BY DEF MoveTable
  <2>2. DOMAIN row = {"scheduled", "done", "queue"}
    OBVIOUS
  <2> HIDE DEF row
  <2>3. plan = row[to] /\ to \in DOMAIN row
    BY <1>7, <2>1, Zenon DEF PlanFrom, Rejected
  <2> QED
    BY <1>1, <1>7, <2>2, <2>3 DEF row, PlanIs, ToScheduled, ToQueue, ToDone, Rejected
<1>8. CASE source = "pending_waiting_dependency"
  <2> DEFINE row == [done |-> MarkDone]
  <2>1. MoveTable(c, queued)["pending_waiting_dependency"] = row
    BY DEF MoveTable
  <2>2. DOMAIN row = {"done"}
    OBVIOUS
  <2> HIDE DEF row
  <2>3. plan = row[to] /\ to \in DOMAIN row
    BY <1>8, <2>1, Zenon DEF PlanFrom, Rejected
  <2> QED
    BY <1>8, <2>2, <2>3 DEF row, PlanIs, ToDone, Rejected
<1>9. CASE source = "scheduled"
  <2> DEFINE row == [backlog |-> <<"disable_trigger">>, scheduled |-> ScheduleOnce(c, <<>>),
                     queue |-> IF c.trigger = "cron_once"
                               THEN <<"clear_trigger", "enqueue">> ELSE <<"enqueue">>,
                     done |-> <<"disable_trigger">> \o MarkDone]
  <2>1. MoveTable(c, queued)["scheduled"] = row
    BY DEF MoveTable
  <2>2. DOMAIN row = {"backlog", "scheduled", "queue", "done"}
    OBVIOUS
  <2> HIDE DEF row
  <2>3. plan = row[to] /\ to \in DOMAIN row
    BY <1>9, <2>1, Zenon DEF PlanFrom, Rejected
  <2>4. row["backlog"] = <<"disable_trigger">>
    BY DEF row
  <2>5. row["scheduled"] \in {<<>>, <<"save_cron_once">>}
    BY <1>1 DEF row
  <2>6. row["queue"] \in {<<"enqueue">>, <<"clear_trigger", "enqueue">>}
    BY DEF row
  <2>7. row["done"] = <<"disable_trigger", "patch_done", "release_dependents">>
    BY <1>5 DEF row
  <2> HIDE DEF row
  <2> QED
    BY <1>9, <2>2, <2>3, <2>4, <2>5, <2>6, <2>7
       DEF PlanIs, ToScheduled, ToQueue, ToDone, ToBacklog, Rejected
<1>10. CASE source = "ready"
  <2> DEFINE a == IF queued THEN "dequeue" ELSE "patch_pending"
             takeOut == <<a>>
             row == [backlog |-> takeOut, scheduled |-> ScheduleOnce(c, takeOut),
                     queue |-> IF queued THEN <<"reorder">> ELSE Rejected,
                     done |-> takeOut \o MarkDone]
  <2>1. MoveTable(c, queued)["ready"] = row
    BY DEF MoveTable
  <2>2. DOMAIN row = {"backlog", "scheduled", "queue", "done"}
    OBVIOUS
  <2>3. TakesOut(queued, a)
    BY DEF TakesOut
  <2> HIDE DEF row, a
  <2>4. plan = row[to] /\ to \in DOMAIN row
    BY <1>10, <2>1, Zenon DEF PlanFrom, Rejected
  <2>5. row["backlog"] = <<a>>
    BY DEF row
  <2>6. row["queue"] \in {<<>>, <<"reorder">>}
    BY DEF row, Rejected
  <2>7. row["scheduled"] \in {<<>>, <<a, "save_cron_once">>}
    BY <1>2 DEF row
  <2>8. row["done"] = <<a, "patch_done", "release_dependents">>
    BY <1>5 DEF row
  <2>9. CASE to = "scheduled"
    <3>1. plan = <<a, "save_cron_once">>
      BY <2>4, <2>7, <2>9 DEF Rejected
    <3> QED
      BY <1>10, <2>3, <2>9, <3>1 DEF PlanIs, ToScheduled
  <2>10. CASE to = "queue"
    BY <1>10, <2>4, <2>6, <2>10 DEF PlanIs, ToQueue, Rejected
  <2>11. CASE to = "backlog"
    BY <1>10, <2>3, <2>4, <2>5, <2>11 DEF PlanIs, ToBacklog
  <2>12. CASE to = "done"
    BY <1>10, <2>3, <2>4, <2>8, <2>12 DEF PlanIs, ToDone
  <2> QED
    BY <2>2, <2>4, <2>9, <2>10, <2>11, <2>12
<1>11. CASE source = "running"
  <2> DEFINE row == [attention |-> <<"pause">>]
  <2>1. MoveTable(c, queued)["running"] = row
    BY DEF MoveTable
  <2>2. DOMAIN row = {"attention"}
    OBVIOUS
  <2> HIDE DEF row
  <2>3. plan = row[to] /\ to \in DOMAIN row
    BY <1>11, <2>1, Zenon DEF PlanFrom, Rejected
  <2> QED
    BY <1>11, <2>2, <2>3 DEF row, PlanIs, Rejected
<1>12. CASE source = "waiting_on_user"
  <2> DEFINE row == [attention |-> Rejected]
  <2>1. MoveTable(c, queued)["waiting_on_user"] = row
    BY DEF MoveTable
  <2>2. DOMAIN row = {"attention"}
    OBVIOUS
  <2> HIDE DEF row
  <2>3. plan = row[to] /\ to \in DOMAIN row
    BY <1>12, <2>1, Zenon DEF PlanFrom, Rejected
  <2> QED
    BY <1>12, <2>2, <2>3 DEF row, PlanIs, Rejected
<1>13. CASE source = "blocked_paused"
  <2> DEFINE row == [backlog |-> <<"detach_paused">> \o <<"patch_pending">>,
                     queue |-> <<"resume">>,
                     scheduled |-> ScheduleOnce(c, <<"detach_paused">> \o <<"patch_pending">>),
                     done |-> <<"detach_paused">> \o MarkDone]
  <2>1. MoveTable(c, queued)["blocked_paused"] = row
    BY DEF MoveTable
  <2>2. DOMAIN row = {"backlog", "queue", "scheduled", "done"}
    OBVIOUS
  <2> HIDE DEF row
  <2>3. plan = row[to] /\ to \in DOMAIN row
    BY <1>13, <2>1, Zenon DEF PlanFrom, Rejected
  <2>4. row["backlog"] = <<"detach_paused", "patch_pending">>
    BY <1>3 DEF row
  <2>5. row["queue"] = <<"resume">>
    BY DEF row
  <2>6. row["scheduled"] \in {<<>>, <<"detach_paused", "patch_pending", "save_cron_once">>}
    BY <1>3, <1>4 DEF row
  <2>7. row["done"] = <<"detach_paused", "patch_done", "release_dependents">>
    BY <1>5 DEF row
  <2> HIDE DEF row
  <2> QED
    BY <1>13, <2>2, <2>3, <2>4, <2>5, <2>6, <2>7
       DEF PlanIs, ToScheduled, ToQueue, ToDone, ToBacklog, Rejected
<1>14. CASE source = "blocked_dependency_failed"
  <2> DEFINE row == [backlog |-> <<"patch_pending">>, done |-> MarkDone]
  <2>1. MoveTable(c, queued)["blocked_dependency_failed"] = row
    BY DEF MoveTable
  <2>2. DOMAIN row = {"backlog", "done"}
    OBVIOUS
  <2> HIDE DEF row
  <2>3. plan = row[to] /\ to \in DOMAIN row
    BY <1>14, <2>1, Zenon DEF PlanFrom, Rejected
  <2> QED
    BY <1>14, <2>2, <2>3 DEF row, PlanIs, ToDone, ToBacklog, Rejected
<1>15. CASE source = "blocked_awaiting_children"
  <2> DEFINE row == [backlog |-> <<"disable_trigger">>]
  <2>1. MoveTable(c, queued)["blocked_awaiting_children"] = row
    BY DEF MoveTable
  <2>2. DOMAIN row = {"backlog"}
    OBVIOUS
  <2> HIDE DEF row
  <2>3. plan = row[to] /\ to \in DOMAIN row
    BY <1>15, <2>1, Zenon DEF PlanFrom, Rejected
  <2> QED
    BY <1>15, <2>2, <2>3 DEF row, PlanIs, ToBacklog, Rejected
<1>16. CASE source = "failed"
  <2> DEFINE row == [backlog |-> <<"patch_pending">>, scheduled |-> ScheduleOnce(c, <<>>),
                     queue |-> <<"enqueue">>, done |-> MarkDone]
  <2>1. MoveTable(c, queued)["failed"] = row
    BY DEF MoveTable
  <2>2. DOMAIN row = {"backlog", "scheduled", "queue", "done"}
    OBVIOUS
  <2> HIDE DEF row
  <2>3. plan = row[to] /\ to \in DOMAIN row
    BY <1>16, <2>1, Zenon DEF PlanFrom, Rejected
  <2> QED
    BY <1>1, <1>16, <2>2, <2>3
       DEF row, PlanIs, ToScheduled, ToQueue, ToDone, ToBacklog, Rejected
<1>17. CASE source = "schedule_paused"
  <2> DEFINE row == [scheduled |-> <<"enable_trigger">>, queue |-> <<"enqueue">>,
                     backlog |-> <<"clear_trigger">>, done |-> MarkDone]
  <2>1. MoveTable(c, queued)["schedule_paused"] = row
    BY DEF MoveTable
  <2>2. DOMAIN row = {"scheduled", "queue", "backlog", "done"}
    OBVIOUS
  <2> HIDE DEF row
  <2>3. plan = row[to] /\ to \in DOMAIN row
    BY <1>17, <2>1, Zenon DEF PlanFrom, Rejected
  <2> QED
    BY <1>17, <2>2, <2>3 DEF row, PlanIs, ToScheduled, ToQueue, ToDone, ToBacklog, Rejected
<1>18. CASE source = "done"
  <2> DEFINE row == [backlog |-> IF IsCron(c) THEN <<"clear_trigger", "patch_pending">>
                                ELSE <<"patch_pending">>,
                     scheduled |-> ScheduleOnce(c, <<>>), queue |-> <<"enqueue">>]
  <2>1. MoveTable(c, queued)["done"] = row
    BY DEF MoveTable
  <2>2. DOMAIN row = {"backlog", "scheduled", "queue"}
    OBVIOUS
  <2> HIDE DEF row
  <2>3. plan = row[to] /\ to \in DOMAIN row
    BY <1>18, <2>1, Zenon DEF PlanFrom, Rejected
  <2> QED
    BY <1>1, <1>18, <2>2, <2>3 DEF row, PlanIs, ToScheduled, ToQueue, ToBacklog, Rejected
<1> QED
  BY <1>6, <1>7, <1>8, <1>9, <1>10, <1>11, <1>12,
     <1>13, <1>14, <1>15, <1>16, <1>17, <1>18 DEF CardSources

-----------------------------------------------------------------------------
(* Writes to one task, with no release.                                    *)

\* A write to a task's card and rows.
Both(d, t, new, rows) == WithRows(WithTask(d, t, new), t, rows)

\* What it leaves of the tables.
LEMMA BothFacts ==
  ASSUME NEW d \in DbType, NEW t \in Tasks, NEW new \in CardTypes,
         NEW rows \in [RowStates -> Nat]
  PROVE  LET d2 == Both(d, t, new, rows) IN
         OnlyTouches(d, d2, t) /\ d2.task[t] = new /\ d2.rows[t] = rows
<1> DEFINE a == WithTask(d, t, new)
           d2 == WithRows(a, t, rows)
<1>1. /\ a \in DbType /\ a.task[t] = new /\ \A x \in Tasks : x # t => a.task[x] = d.task[x]
      /\ a.rows = d.rows /\ a.of = d.of /\ a.cohort = d.cohort
  BY WithTaskFacts
<1> HIDE DEF a
<1>2. /\ d2 \in DbType /\ d2.rows[t] = rows
      /\ \A x \in Tasks : x # t => d2.rows[x] = a.rows[x]
      /\ d2.task = a.task /\ d2.of = a.of /\ d2.cohort = a.cohort
  BY <1>1, WithRowsFacts
<1> HIDE DEF d2
<1>3. OnlyTouches(d, d2, t) /\ d2.task[t] = new /\ d2.rows[t] = rows
  BY <1>1, <1>2 DEF OnlyTouches
<1> QED
  BY <1>3 DEF d2, a, Both

\* enqueueTaskHandler's write.
LEMMA RunByHandFacts ==
  ASSUME NEW d \in DbType, NEW t \in Tasks
  PROVE  LET new == [d.task[t] EXCEPT !.status = "ready"]
             rows == [d.rows[t] EXCEPT !["pending"] = @ + 1]
         IN /\ RunByHand(d, t) = Both(d, t, new, rows)
            /\ rows \in [RowStates -> Nat] /\ rows["running"] = d.rows[t]["running"]
            /\ rows["pending"] = d.rows[t]["pending"] + 1
            /\ new \in CardTypes /\ new.status = "ready"
            /\ new.reason = d.task[t].reason /\ new.trigger = d.task[t].trigger
<1> DEFINE new == [d.task[t] EXCEPT !.status = "ready"]
           rows == [d.rows[t] EXCEPT !["pending"] = @ + 1]
<1>1. d.task[t] \in CardTypes /\ d.rows[t] \in [RowStates -> Nat] /\ "ready" \in Statuses
  BY DbFields DEF Statuses
<1>2. /\ rows \in [RowStates -> Nat] /\ rows["running"] = d.rows[t]["running"]
      /\ rows["pending"] = d.rows[t]["pending"] + 1
  BY <1>1 DEF RowStates
<1>3. RunByHand(d, t) = Both(d, t, new, rows)
  BY <1>1 DEF Both, WithTask, WithRows, DbType, Enqueued, RunByHand
<1>4. /\ new \in CardTypes /\ new.status = "ready"
      /\ new.reason = d.task[t].reason /\ new.trigger = d.task[t].trigger
  BY <1>1, StatusColumn
<1> QED
  BY <1>2, <1>3, <1>4

\* A task has no active row in any state.
LEMMA NoActiveRows ==
  ASSUME NEW d \in DbType, NEW t \in Tasks, ActiveRows(d, t) = {}
  PROVE  \A s \in RowStates : d.rows[t][s] = 0
<1>1. d.rows[t] \in [RowStates -> Nat]
  BY DbFields
<1> QED
  BY <1>1 DEF ActiveRows


\* d2 is d, but for the status, the assignee, the schedule and the rows of t that
\* do not run.
Edits(d, d2, t) ==
  /\ OnlyTouches(d, d2, t)
  /\ d2.task[t].reason = d.task[t].reason
  /\ d2.rows[t]["running"] = d.rows[t]["running"]

\* patchTaskHandler
LEMMA PatchedFacts ==
  ASSUME NEW d \in DbType, NEW t \in Tasks, NEW new \in CardTypes,
         new.reason = d.task[t].reason
  PROVE  LET d2 == Patched(d, t, new)
             old == d.rows[t]
             rows == d2.rows[t]
         IN /\ Edits(d, d2, t)
            /\ d2.task[t] = [new EXCEPT !.status = StatusAfterTriggerSave(new)]
            /\ StatusAfterTriggerSave(new) # "ready" => rows = old
            /\ rows["pending"] <= old["pending"] + 1
<1> DEFINE saved == [new EXCEPT !.status = StatusAfterTriggerSave(new)]
           p == WithTask(d, t, saved)
           old == d.rows[t]
           up == [old EXCEPT !["pending"] = @ + 1]
           swap == [old EXCEPT !["paused"] = @ - 1, !["pending"] = @ + 1]
           d2 == Patched(d, t, new)
<1>1. /\ saved \in CardTypes /\ saved.reason = d.task[t].reason
      /\ saved.status = StatusAfterTriggerSave(new)
  BY StatusAfterTriggerSaveFacts, StatusColumn
<1>2. old \in [RowStates -> Nat] /\ old["pending"] \in Nat /\ old["paused"] \in Nat
  BY DbFields DEF RowStates
<1>3. /\ up \in [RowStates -> Nat] /\ up["running"] = old["running"]
      /\ up["pending"] = old["pending"] + 1
  BY <1>2 DEF RowStates
<1>4. CASE saved.status = "ready" /\ d.task[t].status = "blocked" /\ old["paused"] > 0
  <2>1. d2 = Both(d, t, saved, swap)
    <3>1. d2 = [[d EXCEPT !.task[t] = saved] EXCEPT
                 !.rows[t]["paused"] = @ - 1, !.rows[t]["pending"] = @ + 1]
      BY <1>4 DEF Patched
    <3> HIDE DEF saved, d2
    <3> QED
      BY <1>1, <1>2, <3>1 DEF Both, WithTask, WithRows, DbType
  <2>2. /\ swap \in [RowStates -> Nat] /\ swap["running"] = old["running"]
        /\ swap["pending"] = old["pending"] + 1
    BY <1>2, <1>4 DEF RowStates
  <2>3. OnlyTouches(d, d2, t) /\ d2.task[t] = saved /\ d2.rows[t] = swap
    <3> HIDE DEF saved, swap, d2
    <3> QED
      BY <1>1, <2>1, <2>2, BothFacts
  <2> HIDE DEF saved, swap, d2
  <2>4. Edits(d, d2, t)
    BY <1>1, <2>2, <2>3 DEF Edits
  <2> QED
    BY <1>1, <1>2, <1>4, <2>2, <2>3, <2>4 DEF d2, saved
<1>5. CASE /\ ~(saved.status = "ready" /\ d.task[t].status = "blocked" /\ old["paused"] > 0)
           /\ saved.status = "ready" /\ d2 = Enqueued(p, t)
  <2>1. p \in DbType /\ p.rows = d.rows
    <3> HIDE DEF saved
    <3> QED
      BY <1>1, WithTaskFacts
  <2>2. d2 = Both(d, t, saved, up)
    <3> HIDE DEF p, saved, d2
    <3>1. d2 = WithRows(p, t, [p.rows[t] EXCEPT !["pending"] = @ + 1])
      BY <1>5, <2>1, EnqueuedFacts
    <3> QED
      BY <2>1, <3>1 DEF Both, p
  <2>3. OnlyTouches(d, d2, t) /\ d2.task[t] = saved /\ d2.rows[t] = up
    <3> HIDE DEF saved, up, d2
    <3> QED
      BY <1>1, <1>3, <2>2, BothFacts
  <2> HIDE DEF saved, up, d2
  <2>4. Edits(d, d2, t)
    BY <1>1, <1>3, <2>3 DEF Edits
  <2> QED
    BY <1>1, <1>2, <1>3, <1>5, <2>3, <2>4 DEF d2, saved
<1>6. CASE d2 = p
  <2>1. OnlyTouches(d, d2, t) /\ d2.task[t] = saved /\ d2.rows[t] = old
    <3> HIDE DEF saved, d2
    <3> QED
      BY <1>1, <1>6, WithTaskFacts DEF OnlyTouches
  <2> HIDE DEF saved, d2
  <2>2. Edits(d, d2, t)
    BY <1>1, <2>1 DEF Edits
  <2> QED
    BY <1>1, <1>2, <2>1, <2>2 DEF d2, saved
<1>7. \/ saved.status = "ready" /\ d.task[t].status = "blocked" /\ old["paused"] > 0
      \/ /\ ~(saved.status = "ready" /\ d.task[t].status = "blocked" /\ old["paused"] > 0)
         /\ saved.status = "ready" /\ d2 = Enqueued(p, t)
      \/ d2 = p
  <2> HIDE DEF saved
  <2> QED
    BY <1>2 DEF Patched, WithTask, saved
<1> QED
  BY <1>4, <1>5, <1>6, <1>7

-----------------------------------------------------------------------------
(* The steps, one by one.                                                  *)

\* All but patch_done answer no dependent.
QuietSteps == {"enqueue", "dequeue", "detach_paused", "resume", "patch_pending",
               "disable_trigger", "enable_trigger", "clear_trigger", "save_cron_once",
               "reassign_to_agent", "reorder", "pause"}

\* The status a quiet step leaves a task with.
Quiet(d, d2, t) ==
  /\ Edits(d, d2, t)
  /\ d2.task[t].status \in {d.task[t].status, "ready", "pending", "scheduled"}

\* enqueue
LEMMA EnqueueStep ==
  ASSUME NEW d \in DbType, NEW E, NEW t \in Tasks, NEW order, ~StepFails(d, t, "enqueue")
  PROVE  LET d2 == RunStep(d, E, t, "enqueue", order)
         IN /\ Quiet(d, d2, t) /\ d2.task[t].status = "ready"
            /\ d2.task[t].trigger = d.task[t].trigger
            /\ d2.rows[t]["pending"] = 1 /\ d.rows[t]["running"] = 0
<1> DEFINE d2 == RunStep(d, E, t, "enqueue", order)
           new == [d.task[t] EXCEPT !.status = "ready"]
           rows == [d.rows[t] EXCEPT !["pending"] = @ + 1]
<1>1. d2 = RunByHand(d, t)
  BY DEF RunStep
<1>2. d.rows[t]["pending"] = 0 /\ d.rows[t]["running"] = 0
  BY NoActiveRows DEF StepFails, RowStates
<1>3. /\ d2 = Both(d, t, new, rows)
      /\ rows \in [RowStates -> Nat] /\ rows["running"] = d.rows[t]["running"]
      /\ rows["pending"] = d.rows[t]["pending"] + 1
      /\ new \in CardTypes /\ new.status = "ready"
      /\ new.reason = d.task[t].reason /\ new.trigger = d.task[t].trigger
  BY <1>1, RunByHandFacts
<1> HIDE DEF new, rows, d2
<1>4. OnlyTouches(d, d2, t) /\ d2.task[t] = new /\ d2.rows[t] = rows
  BY <1>3, BothFacts
<1>5. Quiet(d, d2, t)
  BY <1>3, <1>4 DEF Quiet, Edits
<1> QED
  BY <1>2, <1>3, <1>4, <1>5 DEF d2

\* dequeue
LEMMA DequeueStep ==
  ASSUME NEW d \in DbType, NEW E, NEW t \in Tasks, NEW order, ~StepFails(d, t, "dequeue")
  PROVE  LET d2 == RunStep(d, E, t, "dequeue", order)
         IN /\ Quiet(d, d2, t) /\ d2.task[t].status = "pending"
            /\ d2.task[t].trigger = d.task[t].trigger
            /\ d2.rows[t]["pending"] = d.rows[t]["pending"] - 1
            /\ d2.rows[t]["paused"] = d.rows[t]["paused"]
<1> DEFINE d2 == RunStep(d, E, t, "dequeue", order)
           new == [d.task[t] EXCEPT !.status = "pending"]
           rows == [d.rows[t] EXCEPT !["pending"] = @ - 1]
<1>1. /\ d.task[t] \in CardTypes /\ d.rows[t] \in [RowStates -> Nat]
      /\ d.rows[t]["pending"] # 0 /\ "pending" \in Statuses
  BY DbFields DEF StepFails, Statuses
<1>2. d2 = [d EXCEPT !.rows[t]["pending"] = @ - 1, !.task[t].status = "pending"]
  BY DEF RunStep
<1>3. /\ rows \in [RowStates -> Nat] /\ rows["running"] = d.rows[t]["running"]
      /\ rows["pending"] = d.rows[t]["pending"] - 1 /\ rows["paused"] = d.rows[t]["paused"]
  BY <1>1 DEF RowStates
<1>4. /\ new \in CardTypes /\ new.status = "pending"
      /\ new.reason = d.task[t].reason /\ new.trigger = d.task[t].trigger
  BY <1>1, StatusColumn
<1> HIDE DEF d2
<1>5. d2 = Both(d, t, new, rows)
  BY <1>1, <1>2 DEF Both, WithTask, WithRows, DbType
<1> HIDE DEF new, rows
<1>6. OnlyTouches(d, d2, t) /\ d2.task[t] = new /\ d2.rows[t] = rows
  BY <1>3, <1>4, <1>5, BothFacts
<1>7. Quiet(d, d2, t)
  BY <1>3, <1>4, <1>6 DEF Quiet, Edits
<1> QED
  BY <1>3, <1>4, <1>6, <1>7 DEF d2

\* detach_paused
LEMMA DetachPausedStep ==
  ASSUME NEW d \in DbType, NEW E, NEW t \in Tasks, NEW order
  PROVE  LET d2 == RunStep(d, E, t, "detach_paused", order)
         IN /\ Quiet(d, d2, t) /\ d2.task[t] = d.task[t]
            /\ d2.rows[t]["pending"] = d.rows[t]["pending"]
            /\ d.rows[t]["paused"] <= 1 => d2.rows[t]["paused"] = 0
<1> DEFINE d2 == RunStep(d, E, t, "detach_paused", order)
           rows == [d.rows[t] EXCEPT !["paused"] = @ - 1]
<1>1. d.rows[t] \in [RowStates -> Nat] /\ d2 = WithoutPaused(d, t)
  BY DbFields DEF RunStep
<1> HIDE DEF d2
<1>2. CASE d.rows[t]["paused"] > 0
  <2>1. /\ rows \in [RowStates -> Nat] /\ rows["running"] = d.rows[t]["running"]
        /\ rows["pending"] = d.rows[t]["pending"] /\ rows["paused"] = d.rows[t]["paused"] - 1
        /\ d.rows[t]["paused"] \in Nat
    BY <1>1, <1>2 DEF RowStates
  <2>2. d2 = WithRows(d, t, rows)
    BY <1>1, <1>2 DEF WithoutPaused, WithRows, DbType
  <2> HIDE DEF rows
  <2>3. OnlyTouches(d, d2, t) /\ d2.task[t] = d.task[t] /\ d2.rows[t] = rows
    BY <2>1, <2>2, WithRowsFacts DEF OnlyTouches
  <2>4. Quiet(d, d2, t)
    BY <2>1, <2>3 DEF Quiet, Edits
  <2> QED
    BY <1>2, <2>1, <2>3, <2>4 DEF d2
<1>3. CASE ~(d.rows[t]["paused"] > 0)
  <2>1. d2 = d /\ d.rows[t]["paused"] = 0
    BY <1>1, <1>3 DEF WithoutPaused, RowStates
  <2>2. Quiet(d, d, t)
    BY DEF Quiet, Edits, OnlyTouches
  <2> QED
    BY <2>1, <2>2 DEF d2
<1> QED
  BY <1>2, <1>3

WithStatus(c, s) == [c EXCEPT !.status = s]

\* A patch of the status, which no schedule changes.
LEMMA PatchStatusStep ==
  ASSUME NEW d \in DbType, NEW t \in Tasks, NEW s \in Statuses
  PROVE  LET new == WithStatus(d.task[t], s)
             d2 == Patched(d, t, new)
         IN /\ Edits(d, d2, t)
            /\ d2.task[t].trigger = d.task[t].trigger
            /\ d2.task[t].status \in {s, "scheduled", "pending"}
            /\ s \in Busy => d2.task[t].status = s
            /\ ~IsCron(d.task[t]) /\ s # "scheduled" => d2.task[t].status = s
            /\ s \notin {"ready", "scheduled"} => d2.rows[t] = d.rows[t]
            /\ d2.rows[t]["pending"] <= d.rows[t]["pending"] + 1
<1> DEFINE new == WithStatus(d.task[t], s)
           d2 == Patched(d, t, new)
           now == StatusAfterTriggerSave(new)
<1>1. /\ new \in CardTypes /\ new.status = s /\ new.reason = d.task[t].reason
      /\ new.trigger = d.task[t].trigger
  BY DbFields, StatusColumn DEF WithStatus
<1> HIDE DEF new
<1>2. /\ now \in Statuses /\ now \in {s, "scheduled", "pending"}
      /\ s \in Busy => now = s
      /\ s # "scheduled" /\ ~WillFire(new) => now = s
  BY <1>1 DEF StatusAfterTriggerSave, Statuses, Busy
<1>3. ~IsCron(d.task[t]) => ~WillFire(new)
  BY <1>1 DEF WillFire, IsCron
<1> HIDE DEF now, d2
<1>4. /\ Edits(d, d2, t) /\ d2.task[t] = [new EXCEPT !.status = now]
      /\ now # "ready" => d2.rows[t] = d.rows[t]
      /\ d2.rows[t]["pending"] <= d.rows[t]["pending"] + 1
  BY <1>1, PatchedFacts DEF now, d2
<1>5. d2.task[t].status = now /\ d2.task[t].trigger = d.task[t].trigger
  BY <1>1, <1>2, <1>4, StatusColumn
<1> QED
  BY <1>1, <1>2, <1>3, <1>4, <1>5 DEF d2, new, now

\* resume
LEMMA ResumeStep ==
  ASSUME NEW d \in DbType, NEW E, NEW t \in Tasks, NEW order
  PROVE  LET d2 == RunStep(d, E, t, "resume", order)
         IN /\ Quiet(d, d2, t) /\ d2.task[t].status = "ready"
            /\ d2.task[t].trigger = d.task[t].trigger
            /\ d2.rows[t]["pending"] <= d.rows[t]["pending"] + 1
<1> DEFINE d2 == RunStep(d, E, t, "resume", order)
<1>1. d2 = Patched(d, t, WithStatus(d.task[t], "ready"))
  BY DEF RunStep, WithStatus
<1>2. "ready" \in Statuses /\ "ready" \in Busy
  BY DEF Statuses, Busy
<1> HIDE DEF d2
<1>3. /\ Edits(d, d2, t) /\ d2.task[t].trigger = d.task[t].trigger
      /\ d2.task[t].status = "ready"
      /\ d2.rows[t]["pending"] <= d.rows[t]["pending"] + 1
  BY <1>1, <1>2, PatchStatusStep
<1> QED
  BY <1>3 DEF Quiet, d2

\* patch_pending
LEMMA PatchPendingStep ==
  ASSUME NEW d \in DbType, NEW E, NEW t \in Tasks, NEW order
  PROVE  LET d2 == RunStep(d, E, t, "patch_pending", order)
         IN /\ Quiet(d, d2, t) /\ d2.rows[t] = d.rows[t]
            /\ d2.task[t].trigger = d.task[t].trigger
            /\ ~IsCron(d.task[t]) => d2.task[t].status = "pending"
<1> DEFINE d2 == RunStep(d, E, t, "patch_pending", order)
<1>1. d2 = Patched(d, t, WithStatus(d.task[t], "pending"))
  BY DEF RunStep, WithStatus
<1>2. "pending" \in Statuses
  BY DEF Statuses
<1> HIDE DEF d2
<1>3. /\ Edits(d, d2, t) /\ d2.task[t].trigger = d.task[t].trigger
      /\ d2.task[t].status \in {"pending", "scheduled"} /\ d2.rows[t] = d.rows[t]
      /\ ~IsCron(d.task[t]) => d2.task[t].status = "pending"
  BY <1>1, <1>2, PatchStatusStep
<1> QED
  BY <1>3 DEF Quiet, d2

\* patch_done, which a release follows.
LEMMA PatchDoneStep ==
  ASSUME NEW d \in DbType, NEW E, NEW t \in Tasks, NEW order
  PROVE  \E new :
           /\ RunStep(d, E, t, "patch_done", order) = WithTask(d, t, new)
           /\ MayBecome(d.task[t], new)
           /\ new.reason = d.task[t].reason
           /\ ~IsCron(d.task[t]) => new.status = "done"
<1> DEFINE d2 == RunStep(d, E, t, "patch_done", order)
           done == [d.task[t] EXCEPT !.status = "done"]
           new == [done EXCEPT !.status = StatusAfterTriggerSave(done)]
<1>1. d2 = Patched(d, t, done)
  BY DEF RunStep
<1>2. "done" \in Statuses
  BY DEF Statuses
<1>3. /\ done \in CardTypes /\ done.status = "done" /\ done.reason = d.task[t].reason
      /\ done.trigger = d.task[t].trigger
  BY <1>2, DbFields, StatusColumn
<1> HIDE DEF done
<1>4. /\ new \in CardTypes /\ new.status \in {"done", "scheduled"}
      /\ new.status = "scheduled" => IsCron(new)
      /\ new.reason = d.task[t].reason /\ new.trigger = d.task[t].trigger
  <2>1. /\ StatusAfterTriggerSave(done) \in Statuses
        /\ StatusAfterTriggerSave(done) \in {"done", "scheduled"}
        /\ StatusAfterTriggerSave(done) = "scheduled" => IsCron(done)
    BY <1>3 DEF StatusAfterTriggerSave, Statuses, WillFire
  <2> QED
    BY <1>3, <2>1, StatusColumn DEF IsCron
<1>5. d2 = WithTask(d, t, new)
  <2> HIDE DEF new
  <2>1. ~(new.status = "ready")
    BY <1>4
  <2> QED
    BY <1>1, <2>1 DEF Patched, WithTask, new
<1> HIDE DEF new
<1>6. MayBecome(d.task[t], new)
  BY <1>4 DEF MayBecome, IsCron
<1>7. ~IsCron(d.task[t]) => new.status = "done"
  BY <1>4 DEF IsCron
<1> QED
  BY <1>4, <1>5, <1>6, <1>7 DEF d2

\* A patch that leaves the status to the schedule.
LEMMA PatchRestStep ==
  ASSUME NEW d \in DbType, NEW t \in Tasks, NEW new \in CardTypes,
         new.status = d.task[t].status, new.reason = d.task[t].reason
  PROVE  LET d2 == Patched(d, t, new)
         IN /\ Quiet(d, d2, t) /\ d2.task[t].trigger = new.trigger
            /\ new.status \notin Busy /\ WillFire(new) => d2.task[t].status = "scheduled"
            /\ ~IsCron(new) /\ new.status \notin {"ready", "scheduled"} =>
                 d2.task[t].status = new.status /\ d2.rows[t] = d.rows[t]
<1> DEFINE d2 == Patched(d, t, new)
           now == StatusAfterTriggerSave(new)
<1>1. /\ now \in Statuses /\ now \in {new.status, "scheduled", "pending"}
      /\ new.status \notin Busy /\ WillFire(new) => now = "scheduled"
      /\ new.status # "scheduled" /\ ~WillFire(new) => now = new.status
  BY CardFields DEF StatusAfterTriggerSave, Statuses, Busy
<1>2. ~IsCron(new) => ~WillFire(new)
  BY DEF WillFire
<1> HIDE DEF now, d2
<1>3. /\ Edits(d, d2, t) /\ d2.task[t] = [new EXCEPT !.status = now]
      /\ now # "ready" => d2.rows[t] = d.rows[t]
  BY PatchedFacts DEF now, d2
<1>4. d2.task[t].status = now /\ d2.task[t].trigger = new.trigger
  BY <1>1, <1>3, StatusColumn
<1>5. Quiet(d, d2, t)
  BY <1>1, <1>3, <1>4 DEF Quiet
<1> QED
  BY <1>1, <1>2, <1>3, <1>4, <1>5 DEF d2

\* save_cron_once
LEMMA SaveCronOnceStep ==
  ASSUME NEW d \in DbType, NEW E, NEW t \in Tasks, NEW order
  PROVE  LET d2 == RunStep(d, E, t, "save_cron_once", order)
         IN /\ Quiet(d, d2, t) /\ IsCron(d2.task[t])
            /\ d.task[t].status \notin Busy => d2.task[t].status = "scheduled"
<1> DEFINE d2 == RunStep(d, E, t, "save_cron_once", order)
           new == OnceFrom(d.task[t])
<1>1. d2 = Patched(d, t, new) /\ d.task[t] \in CardTypes
  BY DbFields DEF RunStep
<1>2. /\ new \in CardTypes /\ new.status = d.task[t].status
      /\ new.reason = d.task[t].reason /\ IsCron(new) /\ WillFire(new)
  BY <1>1 DEF OnceFrom, CardTypes, Configs, IsCron, WillFire
<1> HIDE DEF d2, new
<1> QED
  BY <1>1, <1>2, PatchRestStep DEF d2, IsCron

\* reassign_to_agent
LEMMA ReassignStep ==
  ASSUME NEW d \in DbType, NEW E, NEW t \in Tasks, NEW order
  PROVE  LET d2 == RunStep(d, E, t, "reassign_to_agent", order)
         IN /\ Quiet(d, d2, t) /\ d2.task[t].trigger = d.task[t].trigger
            /\ ~IsCron(d.task[t]) /\ d.task[t].status \notin {"ready", "scheduled"} =>
                 d2.task[t].status = d.task[t].status /\ d2.rows[t] = d.rows[t]
<1> DEFINE d2 == RunStep(d, E, t, "reassign_to_agent", order)
           new == [d.task[t] EXCEPT !.by = "agent"]
<1>1. d2 = Patched(d, t, new) /\ d.task[t] \in CardTypes
  BY DbFields DEF RunStep
<1>2. /\ new \in CardTypes /\ new.status = d.task[t].status
      /\ new.reason = d.task[t].reason /\ new.trigger = d.task[t].trigger
  BY <1>1 DEF CardTypes
<1> HIDE DEF d2, new
<1> QED
  BY <1>1, <1>2, PatchRestStep DEF d2, IsCron

\* disable_trigger, enable_trigger and clear_trigger
LEMMA TriggerStep ==
  ASSUME NEW d \in DbType, NEW E, NEW t \in Tasks, NEW order,
         NEW step \in {"disable_trigger", "enable_trigger", "clear_trigger"}
  PROVE  Quiet(d, RunStep(d, E, t, step, order), t)
<1> DEFINE c == d.task[t]
           off == [c EXCEPT !.config.enabled = FALSE]
           on == [c EXCEPT !.config = [enabled |-> TRUE, ended |-> "no"]]
           none == [c EXCEPT !.trigger = "manual", !.config = NoSchedule]
<1>1. c \in CardTypes
  BY DbFields
<1>2. off \in CardTypes /\ off.status = c.status /\ off.reason = c.reason
  BY <1>1 DEF CardTypes, Configs
<1>3. on \in CardTypes /\ on.status = c.status /\ on.reason = c.reason
  BY <1>1 DEF CardTypes, Configs
<1>4. none \in CardTypes /\ none.status = c.status /\ none.reason = c.reason
  BY <1>1 DEF CardTypes, Configs, NoSchedule
<1>5. RunStep(d, E, t, step, order) \in {Patched(d, t, off), Patched(d, t, on),
                                        Patched(d, t, none)}
  BY DEF RunStep
<1> HIDE DEF off, on, none
<1> QED
  BY <1>2, <1>3, <1>4, <1>5, PatchRestStep

\* So every step but patch_done and release_dependents is quiet.
LEMMA QuietStep ==
  ASSUME NEW d \in DbType, NEW E, NEW t \in Tasks, NEW order, NEW step \in QuietSteps,
         ~StepFails(d, t, step)
  PROVE  Quiet(d, RunStep(d, E, t, step, order), t)
<1>1. CASE step \in {"reorder", "pause"}
  <2>1. RunStep(d, E, t, step, order) = d
    BY <1>1 DEF RunStep
  <2> QED
    BY <2>1 DEF Quiet, Edits, OnlyTouches
<1>2. CASE step \in {"disable_trigger", "enable_trigger", "clear_trigger"}
  BY <1>2, TriggerStep
<1>3. CASE step \in {"enqueue", "dequeue"}
  BY <1>3, EnqueueStep, DequeueStep
<1>4. CASE step \in {"detach_paused", "resume", "patch_pending"}
  BY <1>4, DetachPausedStep, ResumeStep, PatchPendingStep
<1>5. CASE step \in {"save_cron_once", "reassign_to_agent"}
  BY <1>5, SaveCronOnceStep, ReassignStep
<1> QED
  BY <1>1, <1>2, <1>3, <1>4, <1>5 DEF QuietSteps

-----------------------------------------------------------------------------
(* Moves.                                                                  *)

MoveType == [d: DbType, failed: BOOLEAN]

\* One step of a move.
LEMMA NextStepFacts ==
  ASSUME NEW m \in MoveType, NEW E, NEW t, NEW step, NEW order
  PROVE  LET next == NextStep(m, E, t, step, order) IN
         /\ m.failed => next = [d |-> m.d, failed |-> TRUE]
         /\ StepFails(m.d, t, step) => next = [d |-> m.d, failed |-> TRUE]
         /\ ~m.failed /\ ~StepFails(m.d, t, step) =>
              next = [d |-> RunStep(m.d, E, t, step, order), failed |-> FALSE]
BY DEF NextStep, MoveType

\* Only a task that is off the queue is enqueued, and one that is on it dequeued.
LEMMA StepsThatFail ==
  ASSUME NEW d, NEW t, NEW step, step \notin {"enqueue", "dequeue"}
  PROVE  ~StepFails(d, t, step)
BY DEF StepFails

\* A quiet step of a move that has been quiet.
LEMMA QuietNext ==
  ASSUME NEW d, NEW m \in MoveType, NEW E, NEW t \in Tasks,
         NEW step \in QuietSteps, NEW order, Quiet(d, m.d, t)
  PROVE  LET next == NextStep(m, E, t, step, order)
         IN next \in MoveType /\ Quiet(d, next.d, t)
<1> DEFINE next == NextStep(m, E, t, step, order)
<1>1. m.d \in DbType
  BY DEF MoveType
<1>2. CASE m.failed \/ StepFails(m.d, t, step)
  <2>1. next = [d |-> m.d, failed |-> TRUE]
    BY <1>2, NextStepFacts
  <2> QED
    BY <1>1, <2>1 DEF MoveType
<1>3. CASE ~m.failed /\ ~StepFails(m.d, t, step)
  <2> DEFINE d2 == RunStep(m.d, E, t, step, order)
  <2>1. next = [d |-> d2, failed |-> FALSE]
    BY <1>3, NextStepFacts
  <2>2. Quiet(m.d, d2, t)
    BY <1>1, <1>3, QuietStep
  <2> HIDE DEF d2
  <2>3. Quiet(d, d2, t) /\ d2 \in DbType
    BY <2>2 DEF Quiet, Edits, OnlyTouches
  <2> QED
    BY <2>1, <2>3 DEF MoveType
<1> QED
  BY <1>2, <1>3

\* Nothing happened yet.
LEMMA QuietStart ==
  ASSUME NEW d \in DbType, NEW t \in Tasks
  PROVE  Start(d) \in MoveType /\ Start(d).d = d /\ ~Start(d).failed /\ Quiet(d, Start(d).d, t)
BY DEF Start, MoveType, Quiet, Edits, OnlyTouches

\* The plans that answer no dependent, and those that do.
IsQuietPlan(plan) ==
  \/ \E a \in QuietSteps : plan = <<a>>
  \/ \E a \in QuietSteps, b \in QuietSteps : plan = <<a, b>>
  \/ \E a \in QuietSteps, b \in QuietSteps, c \in QuietSteps : plan = <<a, b, c>>

IsDonePlan(plan) ==
  \/ plan = MarkDone
  \/ \E a \in QuietSteps : plan = <<a, "patch_done", "release_dependents">>

\* There are no others.
LEMMA PlansOfTwoKinds ==
  ASSUME NEW c, NEW queued, NEW source, NEW to, NEW plan,
         PlanIs(c, queued, source, to, plan)
  PROVE  IsQuietPlan(plan) \/ (to = "done" /\ IsDonePlan(plan))
<1>1. \A a : TakesOut(queued, a) => a \in QuietSteps
  BY DEF TakesOut, QuietSteps
<1>2. CASE ToScheduled(queued, source, plan)
  BY <1>1, <1>2 DEF ToScheduled, IsQuietPlan, QuietSteps
<1>3. CASE ToQueue(source, plan)
  BY <1>3 DEF ToQueue, IsQuietPlan, QuietSteps
<1>4. CASE ToBacklog(c, queued, source, plan)
  BY <1>1, <1>4 DEF ToBacklog, IsQuietPlan, QuietSteps
<1>5. CASE to = "done" /\ ToDone(queued, source, plan)
  BY <1>1, <1>5 DEF ToDone, IsDonePlan, QuietSteps
<1>6. CASE plan = <<"pause">>
  BY <1>6 DEF IsQuietPlan, QuietSteps
<1> QED
  BY <1>2, <1>3, <1>4, <1>5, <1>6 DEF PlanIs

\* A move by such a plan is quiet, however far it gets.
LEMMA QuietMove ==
  ASSUME NEW d \in DbType, NEW E, NEW t \in Tasks, NEW plan, NEW order, IsQuietPlan(plan)
  PROVE  Quiet(d, Moved(d, E, t, plan, order).d, t)
<1>1. Start(d) \in MoveType /\ Quiet(d, Start(d).d, t)
  BY QuietStart
<1> DEFINE s1(a) == NextStep(Start(d), E, t, a, order)
           s2(a, b) == NextStep(s1(a), E, t, b, order)
           s3(a, b, c) == NextStep(s2(a, b), E, t, c, order)
<1>2. ASSUME NEW a \in QuietSteps PROVE s1(a) \in MoveType /\ Quiet(d, s1(a).d, t)
  BY <1>1, QuietNext
<1>3. ASSUME NEW a \in QuietSteps, NEW b \in QuietSteps
      PROVE  s2(a, b) \in MoveType /\ Quiet(d, s2(a, b).d, t)
  <2>1. s1(a) \in MoveType /\ Quiet(d, s1(a).d, t)
    BY <1>2
  <2> HIDE DEF s1
  <2> QED
    BY <2>1, QuietNext
<1>4. ASSUME NEW a \in QuietSteps, NEW b \in QuietSteps, NEW c \in QuietSteps
      PROVE  Quiet(d, s3(a, b, c).d, t)
  <2>1. s2(a, b) \in MoveType /\ Quiet(d, s2(a, b).d, t)
    BY <1>3
  <2> HIDE DEF s2
  <2> QED
    BY <2>1, QuietNext
<1>5. CASE \E a \in QuietSteps : plan = <<a>>
  <2>1. PICK a \in QuietSteps : plan = <<a>>
    BY <1>5
  <2>2. Moved(d, E, t, plan, order) = s1(a)
    BY <2>1, MovedOne, Zenon
  <2> HIDE DEF s1
  <2> QED
    BY <1>2, <2>2
<1>6. CASE \E a \in QuietSteps, b \in QuietSteps : plan = <<a, b>>
  <2>1. PICK a \in QuietSteps, b \in QuietSteps : plan = <<a, b>>
    BY <1>6
  <2>2. Moved(d, E, t, plan, order) = s2(a, b)
    BY <2>1, MovedTwo, Zenon
  <2> HIDE DEF s2
  <2> QED
    BY <1>3, <2>2
<1>7. CASE \E a \in QuietSteps, b \in QuietSteps, c \in QuietSteps : plan = <<a, b, c>>
  <2>1. PICK a \in QuietSteps, b \in QuietSteps, c \in QuietSteps : plan = <<a, b, c>>
    BY <1>7
  <2>2. Moved(d, E, t, plan, order) = s3(a, b, c)
    BY <2>1, MovedThree, Zenon
  <2> HIDE DEF s3
  <2> QED
    BY <1>4, <2>2
<1> QED
  BY <1>5, <1>6, <1>7 DEF IsQuietPlan

\* The answer a move gives for t, and its release.
Answered(d, E, t, order) == Released(RunStep(d, E, t, "patch_done", order), E, t, order)

\* A move that gives it at once.
LEMMA MarkDoneMove ==
  ASSUME NEW d \in DbType, NEW E, NEW t \in Tasks, NEW order \in Orders
  PROVE  Moved(d, E, t, MarkDone, order) = [d |-> Answered(d, E, t, order), failed |-> FALSE]
<1> DEFINE d1 == RunStep(d, E, t, "patch_done", order)
           m1 == NextStep(Start(d), E, t, "patch_done", order)
           m2 == NextStep(m1, E, t, "release_dependents", order)
<1>1. Moved(d, E, t, MarkDone, order) = m2
  BY MovedTwo, Zenon DEF MarkDone
<1>2. Start(d) \in MoveType /\ Start(d).d = d /\ ~Start(d).failed
  BY QuietStart
<1>3. d1 \in DbType
  <2>1. PICK new : d1 = WithTask(d, t, new) /\ MayBecome(d.task[t], new)
    BY PatchDoneStep
  <2> HIDE DEF d1
  <2> QED
    BY <2>1, WithTaskFacts DEF MayBecome
<1>4. m1 = [d |-> d1, failed |-> FALSE]
  BY <1>2, NextStepFacts, StepsThatFail
<1> HIDE DEF d1, m1
<1>5. m1 \in MoveType /\ m1.d = d1 /\ ~m1.failed
  BY <1>3, <1>4 DEF MoveType
<1>6. m2 = [d |-> RunStep(d1, E, t, "release_dependents", order), failed |-> FALSE]
  BY <1>5, NextStepFacts, StepsThatFail
<1>7. RunStep(d1, E, t, "release_dependents", order) = Released(d1, E, t, order)
  BY DEF RunStep
<1> QED
  BY <1>1, <1>6, <1>7 DEF Answered, d1

\* A move that takes another step first.
LEMMA StepThenDoneMove ==
  ASSUME NEW d \in DbType, NEW E, NEW t \in Tasks, NEW order \in Orders,
         NEW a \in QuietSteps
  PROVE  LET plan == <<a, "patch_done", "release_dependents">>
             d1 == RunStep(d, E, t, a, order)
         IN /\ StepFails(d, t, a) => Moved(d, E, t, plan, order) = [d |-> d, failed |-> TRUE]
            /\ ~StepFails(d, t, a) =>
                 Moved(d, E, t, plan, order)
                   = [d |-> Answered(d1, E, t, order), failed |-> FALSE]
<1> DEFINE plan == <<a, "patch_done", "release_dependents">>
           d1 == RunStep(d, E, t, a, order)
           d2 == RunStep(d1, E, t, "patch_done", order)
           m1 == NextStep(Start(d), E, t, a, order)
           m2 == NextStep(m1, E, t, "patch_done", order)
           m3 == NextStep(m2, E, t, "release_dependents", order)
<1>1. Moved(d, E, t, plan, order) = m3
  BY MovedThree, Zenon
<1>2. Start(d) \in MoveType /\ Start(d).d = d /\ ~Start(d).failed
  BY QuietStart
<1>3. CASE StepFails(d, t, a)
  <2>1. m1 = [d |-> d, failed |-> TRUE]
    BY <1>2, <1>3, NextStepFacts
  <2> HIDE DEF m1
  <2>2. m1 \in MoveType /\ m1.d = d /\ m1.failed
    BY <2>1 DEF MoveType
  <2>3. m2 = [d |-> m1.d, failed |-> TRUE]
    BY <2>2, NextStepFacts
  <2> HIDE DEF m2
  <2>4. m2 = m1
    BY <2>1, <2>2, <2>3
  <2>5. m2 \in MoveType /\ m2.failed
    BY <2>2, <2>4
  <2>6. m3 = [d |-> m2.d, failed |-> TRUE]
    BY <2>5, NextStepFacts
  <2> QED
    BY <1>1, <1>3, <2>2, <2>4, <2>6
<1>4. CASE ~StepFails(d, t, a)
  <2>1. m1 = [d |-> d1, failed |-> FALSE]
    BY <1>2, <1>4, NextStepFacts
  <2>2. Quiet(d, d1, t)
    BY <1>4, QuietStep
  <2> HIDE DEF d1, m1
  <2>3. d1 \in DbType
    BY <2>2 DEF Quiet, Edits, OnlyTouches
  <2>4. m1 \in MoveType /\ m1.d = d1 /\ ~m1.failed
    BY <2>1, <2>3 DEF MoveType
  <2>5. d2 \in DbType
    <3>1. PICK new : d2 = WithTask(d1, t, new) /\ MayBecome(d1.task[t], new)
      BY <2>3, PatchDoneStep
    <3> HIDE DEF d2
    <3> QED
      BY <2>3, <3>1, WithTaskFacts DEF MayBecome
  <2>6. m2 = [d |-> d2, failed |-> FALSE]
    BY <2>4, NextStepFacts, StepsThatFail
  <2> HIDE DEF d2, m2
  <2>7. m2 \in MoveType /\ m2.d = d2 /\ ~m2.failed
    BY <2>5, <2>6 DEF MoveType
  <2>8. m3 = [d |-> RunStep(d2, E, t, "release_dependents", order), failed |-> FALSE]
    BY <2>7, NextStepFacts, StepsThatFail
  <2>9. RunStep(d2, E, t, "release_dependents", order) = Released(d2, E, t, order)
    BY DEF RunStep
  <2> HIDE DEF m3
  <2>10. Moved(d, E, t, plan, order) = [d |-> Answered(d1, E, t, order), failed |-> FALSE]
    BY <1>1, <2>8, <2>9 DEF Answered, d2
  <2> QED
    BY <1>4, <2>10 DEF d1
<1> QED
  BY <1>3, <1>4

-----------------------------------------------------------------------------
(* Where the card of a task without a schedule stands, and lands.          *)

\* The columns of a card that was never on a schedule.
PlainCard(c) ==
  /\ c \in CardTypes /\ ~IsCron(c)
  /\ c.status # "scheduled" /\ c.reason # "awaiting_children"

\* What its place on the board says of it.
SourceSays(c, source) ==
  /\ source \in CardSources
  /\ source \notin {"scheduled", "schedule_paused", "blocked_awaiting_children"}
  /\ source \in {"pending_agent", "pending_user", "pending_waiting_dependency"}
       => c.status = "pending"
  /\ source \in {"ready", "running", "failed"} => c.status = source
  /\ source \in {"blocked_paused", "blocked_dependency_failed"} => c.status = "blocked"
  /\ source = "done" => c.status \in {"done", "cancelled"}

\* Every card has a place in the table of moves.
LEMMA CardHasSource ==
  ASSUME NEW c \in CardTypes, NEW unmet \in BOOLEAN
  PROVE  SourceOf(c, unmet) \in CardSources
<1>1. c.status = "blocked" => BlockedBy[c.reason] \in
        {"blocked_paused", "blocked_dependency_failed", "blocked_awaiting_children"}
  BY CardFields DEF BlockedBy
<1>2. PendingSource(c, unmet) \in {"schedule_paused", "done", "pending_user",
                                  "pending_waiting_dependency", "pending_agent"}
  BY DEF PendingSource
<1>3. c.status \in Statuses
  BY CardFields
<1> QED
  BY <1>1, <1>2, <1>3 DEF SourceOf, CardSources, Statuses

\* And a plain card has one of its own.
LEMMA PlainCardSource ==
  ASSUME NEW c, PlainCard(c), NEW unmet \in BOOLEAN
  PROVE  SourceSays(c, SourceOf(c, unmet))
<1> DEFINE source == SourceOf(c, unmet)
<1>1. c \in CardTypes /\ ~IsCron(c) /\ c.status # "scheduled" /\ c.reason # "awaiting_children"
  BY DEF PlainCard
<1>2. c.status \in Statuses /\ c.reason \in {"none", "dependency_failed"}
  BY <1>1, CardFields
<1>3. CASE c.status = "blocked"
  <2>1. source = BlockedBy[c.reason]
    BY <1>3 DEF SourceOf
  <2>2. source \in {"blocked_paused", "blocked_dependency_failed"}
    BY <1>2, <2>1 DEF BlockedBy
  <2> HIDE DEF source
  <2> QED
    BY <1>3, <2>2 DEF SourceSays, CardSources, source
<1>4. CASE c.status = "pending"
  <2>1. source = PendingSource(c, unmet)
    BY <1>4 DEF SourceOf
  <2>2. source \in {"pending_user", "pending_waiting_dependency", "pending_agent"}
    BY <1>1, <2>1 DEF PendingSource, IsSchedulePaused, IsScheduleFinished
  <2> HIDE DEF source
  <2> QED
    BY <1>4, <2>2 DEF SourceSays, CardSources, source
<1>5. CASE c.status \in {"done", "cancelled"}
  <2>1. source = "done"
    BY <1>5 DEF SourceOf
  <2> HIDE DEF source
  <2> QED
    BY <1>5, <2>1 DEF SourceSays, CardSources, source
<1>6. CASE c.status \in {"ready", "running", "waiting_on_user", "failed"}
  <2>1. source = c.status
    BY <1>6 DEF SourceOf
  <2> HIDE DEF source
  <2> QED
    BY <1>6, <2>1 DEF SourceSays, CardSources, source
<1> QED
  BY <1>1, <1>2, <1>3, <1>4, <1>5, <1>6 DEF Statuses

\* The card lands on the lane.
Lands(c, to) == \A unmet \in BOOLEAN : LaneOf(SourceOf(c, unmet)) = to

\* A card lands by its status, if it has no schedule that says otherwise.
LEMMA LandsByStatus ==
  ASSUME NEW c
  PROVE  /\ c.status = "ready" => Lands(c, "queue")
         /\ c.status = "scheduled" => Lands(c, "scheduled")
         /\ c.status = "done" => Lands(c, "done")
         /\ c.status = "pending" /\ ~IsCron(c) => Lands(c, "backlog")
<1>1. c.status \in {"ready", "scheduled"} =>
        \A unmet \in BOOLEAN : SourceOf(c, unmet) = c.status
  BY DEF SourceOf
<1>2. c.status = "done" => \A unmet \in BOOLEAN : SourceOf(c, unmet) = "done"
  BY DEF SourceOf
<1>3. c.status = "pending" /\ ~IsCron(c) => \A unmet \in BOOLEAN : SourceOf(c, unmet) \in
        {"pending_user", "pending_waiting_dependency", "pending_agent"}
  BY DEF SourceOf, PendingSource, IsSchedulePaused, IsScheduleFinished
<1> QED
  BY <1>1, <1>2, <1>3 DEF LaneOf, Lands

-----------------------------------------------------------------------------
(* The moves of a task without a schedule.                                 *)

\* A move of one step.
LEMMA OneStep ==
  ASSUME NEW d \in DbType, NEW E, NEW t \in Tasks, NEW order, NEW a \in QuietSteps
  PROVE  LET d1 == RunStep(d, E, t, a, order)
             m == Moved(d, E, t, <<a>>, order)
         IN /\ StepFails(d, t, a) => m = [d |-> d, failed |-> TRUE]
            /\ ~StepFails(d, t, a) => m = [d |-> d1, failed |-> FALSE] /\ Quiet(d, d1, t)
<1>1. Start(d) \in MoveType /\ Start(d).d = d /\ ~Start(d).failed
  BY QuietStart
<1>2. Moved(d, E, t, <<a>>, order) = NextStep(Start(d), E, t, a, order)
  BY MovedOne, Zenon
<1>3. ~StepFails(d, t, a) => Quiet(d, RunStep(d, E, t, a, order), t)
  BY QuietStep
<1> QED
  BY <1>1, <1>2, <1>3, NextStepFacts

Two(a, b) == <<a, b>>

\* A move of two steps, the first of which does not fail.
LEMMA TwoSteps ==
  ASSUME NEW d \in DbType, NEW E, NEW t \in Tasks, NEW order,
         NEW a \in QuietSteps, NEW b \in QuietSteps, ~StepFails(d, t, a)
  PROVE  LET d1 == RunStep(d, E, t, a, order)
             d2 == RunStep(d1, E, t, b, order)
             m == Moved(d, E, t, Two(a, b), order)
         IN /\ Quiet(d, d1, t)
            /\ StepFails(d1, t, b) => m = [d |-> d1, failed |-> TRUE]
            /\ ~StepFails(d1, t, b) => m = [d |-> d2, failed |-> FALSE] /\ Quiet(d1, d2, t)
<1> DEFINE d1 == RunStep(d, E, t, a, order)
           d2 == RunStep(d1, E, t, b, order)
           m1 == NextStep(Start(d), E, t, a, order)
<1>1. Start(d) \in MoveType /\ Start(d).d = d /\ ~Start(d).failed
  BY QuietStart
<1>2. m1 = [d |-> d1, failed |-> FALSE] /\ Quiet(d, d1, t)
  BY <1>1, NextStepFacts, QuietStep
<1>3. Moved(d, E, t, Two(a, b), order) = NextStep(m1, E, t, b, order)
  BY MovedTwo, Zenon DEF Two
<1> HIDE DEF m1, d1
<1>4. d1 \in DbType
  BY <1>2 DEF Quiet, Edits, OnlyTouches
<1>5. m1 \in MoveType /\ m1.d = d1 /\ ~m1.failed
  BY <1>2, <1>4 DEF MoveType
<1>6. ~StepFails(d1, t, b) => Quiet(d1, d2, t)
  BY <1>4, QuietStep
<1>7. /\ StepFails(d1, t, b) => NextStep(m1, E, t, b, order) = [d |-> d1, failed |-> TRUE]
      /\ ~StepFails(d1, t, b) => NextStep(m1, E, t, b, order) = [d |-> d2, failed |-> FALSE]
  BY <1>5, NextStepFacts
<1> QED
  BY <1>2, <1>3, <1>6, <1>7 DEF d1

\* A move of three steps that cannot fail.
LEMMA ThreeSteps ==
  ASSUME NEW d \in DbType, NEW E, NEW t \in Tasks, NEW order,
         NEW a \in QuietSteps \ {"enqueue", "dequeue"},
         NEW b \in QuietSteps \ {"enqueue", "dequeue"},
         NEW c \in QuietSteps \ {"enqueue", "dequeue"}
  PROVE  LET d1 == RunStep(d, E, t, a, order)
             d2 == RunStep(d1, E, t, b, order)
             d3 == RunStep(d2, E, t, c, order)
         IN /\ Quiet(d, d1, t) /\ Quiet(d1, d2, t) /\ Quiet(d2, d3, t)
            /\ Moved(d, E, t, <<a, b, c>>, order) = [d |-> d3, failed |-> FALSE]
<1> DEFINE d1 == RunStep(d, E, t, a, order)
           d2 == RunStep(d1, E, t, b, order)
           d3 == RunStep(d2, E, t, c, order)
           m1 == NextStep(Start(d), E, t, a, order)
           m2 == NextStep(m1, E, t, b, order)
<1>1. Start(d) \in MoveType /\ Start(d).d = d /\ ~Start(d).failed
  BY QuietStart
<1>2. \A x \in DbType : /\ ~StepFails(x, t, a) /\ ~StepFails(x, t, b)
                        /\ ~StepFails(x, t, c)
  BY StepsThatFail
<1>3. m1 = [d |-> d1, failed |-> FALSE] /\ Quiet(d, d1, t)
  BY <1>1, <1>2, NextStepFacts, QuietStep
<1>4. Moved(d, E, t, <<a, b, c>>, order) = NextStep(m2, E, t, c, order)
  BY MovedThree, Zenon
<1> HIDE DEF m1, d1
<1>5. d1 \in DbType /\ m1 \in MoveType /\ m1.d = d1 /\ ~m1.failed
  <2>1. d1 \in DbType
    BY <1>3 DEF Quiet, Edits, OnlyTouches
  <2> QED
    BY <1>3, <2>1 DEF MoveType
<1>6. m2 = [d |-> d2, failed |-> FALSE] /\ Quiet(d1, d2, t)
  BY <1>2, <1>5, NextStepFacts, QuietStep
<1> HIDE DEF m2, d2
<1>7. d2 \in DbType /\ m2 \in MoveType /\ m2.d = d2 /\ ~m2.failed
  <2>1. d2 \in DbType
    BY <1>6 DEF Quiet, Edits, OnlyTouches
  <2> QED
    BY <1>6, <2>1 DEF MoveType
<1>8. NextStep(m2, E, t, c, order) = [d |-> d3, failed |-> FALSE] /\ Quiet(d2, d3, t)
  BY <1>2, <1>7, NextStepFacts, QuietStep
<1> QED
  BY <1>3, <1>4, <1>6, <1>8 DEF d1, d2

\* What the rows of a plain task say of it.
LEMMA PlainRows ==
  ASSUME NEW d \in DbType, NEW t \in Tasks, PlainTask(d, t)
  PROVE  /\ PlainCard(d.task[t])
         /\ d.rows[t]["pending"] \in Nat /\ d.rows[t]["running"] \in Nat
         /\ d.rows[t]["paused"] \in Nat
         /\ d.task[t].status # "running" => d.rows[t]["running"] = 0
         /\ d.task[t].status # "ready" => d.rows[t]["pending"] = 0
<1>1. d.task[t] \in CardTypes /\ d.rows[t] \in [RowStates -> Nat]
  BY DbFields
<1> QED
  BY <1>1 DEF PlainTask, PlainCard, RowStates

\* An edit that puts no second row in the queue leaves it plain.
LEMMA EditKeepsPlain ==
  ASSUME NEW d \in DbType, NEW d2, NEW t \in Tasks, PlainTask(d, t), Edits(d, d2, t),
         d2.task[t].trigger = d.task[t].trigger, d2.task[t].status # "scheduled",
         d.rows[t]["running"] = 0, d2.rows[t]["pending"] <= 1,
         d2.task[t].status # "ready" => d2.rows[t]["pending"] = 0
  PROVE  PlainTask(d2, t)
<1>1. d2.rows[t]["pending"] \in Nat
  BY DbFields DEF Edits, OnlyTouches, RowStates
<1> QED
  BY <1>1 DEF PlainTask, Edits, OnlyTouches, IsCron

PlainOrCron(d, t) == IsCron(d.task[t]) \/ PlainTask(d, t)

\* The board shows the task's parked run, if it has one, and it is its only one.
Shown(d, t, source) ==
  d.rows[t]["paused"] > 0 => d.rows[t]["paused"] = 1 /\ source = "blocked_paused"

\* What a move makes of a plain task.
MovesTo(d, m, t, source, to) ==
  /\ PlainOrCron(m.d, t)
  /\ ~m.failed => Lands(m.d.task[t], to)
  /\ ~m.failed /\ to \in {"backlog", "done"} =>
       /\ m.d.rows[t]["pending"] = 0
       /\ Shown(d, t, source) => m.d.rows[t]["paused"] = 0

\* A task that shows as queued is off the queue after it was taken out.
LEMMA TakeOutStep ==
  ASSUME NEW d \in DbType, NEW E, NEW t \in Tasks, NEW order, PlainTask(d, t),
         d.task[t].status = "ready", NEW queued, queued = (d.rows[t]["pending"] > 0),
         NEW a, TakesOut(queued, a)
  PROVE  LET d1 == RunStep(d, E, t, a, order)
         IN /\ a \in QuietSteps /\ ~StepFails(d, t, a)
            /\ Quiet(d, d1, t) /\ d1.task[t].status = "pending"
            /\ d1.task[t].trigger = d.task[t].trigger
            /\ d1.rows[t]["pending"] = 0 /\ d1.rows[t]["paused"] = d.rows[t]["paused"]
<1> DEFINE d1 == RunStep(d, E, t, a, order)
<1>1. /\ ~IsCron(d.task[t]) /\ d.rows[t]["pending"] \in Nat /\ d.rows[t]["pending"] <= 1
  BY PlainRows DEF PlainCard, PlainTask
<1>2. CASE d.rows[t]["pending"] > 0
  <2>1. a = "dequeue"
    BY <1>2 DEF TakesOut
  <2>2. ~StepFails(d, t, a)
    BY <1>2, <2>1 DEF StepFails
  <2>3. /\ Quiet(d, d1, t) /\ d1.task[t].status = "pending"
        /\ d1.task[t].trigger = d.task[t].trigger
        /\ d1.rows[t]["pending"] = d.rows[t]["pending"] - 1
        /\ d1.rows[t]["paused"] = d.rows[t]["paused"]
    BY <2>1, <2>2, DequeueStep
  <2> HIDE DEF d1
  <2>4. d1.rows[t]["pending"] = 0 /\ a \in QuietSteps
    BY <1>1, <1>2, <2>1, <2>3 DEF QuietSteps
  <2> QED
    BY <2>2, <2>3, <2>4 DEF d1
<1>3. CASE ~(d.rows[t]["pending"] > 0)
  <2>1. a = "patch_pending"
    BY <1>3 DEF TakesOut
  <2>2. ~StepFails(d, t, a) /\ a \in QuietSteps
    BY <2>1 DEF StepFails, QuietSteps
  <2>3. /\ Quiet(d, d1, t) /\ d1.rows[t] = d.rows[t]
        /\ d1.task[t].trigger = d.task[t].trigger /\ d1.task[t].status = "pending"
    BY <1>1, <2>1, PatchPendingStep
  <2> HIDE DEF d1
  <2>4. d1.rows[t]["pending"] = 0 /\ d1.rows[t]["paused"] = d.rows[t]["paused"]
    BY <1>1, <1>3, <2>3
  <2> QED
    BY <2>2, <2>3, <2>4 DEF d1
<1> QED
  BY <1>2, <1>3

\* A plain task at source, by a plan of the table.
PlainAt(d, t, queued, source) ==
  /\ PlainTask(d, t) /\ SourceSays(d.task[t], source)
  /\ queued = (d.rows[t]["pending"] > 0)

\* A drop on Scheduled gives it a schedule.
LEMMA PlainToScheduled ==
  ASSUME NEW d \in DbType, NEW E, NEW t \in Tasks, NEW order, NEW queued, NEW source,
         PlainAt(d, t, queued, source), NEW plan, ToScheduled(queued, source, plan)
  PROVE  MovesTo(d, Moved(d, E, t, plan, order), t, source, "scheduled")
<1> SUFFICES ASSUME NEW m, m = Moved(d, E, t, plan, order)
             PROVE  MovesTo(d, m, t, source, "scheduled")
  OBVIOUS
<1>1. /\ PlainTask(d, t) /\ SourceSays(d.task[t], source) /\ ~IsCron(d.task[t])
      /\ queued = (d.rows[t]["pending"] > 0)
  BY DEF PlainAt, PlainTask
<1>2. /\ {"save_cron_once", "detach_paused", "patch_pending"}
           \subseteq QuietSteps \ {"enqueue", "dequeue"}
      /\ "save_cron_once" \in QuietSteps /\ \A x : ~StepFails(x, t, "save_cron_once")
  BY DEF QuietSteps, StepFails
<1>3. \A x \in DbType : x.task[t].status \in {"pending", "failed", "done", "cancelled"} =>
        LET d2 == RunStep(x, E, t, "save_cron_once", order)
        IN IsCron(d2.task[t]) /\ d2.task[t].status = "scheduled"
  BY SaveCronOnceStep DEF Busy
<1>4. ASSUME NEW x \in DbType,
             x.task[t].status \in {"pending", "failed", "done", "cancelled"},
             m = [d |-> RunStep(x, E, t, "save_cron_once", order), failed |-> FALSE]
      PROVE  MovesTo(d, m, t, source, "scheduled")
  <2> DEFINE d2 == RunStep(x, E, t, "save_cron_once", order)
  <2>1. IsCron(d2.task[t]) /\ d2.task[t].status = "scheduled"
    BY <1>3, <1>4
  <2>2. m.d = d2
    BY <1>4
  <2> HIDE DEF d2
  <2> QED
    BY <2>1, <2>2, LandsByStatus DEF MovesTo, PlainOrCron
<1>5. CASE /\ source \in {"pending_agent", "pending_user", "scheduled", "failed", "done"}
           /\ plan = <<"save_cron_once">>
  <2>1. d.task[t].status \in {"pending", "failed", "done", "cancelled"}
    BY <1>1, <1>5 DEF SourceSays
  <2>2. m = [d |-> RunStep(d, E, t, "save_cron_once", order), failed |-> FALSE]
    <3> DEFINE a == "save_cron_once"
    <3>1. a \in QuietSteps /\ ~StepFails(d, t, a) /\ m = Moved(d, E, t, <<a>>, order)
      BY <1>2, <1>5
    <3> HIDE DEF a
    <3>2. m = [d |-> RunStep(d, E, t, a, order), failed |-> FALSE]
      BY <3>1, OneStep
    <3> QED
      BY <3>2 DEF a
  <2> QED
    BY <1>4, <2>1, <2>2
<1>6. CASE source = "ready" /\ \E a : TakesOut(queued, a) /\ plan = <<a, "save_cron_once">>
  <2>1. PICK a : TakesOut(queued, a) /\ plan = <<a, "save_cron_once">>
    BY <1>6
  <2> DEFINE d1 == RunStep(d, E, t, a, order)
  <2>2. d.task[t].status = "ready"
    BY <1>1, <1>6 DEF SourceSays
  <2>3. /\ a \in QuietSteps /\ ~StepFails(d, t, a) /\ Quiet(d, d1, t)
        /\ d1.task[t].status = "pending"
    BY <1>1, <2>1, <2>2, TakeOutStep
  <2>4. m = [d |-> RunStep(d1, E, t, "save_cron_once", order), failed |-> FALSE]
    <3> DEFINE b == "save_cron_once"
    <3>1. b \in QuietSteps /\ ~StepFails(d1, t, b) /\ m = Moved(d, E, t, Two(a, b), order)
      BY <1>2, <2>1 DEF Two
    <3> HIDE DEF b
    <3>2. m = [d |-> RunStep(d1, E, t, b, order), failed |-> FALSE]
      BY <2>3, <3>1, TwoSteps
    <3> QED
      BY <3>2 DEF b
  <2> HIDE DEF d1
  <2>5. d1 \in DbType
    BY <2>3 DEF Quiet, Edits, OnlyTouches
  <2> QED
    BY <1>4, <2>3, <2>4, <2>5
<1>7. CASE /\ source = "blocked_paused"
           /\ plan = <<"detach_paused", "patch_pending", "save_cron_once">>
  <2> DEFINE d1 == RunStep(d, E, t, "detach_paused", order)
             d2 == RunStep(d1, E, t, "patch_pending", order)
  <2>1. /\ Quiet(d, d1, t) /\ Quiet(d1, d2, t)
        /\ m = [d |-> RunStep(d2, E, t, "save_cron_once", order), failed |-> FALSE]
    BY <1>2, <1>7, ThreeSteps
  <2>2. d1.task[t] = d.task[t]
    BY DetachPausedStep
  <2> HIDE DEF d1
  <2>3. d1 \in DbType
    BY <2>1 DEF Quiet, Edits, OnlyTouches
  <2>4. d2.task[t].status = "pending"
    BY <1>1, <2>2, <2>3, PatchPendingStep
  <2> HIDE DEF d2
  <2>5. d2 \in DbType
    BY <2>1 DEF Quiet, Edits, OnlyTouches
  <2> QED
    BY <1>4, <2>1, <2>4, <2>5
<1>8. source # "schedule_paused"
  BY <1>1 DEF SourceSays
<1> QED
  BY <1>5, <1>6, <1>7, <1>8 DEF ToScheduled

\* A failed move leaves what its last step left.
LEMMA FailedMove ==
  ASSUME NEW d, NEW x, NEW t, NEW source, NEW to, PlainTask(x, t)
  PROVE  MovesTo(d, [d |-> x, failed |-> TRUE], t, source, to)
BY DEF MovesTo, PlainOrCron

\* An enqueue that works puts it on Queue.
LEMMA EnqueueLands ==
  ASSUME NEW d, NEW x \in DbType, NEW E, NEW t \in Tasks, NEW order, NEW source,
         PlainTask(x, t), ~StepFails(x, t, "enqueue")
  PROVE  MovesTo(d, [d |-> RunStep(x, E, t, "enqueue", order), failed |-> FALSE], t,
                 source, "queue")
<1> DEFINE d2 == RunStep(x, E, t, "enqueue", order)
<1>1. /\ Quiet(x, d2, t) /\ d2.task[t].status = "ready"
      /\ d2.task[t].trigger = x.task[t].trigger
      /\ d2.rows[t]["pending"] = 1 /\ x.rows[t]["running"] = 0
  BY EnqueueStep
<1> HIDE DEF d2
<1>2. Edits(x, d2, t)
  BY <1>1 DEF Quiet
<1>3. PlainTask(d2, t)
  BY <1>1, <1>2, EditKeepsPlain
<1>4. Lands(d2.task[t], "queue")
  BY <1>1, LandsByStatus
<1> QED
  BY <1>3, <1>4 DEF MovesTo, PlainOrCron, d2

\* A drop on Queue queues it, or fails.
LEMMA PlainToQueue ==
  ASSUME NEW d \in DbType, NEW E, NEW t \in Tasks, NEW order, NEW queued, NEW source,
         PlainAt(d, t, queued, source), NEW plan, ToQueue(source, plan)
  PROVE  MovesTo(d, Moved(d, E, t, plan, order), t, source, "queue")
<1> SUFFICES ASSUME NEW m, m = Moved(d, E, t, plan, order)
             PROVE  MovesTo(d, m, t, source, "queue")
  OBVIOUS
<1>1. /\ PlainTask(d, t) /\ SourceSays(d.task[t], source) /\ ~IsCron(d.task[t])
  BY DEF PlainAt, PlainTask
<1>2. /\ d.rows[t]["pending"] \in Nat
      /\ d.task[t].status # "running" => d.rows[t]["running"] = 0
      /\ d.task[t].status # "ready" => d.rows[t]["pending"] = 0
  BY <1>1, PlainRows
<1>3. CASE plan = <<"enqueue">>
  <2> DEFINE a == "enqueue"
             d1 == RunStep(d, E, t, a, order)
  <2>1. a \in QuietSteps /\ m = Moved(d, E, t, <<a>>, order)
    BY <1>3 DEF QuietSteps
  <2> HIDE DEF a, d1
  <2>2. /\ StepFails(d, t, a) => m = [d |-> d, failed |-> TRUE]
        /\ ~StepFails(d, t, a) => m = [d |-> d1, failed |-> FALSE]
    BY <2>1, OneStep DEF d1
  <2> USE DEF a, d1
  <2> QED
    BY <1>1, <2>2, FailedMove, EnqueueLands
<1>4. CASE source = "pending_user" /\ plan = <<"reassign_to_agent", "enqueue">>
  <2> DEFINE a == "reassign_to_agent"
             b == "enqueue"
             d1 == RunStep(d, E, t, a, order)
             d2 == RunStep(d1, E, t, b, order)
  <2>1. /\ a \in QuietSteps /\ b \in QuietSteps /\ ~StepFails(d, t, a)
        /\ m = Moved(d, E, t, Two(a, b), order)
    BY <1>4 DEF QuietSteps, StepFails, Two
  <2>2. d.task[t].status = "pending"
    BY <1>1, <1>4 DEF SourceSays
  <2>3. /\ Quiet(d, d1, t) /\ d1.task[t].trigger = d.task[t].trigger
        /\ d1.task[t].status = "pending" /\ d1.rows[t] = d.rows[t]
    BY <1>1, <2>2, ReassignStep
  <2> HIDE DEF a, b, d2
  <2>4. /\ StepFails(d1, t, b) => m = [d |-> d1, failed |-> TRUE]
        /\ ~StepFails(d1, t, b) => m = [d |-> d2, failed |-> FALSE]
    BY <2>1, TwoSteps DEF d2
  <2> HIDE DEF d1
  <2>5. d1 \in DbType /\ Edits(d, d1, t)
    BY <2>3 DEF Quiet, Edits, OnlyTouches
  <2>6. PlainTask(d1, t)
    <3>1. d1.rows[t]["pending"] <= 1 /\ d1.rows[t]["pending"] = 0 /\ d.rows[t]["running"] = 0
      BY <1>2, <2>2, <2>3
    <3> QED
      BY <1>1, <2>3, <2>5, <3>1, EditKeepsPlain
  <2> USE DEF b, d2
  <2> QED
    BY <2>4, <2>5, <2>6, FailedMove, EnqueueLands
<1>5. CASE source = "ready" /\ plan = <<"reorder">>
  <2> DEFINE a == "reorder"
  <2>1. /\ a \in QuietSteps /\ m = Moved(d, E, t, <<a>>, order) /\ ~StepFails(d, t, a)
        /\ RunStep(d, E, t, a, order) = d
    BY <1>5 DEF QuietSteps, StepFails, RunStep
  <2> HIDE DEF a
  <2>2. m = [d |-> d, failed |-> FALSE]
    <3>1. m = [d |-> RunStep(d, E, t, a, order), failed |-> FALSE]
      BY <2>1, OneStep
    <3> QED
      BY <2>1, <3>1
  <2>3. Lands(d.task[t], "queue")
    BY <1>1, <1>5, LandsByStatus DEF SourceSays
  <2> QED
    BY <1>1, <2>2, <2>3 DEF MovesTo, PlainOrCron
<1>6. CASE source = "blocked_paused" /\ plan = <<"resume">>
  <2> DEFINE a == "resume"
             d1 == RunStep(d, E, t, a, order)
  <2>1. a \in QuietSteps /\ m = Moved(d, E, t, <<a>>, order) /\ ~StepFails(d, t, a)
    BY <1>6 DEF QuietSteps, StepFails
  <2>2. /\ Quiet(d, d1, t) /\ d1.task[t].status = "ready"
        /\ d1.task[t].trigger = d.task[t].trigger
        /\ d1.rows[t]["pending"] <= d.rows[t]["pending"] + 1
    BY ResumeStep
  <2> HIDE DEF a
  <2>3. m = [d |-> d1, failed |-> FALSE]
    BY <2>1, OneStep
  <2> HIDE DEF d1
  <2>4. d.task[t].status = "blocked"
    BY <1>1, <1>6 DEF SourceSays
  <2>5. Edits(d, d1, t) /\ d1.rows[t]["pending"] <= 1 /\ d.rows[t]["running"] = 0
    BY <1>2, <2>2, <2>4 DEF Quiet
  <2>6. PlainTask(d1, t)
    BY <1>1, <2>2, <2>5, EditKeepsPlain
  <2>7. Lands(d1.task[t], "queue")
    BY <2>2, LandsByStatus
  <2> QED
    BY <2>3, <2>6, <2>7 DEF MovesTo, PlainOrCron
<1>7. source \notin {"scheduled", "schedule_paused"}
  BY <1>1 DEF SourceSays
<1> QED
  BY <1>3, <1>4, <1>5, <1>6, <1>7 DEF ToQueue

\* A drop on Backlog takes it off whatever it was on.
LEMMA PlainToBacklog ==
  ASSUME NEW d \in DbType, NEW E, NEW t \in Tasks, NEW order, NEW queued, NEW source,
         PlainAt(d, t, queued, source), NEW plan, ToBacklog(d.task[t], queued, source, plan)
  PROVE  MovesTo(d, Moved(d, E, t, plan, order), t, source, "backlog")
<1> SUFFICES ASSUME NEW m, m = Moved(d, E, t, plan, order)
             PROVE  MovesTo(d, m, t, source, "backlog")
  OBVIOUS
<1>1. /\ PlainTask(d, t) /\ SourceSays(d.task[t], source) /\ ~IsCron(d.task[t])
      /\ queued = (d.rows[t]["pending"] > 0)
  BY DEF PlainAt, PlainTask
<1>2. /\ d.rows[t]["pending"] \in Nat /\ d.rows[t]["paused"] \in Nat
      /\ d.task[t].status # "running" => d.rows[t]["running"] = 0
      /\ d.task[t].status # "ready" => d.rows[t]["pending"] = 0
  BY <1>1, PlainRows
\* What the move must have left.
<1>3. ASSUME NEW d2, Edits(d, d2, t), m = [d |-> d2, failed |-> FALSE],
             d2.task[t].status = "pending", d2.task[t].trigger = d.task[t].trigger,
             d.rows[t]["running"] = 0, d2.rows[t]["pending"] = 0,
             Shown(d, t, source) => d2.rows[t]["paused"] = 0
      PROVE  MovesTo(d, m, t, source, "backlog")
  <2>1. PlainTask(d2, t)
    BY <1>1, <1>3, EditKeepsPlain
  <2>2. ~IsCron(d2.task[t])
    BY <1>1, <1>3 DEF IsCron
  <2>3. Lands(d2.task[t], "backlog")
    BY <1>3, <2>2, LandsByStatus
  <2> QED
    BY <1>3, <2>1, <2>3 DEF MovesTo, PlainOrCron
<1>4. CASE source = "ready" /\ \E a : TakesOut(queued, a) /\ plan = <<a>>
  <2>1. PICK a : TakesOut(queued, a) /\ plan = <<a>>
    BY <1>4
  <2> DEFINE d1 == RunStep(d, E, t, a, order)
  <2>2. d.task[t].status = "ready"
    BY <1>1, <1>4 DEF SourceSays
  <2>3. /\ a \in QuietSteps /\ ~StepFails(d, t, a) /\ Quiet(d, d1, t)
        /\ d1.task[t].status = "pending" /\ d1.task[t].trigger = d.task[t].trigger
        /\ d1.rows[t]["pending"] = 0 /\ d1.rows[t]["paused"] = d.rows[t]["paused"]
    BY <1>1, <2>1, <2>2, TakeOutStep
  <2>4. m = [d |-> d1, failed |-> FALSE]
    BY <2>1, <2>3, OneStep
  <2> HIDE DEF d1
  <2>5. Shown(d, t, source) => d1.rows[t]["paused"] = 0
    BY <1>2, <1>4, <2>3 DEF Shown
  <2> QED
    BY <1>2, <1>3, <2>2, <2>3, <2>4, <2>5 DEF Quiet
<1>5. CASE /\ source \in {"blocked_dependency_failed", "failed", "done"}
           /\ plan = <<"patch_pending">>
  <2> DEFINE a == "patch_pending"
             d1 == RunStep(d, E, t, a, order)
  <2>1. a \in QuietSteps /\ m = Moved(d, E, t, <<a>>, order) /\ ~StepFails(d, t, a)
    BY <1>5 DEF QuietSteps, StepFails
  <2>2. /\ Quiet(d, d1, t) /\ d1.rows[t] = d.rows[t]
        /\ d1.task[t].trigger = d.task[t].trigger /\ d1.task[t].status = "pending"
    BY <1>1, PatchPendingStep
  <2> HIDE DEF a
  <2>3. m = [d |-> d1, failed |-> FALSE]
    BY <2>1, OneStep
  <2> HIDE DEF d1
  <2>4. d.task[t].status \notin {"ready", "running"}
    BY <1>1, <1>5 DEF SourceSays
  <2>5. Shown(d, t, source) => d1.rows[t]["paused"] = 0
    BY <1>2, <1>5, <2>2 DEF Shown
  <2> QED
    BY <1>2, <1>3, <2>2, <2>3, <2>4, <2>5 DEF Quiet
<1>6. CASE source = "blocked_paused" /\ plan = <<"detach_paused", "patch_pending">>
  <2> DEFINE a == "detach_paused"
             b == "patch_pending"
             d1 == RunStep(d, E, t, a, order)
             d2 == RunStep(d1, E, t, b, order)
  <2>1. /\ a \in QuietSteps /\ b \in QuietSteps /\ ~StepFails(d, t, a)
        /\ \A x : ~StepFails(x, t, b)
        /\ m = Moved(d, E, t, Two(a, b), order)
    BY <1>6 DEF QuietSteps, StepFails, Two
  <2>2. /\ Quiet(d, d1, t) /\ d1.task[t] = d.task[t]
        /\ d1.rows[t]["pending"] = d.rows[t]["pending"]
        /\ d.rows[t]["paused"] <= 1 => d1.rows[t]["paused"] = 0
    BY DetachPausedStep
  <2>3. d1 \in DbType
    BY <2>2 DEF Quiet, Edits, OnlyTouches
  <2>4. /\ Quiet(d1, d2, t) /\ d2.rows[t] = d1.rows[t]
        /\ d2.task[t].trigger = d1.task[t].trigger
        /\ ~IsCron(d1.task[t]) => d2.task[t].status = "pending"
    <3> HIDE DEF d1
    <3> QED
      BY <2>3, PatchPendingStep
  <2> HIDE DEF a, b
  <2>5. m = [d |-> d2, failed |-> FALSE]
    BY <2>1, TwoSteps
  <2> HIDE DEF d1, d2
  <2>6. Edits(d, d2, t)
    BY <2>2, <2>4 DEF Quiet, Edits, OnlyTouches
  <2>7. d.task[t].status = "blocked"
    BY <1>1, <1>6 DEF SourceSays
  <2>8. Shown(d, t, source) => d.rows[t]["paused"] <= 1
    BY <1>2 DEF Shown
  <2> QED
    BY <1>1, <1>2, <1>3, <2>2, <2>4, <2>5, <2>6, <2>7, <2>8
<1>7. source \notin {"scheduled", "schedule_paused", "blocked_awaiting_children"}
  BY <1>1 DEF SourceSays
<1> QED
  BY <1>1, <1>4, <1>5, <1>6, <1>7 DEF ToBacklog

\* The answer of a plain task that is off the queue stands.
LEMMA AnsweredPlain ==
  ASSUME NEW d \in DbType, NEW E, NEW t \in Tasks, NEW order \in Orders, PlainTask(d, t),
         d.rows[t]["pending"] = 0, d.rows[t]["running"] = 0
  PROVE  LET d2 == Answered(d, E, t, order)
         IN PlainTask(d2, t) /\ d2.task[t].status = "done" /\ d2.rows[t] = d.rows[t]
<1> DEFINE a == RunStep(d, E, t, "patch_done", order)
           d2 == Answered(d, E, t, order)
<1>1. ~IsCron(d.task[t]) /\ d.task[t].reason # "awaiting_children" /\ ~d.cohort[t].open
  BY DEF PlainTask
<1>2. PICK new : /\ a = WithTask(d, t, new) /\ MayBecome(d.task[t], new)
                 /\ new.reason = d.task[t].reason
                 /\ ~IsCron(d.task[t]) => new.status = "done"
  BY PatchDoneStep
<1>3. d2 = Released(a, E, t, order)
  BY DEF Answered
<1> HIDE DEF a, d2
<1>4. /\ a \in DbType /\ a.task[t] = new /\ a.rows = d.rows /\ a.cohort = d.cohort
      /\ ~IsCron(new)
  BY <1>1, <1>2, WithTaskFacts DEF MayBecome, IsCron
<1>5. Releases(a, d2)
  BY <1>3, <1>4, ReleaseReleases
<1>6. d2.task[t] = new /\ d2.rows[t] = d.rows[t] /\ d2.cohort = d.cohort
  BY <1>1, <1>2, <1>4, <1>5 DEF Releases, ReleaseOf
<1>7. PlainTask(d2, t)
  BY <1>1, <1>2, <1>4, <1>6 DEF PlainTask
<1> QED
  BY <1>1, <1>2, <1>6, <1>7 DEF d2

\* What comes before the answer leaves the task off the queue.
OffQueue(d, x, t, source) ==
  /\ Quiet(d, x, t) /\ PlainTask(x, t)
  /\ x.rows[t]["pending"] = 0 /\ x.rows[t]["running"] = 0
  /\ Shown(d, t, source) => x.rows[t]["paused"] = 0

\* A drop on Done answers its dependents, once it is off the queue.
LEMMA PlainIsAnswered ==
  ASSUME NEW d \in DbType, NEW E, NEW t \in Tasks, NEW order \in Orders, NEW queued,
         NEW source, PlainAt(d, t, queued, source),
         NEW plan, ToDone(queued, source, plan)
  PROVE  \E x : /\ OffQueue(d, x, t, source)
                /\ Moved(d, E, t, plan, order)
                     = [d |-> Answered(x, E, t, order), failed |-> FALSE]
<1> SUFFICES ASSUME NEW m, m = Moved(d, E, t, plan, order)
             PROVE  \E x : /\ OffQueue(d, x, t, source)
                           /\ m = [d |-> Answered(x, E, t, order), failed |-> FALSE]
  OBVIOUS
<1>1. /\ PlainTask(d, t) /\ SourceSays(d.task[t], source) /\ ~IsCron(d.task[t])
      /\ queued = (d.rows[t]["pending"] > 0)
  BY DEF PlainAt, PlainTask
<1>2. /\ d.rows[t]["pending"] \in Nat /\ d.rows[t]["paused"] \in Nat
      /\ d.task[t].status # "running" => d.rows[t]["running"] = 0
      /\ d.task[t].status # "ready" => d.rows[t]["pending"] = 0
  BY <1>1, PlainRows
<1>3. CASE /\ source \in {"pending_agent", "pending_user", "pending_waiting_dependency",
                          "blocked_dependency_failed", "failed"}
           /\ plan = MarkDone
  <2>1. m = [d |-> Answered(d, E, t, order), failed |-> FALSE]
    BY <1>3, MarkDoneMove
  <2>2. Quiet(d, d, t)
    BY DEF Quiet, Edits, OnlyTouches
  <2>3. d.task[t].status \notin {"ready", "running"}
    BY <1>1, <1>3 DEF SourceSays
  <2>4. OffQueue(d, d, t, source)
    BY <1>1, <1>2, <1>3, <2>2, <2>3 DEF OffQueue, Shown
  <2> QED
    BY <2>1, <2>4
<1>4. CASE source = "ready" /\ \E a : /\ TakesOut(queued, a)
                                      /\ plan = <<a, "patch_done", "release_dependents">>
  <2>1. PICK a : TakesOut(queued, a) /\ plan = <<a, "patch_done", "release_dependents">>
    BY <1>4
  <2> DEFINE d1 == RunStep(d, E, t, a, order)
  <2>2. d.task[t].status = "ready"
    BY <1>1, <1>4 DEF SourceSays
  <2>3. /\ a \in QuietSteps /\ ~StepFails(d, t, a) /\ Quiet(d, d1, t)
        /\ d1.task[t].status = "pending" /\ d1.task[t].trigger = d.task[t].trigger
        /\ d1.rows[t]["pending"] = 0 /\ d1.rows[t]["paused"] = d.rows[t]["paused"]
    BY <1>1, <2>1, <2>2, TakeOutStep
  <2>4. m = [d |-> Answered(d1, E, t, order), failed |-> FALSE]
    BY <2>1, <2>3, StepThenDoneMove
  <2> HIDE DEF d1
  <2>5. d1.rows[t]["running"] = 0 /\ Edits(d, d1, t) /\ d1.rows[t]["pending"] <= 1
    BY <1>2, <2>2, <2>3 DEF Quiet, Edits
  <2>6. PlainTask(d1, t)
    BY <1>1, <1>2, <2>2, <2>3, <2>5, EditKeepsPlain
  <2>7. OffQueue(d, d1, t, source)
    BY <1>2, <1>4, <2>3, <2>5, <2>6 DEF OffQueue, Shown
  <2> QED
    BY <2>4, <2>7
<1>5. CASE /\ source = "blocked_paused"
           /\ plan = <<"detach_paused", "patch_done", "release_dependents">>
  <2> DEFINE a == "detach_paused"
             d1 == RunStep(d, E, t, a, order)
  <2>1. /\ a \in QuietSteps /\ ~StepFails(d, t, a)
        /\ plan = <<a, "patch_done", "release_dependents">>
    BY <1>5 DEF QuietSteps, StepFails
  <2>2. /\ Quiet(d, d1, t) /\ d1.task[t] = d.task[t]
        /\ d1.rows[t]["pending"] = d.rows[t]["pending"]
        /\ d.rows[t]["paused"] <= 1 => d1.rows[t]["paused"] = 0
    BY DetachPausedStep
  <2> HIDE DEF a
  <2>3. m = [d |-> Answered(d1, E, t, order), failed |-> FALSE]
    BY <2>1, StepThenDoneMove
  <2> HIDE DEF d1
  <2>4. d.task[t].status = "blocked"
    BY <1>1, <1>5 DEF SourceSays
  <2>5. d1.rows[t]["running"] = 0 /\ Edits(d, d1, t) /\ d1.rows[t]["pending"] <= 1
    BY <1>2, <2>2, <2>4 DEF Quiet, Edits
  <2>6. PlainTask(d1, t)
    BY <1>1, <1>2, <2>2, <2>4, <2>5, EditKeepsPlain
  <2>7. OffQueue(d, d1, t, source)
    BY <1>2, <2>2, <2>4, <2>5, <2>6 DEF OffQueue, Shown
  <2> QED
    BY <2>3, <2>7
<1>6. source \notin {"scheduled", "schedule_paused"}
  BY <1>1 DEF SourceSays
<1> QED
  BY <1>3, <1>4, <1>5, <1>6 DEF ToDone

\* So it lands on Done, and nothing of it stays in the queue.
LEMMA PlainToDone ==
  ASSUME NEW d \in DbType, NEW E, NEW t \in Tasks, NEW order \in Orders, NEW queued,
         NEW source, PlainAt(d, t, queued, source),
         NEW plan, ToDone(queued, source, plan)
  PROVE  MovesTo(d, Moved(d, E, t, plan, order), t, source, "done")
<1>1. PICK x : /\ OffQueue(d, x, t, source)
               /\ Moved(d, E, t, plan, order)
                    = [d |-> Answered(x, E, t, order), failed |-> FALSE]
  BY PlainIsAnswered
<1> DEFINE d2 == Answered(x, E, t, order)
<1>2. x \in DbType
  BY <1>1 DEF OffQueue, Quiet, Edits, OnlyTouches
<1>3. PlainTask(d2, t) /\ d2.task[t].status = "done" /\ d2.rows[t] = x.rows[t]
  BY <1>1, <1>2, AnsweredPlain DEF OffQueue
<1>4. Moved(d, E, t, plan, order) = [d |-> d2, failed |-> FALSE]
  BY <1>1
<1> HIDE DEF d2
<1>5. Lands(d2.task[t], "done")
  BY <1>3, LandsByStatus
<1>6. d2.rows[t]["pending"] = 0 /\ (Shown(d, t, source) => d2.rows[t]["paused"] = 0)
  BY <1>1, <1>3 DEF OffQueue
<1> QED
  BY <1>3, <1>4, <1>5, <1>6 DEF MovesTo, PlainOrCron

\* A drop of a running task on Attention leaves the rest to its executor.
LEMMA PlainToAttention ==
  ASSUME NEW d \in DbType, NEW E, NEW t \in Tasks, NEW order, PlainTask(d, t)
  PROVE  PlainOrCron(Moved(d, E, t, <<"pause">>, order).d, t)
<1> DEFINE a == "pause"
<1>1. a \in QuietSteps /\ ~StepFails(d, t, a) /\ RunStep(d, E, t, a, order) = d
  BY DEF QuietSteps, StepFails, RunStep
<1> HIDE DEF a
<1>2. Moved(d, E, t, <<a>>, order) = [d |-> RunStep(d, E, t, a, order), failed |-> FALSE]
  BY <1>1, OneStep
<1>3. Moved(d, E, t, <<a>>, order).d = d
  BY <1>1, <1>2
<1> QED
  BY <1>3 DEF PlainOrCron, a

\* So a plain task stays one through every move, unless it is given a schedule,
\* and lands where it was dropped.
LEMMA PlainMove ==
  ASSUME NEW d \in DbType, NEW E, NEW t \in Tasks, NEW order \in Orders, NEW queued,
         NEW source, PlainAt(d, t, queued, source), NEW to, NEW plan,
         PlanIs(d.task[t], queued, source, to, plan)
  PROVE  /\ PlainOrCron(Moved(d, E, t, plan, order).d, t)
         /\ to # "attention" => MovesTo(d, Moved(d, E, t, plan, order), t, source, to)
<1> DEFINE m == Moved(d, E, t, plan, order)
<1>1. CASE to = "scheduled" /\ ToScheduled(queued, source, plan)
  BY <1>1, PlainToScheduled DEF MovesTo
<1>2. CASE to = "queue" /\ ToQueue(source, plan)
  BY <1>2, PlainToQueue DEF MovesTo
<1>3. CASE to = "backlog" /\ ToBacklog(d.task[t], queued, source, plan)
  BY <1>3, PlainToBacklog DEF MovesTo
<1>4. CASE to = "done" /\ ToDone(queued, source, plan)
  BY <1>4, PlainToDone DEF MovesTo
<1>5. CASE to = "attention" /\ source = "running" /\ plan = <<"pause">>
  BY <1>5, PlainToAttention DEF PlainAt
<1> QED
  BY <1>1, <1>2, <1>3, <1>4, <1>5 DEF PlanIs
=============================================================================
