---------------------- MODULE TaskDependencies_proofs ----------------------
(***************************************************************************)
(* The table of dependencies has no cycle, for any tasks and any edits:    *)
(* the order inside a batch and the search behind an edge by hand rule     *)
(* cycles out together, but for tasks that a batch reused.                 *)
(***************************************************************************)
EXTENDS TaskDependencies, WellFoundedInduction, TLAPS

\* The strengthening of EdgesAcyclic that every step preserves: the ends of an
\* edge are tasks of the table, so a new task comes with no edge.
GraphInv ==
  /\ made \subseteq Tasks
  /\ \A e \in edges : e.task \in made /\ e.on \in made
  /\ EdgesAcyclic

\* Some position of a set of positions is the first.
LEMMA FirstPosition ==
  ASSUME NEW P \in SUBSET Nat, P # {}
  PROVE  \E m \in P : \A i \in P : m <= i
<1> DEFINE Less == {p \in Nat \X Nat : p[1] < p[2]}
<1>1. OpToRel(<, Nat) = Less
  BY DEF OpToRel
<1>2. IsWellFoundedOn(Less, Nat)
  BY <1>1, NatLessThanWellFounded, Zenon
<1> HIDE DEF Less
<1>3. PICK m \in P : \A i \in P : <<i, m>> \notin Less
  BY <1>2, WFMin
<1>4. ASSUME NEW i \in P PROVE m <= i
  <2>1. m \in Nat /\ i \in Nat /\ <<i, m>> \in Nat \X Nat
    OBVIOUS
  <2>2. ~(<<i, m>>[1] < <<i, m>>[2])
    BY <1>3, <2>1, Zenon DEF Less
  <2> QED
    BY <2>1, <2>2
<1> QED
  BY <1>3, <1>4

\* The edges of a batch run within the batch; those of its new tasks run to
\* earlier inputs (the check of dependsOnIndexes in createTasks).
LEMMA BatchEdgesGoBack ==
  ASSUME NEW order \in Orders, NEW K \in SUBSET Tasks, NEW e \in BatchEdges(order, K)
  PROVE  /\ e.task \in K /\ e.on \in K
         /\ e.task \notin made =>
              \E i, j \in DOMAIN order : j < i /\ order[i] = e.task /\ order[j] = e.on
  BY DEF BatchEdges

\* A nonempty set of new tasks of a batch has a member with no edge into it.
LEMMA BatchHasFirst ==
  ASSUME NEW order \in Orders, NEW K \in SUBSET Tasks,
         NEW S \in SUBSET (K \ made), S # {}
  PROVE  \E t \in S : \A e \in BatchEdges(order, K) : e.task = t => e.on \notin S
<1> DEFINE P == {i \in DOMAIN order : order[i] \in S}
<1>1. /\ order \in [1 .. Cardinality(Tasks) -> Tasks]
      /\ {order[i] : i \in DOMAIN order} = Tasks
      /\ \A i, j \in DOMAIN order : order[i] = order[j] => i = j
  BY DependencyAssumption
<1>2. P # {} /\ P \in SUBSET Nat
  <2>1. PICK s \in S : TRUE
    OBVIOUS
  <2>2. PICK i \in DOMAIN order : order[i] = s
    BY <2>1, <1>1
  <2> QED
    BY <2>1, <2>2, <1>1
<1>3. PICK m \in P : \A i \in P : m <= i
  BY <1>2, FirstPosition
<1>4. ASSUME NEW e \in BatchEdges(order, K), e.task = order[m], e.on \in S
      PROVE  FALSE
  <2>1. PICK i, j \in DOMAIN order : j < i /\ order[i] = e.task /\ order[j] = e.on
    BY <1>3, <1>4, BatchEdgesGoBack
  <2>2. i = m /\ j \in P
    BY <2>1, <1>1, <1>3, <1>4
  <2> QED
    BY <2>1, <2>2, <1>1, <1>3
<1> QED
  BY <1>3, <1>4

\* A batch of create_tasks adds no cycle but through a task it reuses.
LEMMA BatchKeepsGraph ==
  ASSUME GraphInv, NEW order \in Orders, NEW K \in SUBSET Tasks,
         NEW E \in SUBSET BatchEdges(order, K), AddsBatch(K, E)
  PROVE  GraphInv'
<1>1. made' = made \cup K /\ edges' = edges \cup E
      /\ reused' = reused \cup {t \in K \cap made : EdgesOf(E, t) # {}}
  BY DEF AddsBatch
<1>2. \A e \in E : e.task \in K /\ e.on \in K
  BY BatchEdgesGoBack
<1>3. made' \subseteq Tasks /\ \A e \in edges' : e.task \in made' /\ e.on \in made'
  BY <1>1, <1>2 DEF GraphInv
<1>4. ASSUME NEW S \in SUBSET (Tasks \ reused'), S # {}
      PROVE  \E t \in S : \A e \in EdgesOf(edges', t) : e.on \notin S
  <2> DEFINE Old == S \ (K \ made)
  <2>1. CASE Old # {}
    <3>1. PICK t \in Old : \A e \in EdgesOf(edges, t) : e.on \notin Old
      BY <2>1, <1>1 DEF GraphInv, EdgesAcyclic
    <3>2. \A e \in E : e.task # t
      BY <3>1, <1>1, <1>2 DEF EdgesOf
    <3>3. ASSUME NEW e \in EdgesOf(edges', t) PROVE e.on \notin S
      BY <3>1, <3>2, <1>1 DEF EdgesOf, GraphInv
    <3> QED
      BY <3>3
  <2>2. CASE Old = {}
    <3>1. S \in SUBSET (K \ made)
      BY <2>2
    <3>2. PICK t \in S : \A e \in BatchEdges(order, K) : e.task = t => e.on \notin S
      BY <3>1, <1>4, BatchHasFirst
    <3>3. \A e \in edges : e.task # t
      BY <3>1 DEF GraphInv
    <3> QED
      BY <3>2, <3>3, <1>1 DEF EdgesOf
  <2> QED
    BY <2>1, <2>2
<1> QED
  BY <1>3, <1>4 DEF GraphInv, EdgesAcyclic

\* An edge that addTaskDependencyHandler adds closes no cycle: where its search
\* ends is a set that the new edge only leads into.
LEMMA AddEdgeKeepsGraph ==
  ASSUME GraphInv, NEW t \in Tasks, NEW u \in Tasks, NEW kind, AddEdge(t, u, kind)
  PROVE  GraphInv'
<1> DEFINE new == [task |-> t, on |-> u, requireSuccess |-> kind[1], whileBlocked |-> kind[2]]
<1>1. /\ t \in made /\ u \in made /\ edges' = edges \cup {new}
      /\ made' = made /\ reused' = reused
  BY DEF AddEdge, Exists
<1>2. ~Reaches(edges, u, t)
  BY DEF AddEdge, WouldCreateCycle
<1>3. PICK U \in SUBSET Tasks :
        u \in U /\ t \notin U /\ \A e \in edges : e.task \in U => e.on \in U
  BY <1>2 DEF Reaches
<1>4. ASSUME NEW S \in SUBSET (Tasks \ reused'), S # {}
      PROVE  \E s \in S : \A e \in EdgesOf(edges', s) : e.on \notin S
  <2>1. CASE S \cap U = {}
    <3>1. PICK s \in S : \A e \in EdgesOf(edges, s) : e.on \notin S
      BY <1>1, <1>4 DEF GraphInv, EdgesAcyclic
    <3> QED
      BY <3>1, <2>1, <1>1, <1>3 DEF EdgesOf
  <2>2. CASE S \cap U # {}
    <3>1. PICK s \in S \cap U : \A e \in EdgesOf(edges, s) : e.on \notin S \cap U
      BY <2>2, <1>1 DEF GraphInv, EdgesAcyclic
    <3> QED
      BY <3>1, <1>1, <1>3 DEF EdgesOf
  <2> QED
    BY <2>1, <2>2
<1>5. new.task = t /\ new.on = u
  OBVIOUS
<1> HIDE DEF new
<1>6. made' \subseteq Tasks /\ \A e \in edges' : e.task \in made' /\ e.on \in made'
  BY <1>1, <1>5 DEF GraphInv
<1> QED
  BY <1>4, <1>6 DEF GraphInv, EdgesAcyclic

\* Deleting a task takes its edges with it, and its name may be reused.
LEMMA DeleteKeepsGraph ==
  ASSUME GraphInv, NEW t \in Tasks, Delete(t)
  PROVE  GraphInv'
<1>1. /\ made' = made \ {t} /\ reused' = reused \ {t}
      /\ edges' = {e \in edges : e.task # t /\ e.on # t}
  BY DEF Delete
<1>2. ASSUME NEW S \in SUBSET (Tasks \ reused'), S # {}
      PROVE  \E s \in S : \A e \in EdgesOf(edges', s) : e.on \notin S
  <2>1. CASE t \in S
    BY <2>1, <1>1 DEF EdgesOf
  <2>2. CASE t \notin S
    <3>1. PICK s \in S : \A e \in EdgesOf(edges, s) : e.on \notin S
      BY <2>2, <1>1, <1>2 DEF GraphInv, EdgesAcyclic
    <3> QED
      BY <3>1, <1>1 DEF EdgesOf
  <2> QED
    BY <2>1, <2>2
<1> QED
  BY <1>1, <1>2 DEF GraphInv, EdgesAcyclic

\* Taking a dependency away makes no cycle.
LEMMA RemoveEdgeKeepsGraph ==
  ASSUME GraphInv, NEW e \in edges, RemoveEdge(e)
  PROVE  GraphInv'
<1>1. edges' = edges \ {e} /\ made' = made /\ reused' = reused
  BY DEF RemoveEdge
<1>2. ASSUME NEW S \in SUBSET (Tasks \ reused'), S # {}
      PROVE  \E s \in S : \A f \in EdgesOf(edges', s) : f.on \notin S
  <2>1. PICK s \in S : \A f \in EdgesOf(edges, s) : f.on \notin S
    BY <1>1, <1>2 DEF GraphInv, EdgesAcyclic
  <2> QED
    BY <2>1, <1>1 DEF EdgesOf
<1> QED
  BY <1>1, <1>2 DEF GraphInv, EdgesAcyclic

\* A step of the system adds edges only by a batch of new tasks.
LEMMA BatchStep ==
  ASSUME GraphInv, NEW K \in SUBSET Tasks, Batch(K)
  PROVE  GraphInv'
<1>1. PICK order \in Orders :
        \E E \in SUBSET BatchEdges(order, K) :
          CreateTasks(K, E) \/ \E h \in Tasks : CreateCohort(h, K, E)
  BY DEF Batch
<1>2. PICK E \in SUBSET BatchEdges(order, K) :
        CreateTasks(K, E) \/ \E h \in Tasks : CreateCohort(h, K, E)
  BY <1>1
<1>3. AddsBatch(K, E)
  BY <1>2 DEF CreateTasks, CreateCohort
<1> QED
  BY <1>2, <1>3, BatchKeepsGraph

\* A step that leaves the tables of tasks and edges alone makes no cycle.
LEMMA SameGraphKeepsGraph ==
  ASSUME GraphInv, SameGraph
  PROVE  GraphInv'
  BY DEF GraphInv, SameGraph, EdgesAcyclic, EdgesOf

\* What the queue, its executors, the timers and the tools of a run do.
LEMMA SystemKeepsGraph ==
  ASSUME GraphInv, System
  PROVE  GraphInv'
<1>1. ASSUME NEW K \in SUBSET (Tasks \ made), Batch(K) PROVE GraphInv'
  BY <1>1, BatchStep
<1>2. ASSUME NEW t \in Tasks, Dispatch(t) \/ Fire(t) \/ Detach(t) PROVE GraphInv'
  BY <1>2, SameGraphKeepsGraph DEF Dispatch, Fire, Detach
<1>3. ASSUME NEW t \in Tasks, NEW outcome, NEW ends, NEW order, Finish(t, outcome, ends, order)
      PROVE  GraphInv'
  BY <1>3, SameGraphKeepsGraph DEF Finish
<1> QED
  BY <1>1, <1>2, <1>3 DEF System

\* What users do.
LEMMA UserKeepsGraph ==
  ASSUME GraphInv, User
  PROVE  GraphInv'
<1>1. ASSUME NEW K \in SUBSET Tasks, Batch(K) PROVE GraphInv'
  BY <1>1, BatchStep
<1>2. ASSUME NEW t \in Tasks, RunNow(t) \/ TakeOver(t) PROVE GraphInv'
  BY <1>2, SameGraphKeepsGraph DEF RunNow, TakeOver
<1>3. ASSUME NEW t \in Tasks, Delete(t) PROVE GraphInv'
  BY <1>3, DeleteKeepsGraph
<1>4. ASSUME NEW t \in Tasks, NEW u \in Tasks, NEW kind \in EdgeKinds, AddEdge(t, u, kind)
      PROVE  GraphInv'
  BY <1>4, AddEdgeKeepsGraph
<1>5. ASSUME NEW t \in Tasks, NEW order, Park(t, order) PROVE GraphInv'
  BY <1>5, SameGraphKeepsGraph DEF Park
<1>6. ASSUME NEW t \in Tasks, NEW to, NEW order, Move(t, to, order) PROVE GraphInv'
  BY <1>6, SameGraphKeepsGraph DEF Move
<1>7. ASSUME NEW t \in Tasks, NEW ends, NEW order, Cancel(t, ends, order) PROVE GraphInv'
  BY <1>7, SameGraphKeepsGraph DEF Cancel
<1>8. ASSUME NEW e \in edges, RemoveEdge(e) PROVE GraphInv'
  BY <1>8, RemoveEdgeKeepsGraph
<1> QED
  BY <1>1, <1>2, <1>3, <1>4, <1>5, <1>6, <1>7, <1>8 DEF User

\* Whatever batches are created and edges added, by however many users and runs,
\* no task waits for itself but through a task that a batch reused.
THEOREM GraphStaysAcyclic == Spec => []EdgesAcyclic
<1>1. Init => GraphInv
  BY DependencyAssumption DEF Init, GraphInv, EdgesAcyclic, EdgesOf
<1>2. GraphInv /\ [Next]_vars => GraphInv'
  <2> SUFFICES ASSUME GraphInv, [Next]_vars PROVE GraphInv'
    OBVIOUS
  <2>1. CASE System
    BY <2>1, SystemKeepsGraph
  <2>2. CASE User
    BY <2>2, UserKeepsGraph
  <2>3. CASE UNCHANGED vars
    BY <2>3, SameGraphKeepsGraph DEF vars, SameGraph
  <2> QED
    BY <2>1, <2>2, <2>3 DEF Next
<1>3. GraphInv => EdgesAcyclic
  BY DEF GraphInv
<1> QED
  BY <1>1, <1>2, <1>3, PTL DEF Spec
=============================================================================
