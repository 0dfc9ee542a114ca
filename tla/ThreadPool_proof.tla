--------------------------- MODULE ThreadPool_proof ---------------------------
(***************************************************************************)
(* Proofs about ThreadPool, for every number of workers, callers and tasks. *)
(***************************************************************************)
EXTENDS ThreadPool, FiniteSetTheorems, TLAPS

\* The case split every invariance proof below goes through.
LEMMA NextCases ==
  ASSUME [Next]_vars
  PROVE  \/ \E c \in Callers, t \in Tasks : EnqueuePush(c, t)
         \/ \E c \in Callers, t \in Tasks : EnqueueFull(c, t)
         \/ \E c \in Callers : NotifyOne(c)
         \/ \E w \in Workers : WorkerWait(w)
         \/ \E w \in Workers : WorkerReturn(w)
         \/ \E w \in Workers : WorkerTake(w)
         \/ \E w \in Workers : WorkerFinish(w)
         \/ \E w \in Workers : SpuriousWakeup(w)
         \/ DestroyStop
         \/ DestroyNotifyAll
         \/ DestroyJoin
         \/ ClearRunFlag
         \/ UNCHANGED vars
BY Zenon DEF Next, CallerStep, WorkerStep, Destroy

(* The queue never exceeds task_max and every variable keeps its type.      *)
THEOREM TypeCorrect == Spec => []TypeOK
<1>1. Init => TypeOK
  <2> SUFFICES ASSUME Init PROVE TypeOK
    OBVIOUS
  <2>1. tasks \in Seq(Tasks) /\ Len(tasks) <= TasksMax
    BY PoolAssumption DEF PoolAssumption, Init
  <2>2. stop \in BOOLEAN /\ runFlag \in BOOLEAN
    BY DEF Init
  <2>3. worker \in [Workers -> WorkerStates] /\ caller \in [Callers -> CallerStates]
    BY DEF Init, WorkerStates, CallerStates
  <2>4. /\ current \in [Workers -> Tasks \cup {None}]
        /\ fate \in [Tasks -> {"fresh", "accepted", "dropped", "running", "done"}]
    BY DEF Init
  <2>5. QED
    BY <2>1, <2>2, <2>3, <2>4 DEF TypeOK
<1>2. TypeOK /\ [Next]_vars => TypeOK'
  <2> SUFFICES ASSUME TypeOK, [Next]_vars PROVE TypeOK'
    OBVIOUS
  <2> USE PoolAssumption DEF PoolAssumption, TypeOK, WorkerStates, CallerStates
  <2>1. CASE \E c \in Callers, t \in Tasks : EnqueuePush(c, t)
    BY <2>1 DEF EnqueuePush
  <2>2. CASE \E c \in Callers, t \in Tasks : EnqueueFull(c, t)
    BY <2>2 DEF EnqueueFull
  <2>3. CASE \E c \in Callers : NotifyOne(c)
    BY <2>3 DEF NotifyOne
  <2>4. CASE \E w \in Workers : WorkerWait(w)
    BY <2>4 DEF WorkerWait
  <2>5. CASE \E w \in Workers : WorkerReturn(w)
    BY <2>5 DEF WorkerReturn
  <2>6. CASE \E w \in Workers : WorkerTake(w)
    BY <2>6 DEF WorkerTake
  <2>7. CASE \E w \in Workers : WorkerFinish(w)
    BY <2>7 DEF WorkerFinish
  <2>8. CASE \E w \in Workers : SpuriousWakeup(w)
    BY <2>8 DEF SpuriousWakeup
  <2>9. CASE DestroyStop
    BY <2>9 DEF DestroyStop
  <2>10. CASE DestroyNotifyAll
    BY <2>10 DEF DestroyNotifyAll
  <2>11. CASE DestroyJoin
    BY <2>11 DEF DestroyJoin
  <2>12. CASE ClearRunFlag
    BY <2>12 DEF ClearRunFlag
  <2>13. CASE UNCHANGED vars
    BY <2>13 DEF vars
  <2>14. QED
    BY <2>1, <2>2, <2>3, <2>4, <2>5, <2>6, <2>7, <2>8, <2>9, <2>10, <2>11,
       <2>12, <2>13, NextCases
<1>3. QED
  BY <1>1, <1>2, PTL DEF Spec
-----------------------------------------------------------------------------
\* Moving one element of a finite set to another place in a function changes
\* the number of elements at a place by one.
LEMMA LeavesPlace ==
  ASSUME NEW D, IsFiniteSet(D), NEW f, NEW g, NEW x \in D, NEW s,
         f[x] = s, g[x] # s, \A y \in D \ {x} : g[y] = f[y]
  PROVE  /\ Cardinality({y \in D : f[y] = s}) \in Nat
         /\ Cardinality({y \in D : g[y] = s}) = Cardinality({y \in D : f[y] = s}) - 1
<1> DEFINE F == {y \in D : f[y] = s}
           G == {y \in D : g[y] = s}
<1>1. IsFiniteSet(F)
  BY FS_Subset, F \in SUBSET D
<1>2. G = F \ {x} /\ x \in F
  OBVIOUS
<1>3. QED
  BY <1>1, <1>2, FS_RemoveElement, FS_CardinalityType

LEMMA EntersPlace ==
  ASSUME NEW D, IsFiniteSet(D), NEW f, NEW g, NEW x \in D, NEW s,
         f[x] # s, g[x] = s, \A y \in D \ {x} : g[y] = f[y]
  PROVE  /\ Cardinality({y \in D : f[y] = s}) \in Nat
         /\ Cardinality({y \in D : g[y] = s}) = Cardinality({y \in D : f[y] = s}) + 1
<1> DEFINE F == {y \in D : f[y] = s}
           G == {y \in D : g[y] = s}
<1>1. IsFiniteSet(F)
  BY FS_Subset, F \in SUBSET D
<1>2. G = F \cup {x} /\ x \notin F
  OBVIOUS
<1>3. QED
  BY <1>1, <1>2, FS_AddElement, FS_CardinalityType

LEMMA PlaceCounts ==
  /\ \A s : Cardinality(WorkersAt(s)) \in Nat
  /\ \A s : Cardinality(CallersAt(s)) \in Nat
<1>1. \A s : WorkersAt(s) \in SUBSET Workers /\ CallersAt(s) \in SUBSET Callers
  BY DEF WorkersAt, CallersAt
<1>2. QED
  BY <1>1, PoolAssumption, FS_Subset, FS_CardinalityType DEF PoolAssumption

(* A notification sent after the unlock is never lost while it is needed:   *)
(* at any time there are enough workers on their way, or notifications      *)
(* still to be sent, for every task that waits.                             *)
THEOREM WakeupsSuffice == Spec => []NoLostWakeup
<1>1. Init => NoLostWakeup
  BY PlaceCounts DEF Init, NoLostWakeup, WorkersAt
<1>2. TypeOK /\ NoLostWakeup /\ [Next]_vars => NoLostWakeup'
  <2> SUFFICES ASSUME TypeOK, NoLostWakeup, [Next]_vars PROVE NoLostWakeup'
    OBVIOUS
  <2> DEFINE S == WorkersAt("waiting")
             C == Cardinality(WorkersAt("check"))
             N == Cardinality(CallersAt("notify_one"))
  <2>0. C \in Nat /\ N \in Nat /\ C' \in Nat /\ N' \in Nat
    <3>1. /\ WorkersAt("check") \in SUBSET Workers
          /\ CallersAt("notify_one") \in SUBSET Callers
          /\ WorkersAt("check")' \in SUBSET Workers
          /\ CallersAt("notify_one")' \in SUBSET Callers
      BY DEF WorkersAt, CallersAt
    <3>2. QED
      BY <3>1, PoolAssumption, FS_Subset, FS_CardinalityType DEF PoolAssumption
  <2>1. ASSUME NEW c \in Callers, NEW t \in Tasks, EnqueuePush(c, t)
        PROVE  NoLostWakeup'
    <3>1. N' = N + 1
      BY <2>1, EntersPlace, PoolAssumption
      DEF EnqueuePush, CallersAt, TypeOK, PoolAssumption
    <3>2. Len(tasks') = Len(tasks) + 1 /\ S' = S /\ WorkersAt("check")' = WorkersAt("check")
      BY <2>1 DEF EnqueuePush, TypeOK, WorkersAt
    <3>3. QED
      BY <2>0, <3>1, <3>2 DEF NoLostWakeup, TypeOK
  <2>2. ASSUME NEW c \in Callers, NEW t \in Tasks, EnqueueFull(c, t)
        PROVE  NoLostWakeup'
    BY <2>2 DEF EnqueueFull, NoLostWakeup, WorkersAt, CallersAt
  <2>3. ASSUME NEW c \in Callers, NotifyOne(c)
        PROVE  NoLostWakeup'
    <3>1. N' = N - 1 /\ tasks' = tasks
      BY <2>3, LeavesPlace, PoolAssumption
      DEF NotifyOne, CallersAt, TypeOK, PoolAssumption
    <3>2. CASE S = {} /\ UNCHANGED worker
      BY <3>2 DEF NoLostWakeup, WorkersAt
    <3>3. ASSUME NEW w \in S, worker' = [worker EXCEPT ![w] = "check"]
          PROVE  NoLostWakeup'
      <4>1. w \in Workers /\ worker[w] = "waiting"
        BY <3>3 DEF WorkersAt
      <4>2. C' = C + 1
        BY <3>3, <4>1, EntersPlace, PoolAssumption DEF WorkersAt, TypeOK, PoolAssumption
      <4>3. S # {}
        BY <3>3
      <4>4. QED
        BY <2>0, <3>1, <4>2, <4>3 DEF NoLostWakeup, TypeOK
    <3>4. QED
      BY <2>3, <3>2, <3>3 DEF NotifyOne
  <2>4. ASSUME NEW w \in Workers, WorkerWait(w) \/ WorkerReturn(w)
        PROVE  NoLostWakeup'
    <3>1. Len(tasks') = 0
      BY <2>4 DEF WorkerWait, WorkerReturn
    <3>2. QED
      BY <2>0, <3>1 DEF NoLostWakeup
  <2>5. ASSUME NEW w \in Workers, WorkerTake(w)
        PROVE  NoLostWakeup'
    <3>1. C' = C - 1
      <4>1. /\ WorkersAt("check")' = WorkersAt("check") \ {w}
            /\ w \in WorkersAt("check")
        BY <2>5 DEF WorkerTake, WorkersAt, TypeOK
      <4>2. IsFiniteSet(WorkersAt("check"))
        BY PoolAssumption, FS_Subset, WorkersAt("check") \in SUBSET Workers
        DEF WorkersAt, PoolAssumption
      <4>3. QED
        BY <4>1, <4>2, FS_RemoveElement
    <3>2. Len(tasks') = Len(tasks) - 1
      BY <2>5 DEF WorkerTake, TypeOK
    <3>3. S' = S /\ CallersAt("notify_one")' = CallersAt("notify_one")
      BY <2>5 DEF WorkerTake, TypeOK, WorkersAt, CallersAt
    <3>4. QED
      BY <2>0, <3>1, <3>2, <3>3 DEF NoLostWakeup, TypeOK
  <2>6. ASSUME NEW w \in Workers, WorkerFinish(w) \/ SpuriousWakeup(w)
        PROVE  NoLostWakeup'
    <3>1. C' = C + 1
      BY <2>6, EntersPlace, PoolAssumption
      DEF WorkerFinish, SpuriousWakeup, WorkersAt, TypeOK, PoolAssumption
    <3>2. tasks' = tasks /\ CallersAt("notify_one")' = CallersAt("notify_one")
      BY <2>6 DEF WorkerFinish, SpuriousWakeup, CallersAt
    <3>3. S' \subseteq S
      BY <2>6 DEF WorkerFinish, SpuriousWakeup, WorkersAt, TypeOK
    <3>4. QED
      BY <2>0, <3>1, <3>2, <3>3 DEF NoLostWakeup, TypeOK
  <2>7. CASE DestroyStop
    <3>1. CallersAt("notify_one")' = CallersAt("notify_one")
      BY <2>7 DEF DestroyStop, CallersAt, TypeOK
    <3>2. QED
      BY <2>7, <3>1 DEF DestroyStop, NoLostWakeup, WorkersAt
  <2>8. CASE DestroyNotifyAll
    BY <2>8 DEF DestroyNotifyAll, NoLostWakeup, WorkersAt, TypeOK
  <2>9. CASE DestroyJoin
    <3>1. CallersAt("notify_one")' = CallersAt("notify_one")
      BY <2>9, PoolAssumption DEF DestroyJoin, CallersAt, TypeOK, PoolAssumption
    <3>2. QED
      BY <2>9, <3>1 DEF DestroyJoin, NoLostWakeup, WorkersAt
  <2>10. CASE ClearRunFlag \/ UNCHANGED vars
    BY <2>10 DEF ClearRunFlag, vars, NoLostWakeup, WorkersAt, CallersAt
  <2>11. QED
    BY <2>1, <2>2, <2>3, <2>4, <2>5, <2>6, <2>7, <2>8, <2>9, <2>10, NextCases
<1>3. QED
  BY <1>1, <1>2, TypeCorrect, PTL DEF Spec
-----------------------------------------------------------------------------
LEMMA QueueSteps ==
  ASSUME NEW q \in Seq(Tasks)
  PROVE  /\ q # <<>> =>
              /\ Head(q) = q[1]
              /\ Len(Tail(q)) = Len(q) - 1
              /\ \A i \in 1..Len(Tail(q)) : Tail(q)[i] = q[i + 1]
         /\ \A t \in Tasks :
              /\ Len(Append(q, t)) = Len(q) + 1
              /\ \A i \in 1..Len(q) : Append(q, t)[i] = q[i]
              /\ Append(q, t)[Len(q) + 1] = t
OBVIOUS

(* Each accepted task is in exactly one place.                              *)
THEOREM EveryTaskAccountedFor == Spec => []TasksAccountedFor
<1>1. Init => TasksAccountedFor
  BY PoolAssumption DEF Init, TasksAccountedFor, Queued, PoolAssumption
<1>2. TypeOK /\ TasksAccountedFor /\ [Next]_vars => TasksAccountedFor'
  <2> SUFFICES ASSUME TypeOK, TasksAccountedFor, [Next]_vars PROVE TasksAccountedFor'
    OBVIOUS
  <2>1. ASSUME NEW c \in Callers, NEW t \in Tasks, EnqueuePush(c, t)
        PROVE  TasksAccountedFor'
    <3>1. t \notin Queued
      BY <2>1 DEF EnqueuePush, TasksAccountedFor
    <3>2. /\ Len(tasks') = Len(tasks) + 1
          /\ \A i \in 1..Len(tasks) : tasks'[i] = tasks[i]
          /\ tasks'[Len(tasks) + 1] = t
          /\ Len(tasks) \in Nat
      BY <2>1, QueueSteps DEF EnqueuePush, TypeOK
    <3>3. Queued' = Queued \cup {t}
      BY <3>2 DEF Queued
    <3>4. \A i, j \in 1..Len(tasks') : tasks'[i] = tasks'[j] => i = j
      BY <3>1, <3>2 DEF Queued, TasksAccountedFor
    <3>5. \A u \in Tasks : fate'[u] = "accepted" <=> u \in Queued'
      BY <2>1, <3>3 DEF EnqueuePush, TasksAccountedFor, TypeOK
    <3>6. \A u \in Tasks : fate'[u] = "running" <=> \E w \in Workers : current'[w] = u
      BY <2>1 DEF EnqueuePush, TasksAccountedFor, TypeOK
    <3>7. QED
      BY <2>1, <3>4, <3>5, <3>6 DEF EnqueuePush, TasksAccountedFor
  <2>2. ASSUME NEW c \in Callers, NEW t \in Tasks, EnqueueFull(c, t)
        PROVE  TasksAccountedFor'
    <3>1. Queued' = Queued
      BY <2>2 DEF EnqueueFull, Queued
    <3>2. \A u \in Tasks : /\ fate'[u] = "accepted" <=> fate[u] = "accepted"
                           /\ fate'[u] = "running" <=> fate[u] = "running"
      BY <2>2 DEF EnqueueFull, TypeOK
    <3>3. QED
      BY <2>2, <3>1, <3>2 DEF EnqueueFull, TasksAccountedFor
  <2>3. ASSUME NEW w \in Workers, WorkerTake(w)
        PROVE  TasksAccountedFor'
    <3> DEFINE t == Head(tasks)
    <3>1. /\ Len(tasks) \in Nat \ {0}
          /\ t = tasks[1]
          /\ t \in Tasks
          /\ Len(tasks') = Len(tasks) - 1
          /\ \A i \in 1..Len(tasks') : tasks'[i] = tasks[i + 1]
      BY <2>3, QueueSteps DEF WorkerTake, TypeOK
    <3>2. Queued' = Queued \ {t} /\ t \in Queued
      <4>1. \A i \in 1..Len(tasks) : tasks[i] = t => i = 1
        BY <3>1 DEF TasksAccountedFor
      <4>2. t \in Queued
        BY <3>1 DEF Queued
      <4>3. Queued' \subseteq Queued \ {t}
        BY <3>1, <4>1 DEF Queued
      <4>4. ASSUME NEW u \in Queued \ {t} PROVE u \in Queued'
        <5>1. PICK i \in 1..Len(tasks) : tasks[i] = u
          BY DEF Queued
        <5>2. i - 1 \in 1..Len(tasks') /\ tasks'[i - 1] = u
          BY <3>1, <5>1
        <5>3. QED
          BY <5>2 DEF Queued
      <4>5. QED
        BY <4>2, <4>3, <4>4
    <3>3. \A i, j \in 1..Len(tasks') : tasks'[i] = tasks'[j] => i = j
      BY <3>1 DEF TasksAccountedFor
    <3>4. \A u \in Tasks : fate'[u] = "accepted" <=> u \in Queued'
      BY <2>3, <3>1, <3>2 DEF WorkerTake, TasksAccountedFor, TypeOK
    <3>5. /\ \A v \in Workers : current[v] # t
          /\ current[w] = None
          /\ current' = [current EXCEPT ![w] = t]
          /\ worker' = [worker EXCEPT ![w] = "running"]
          /\ t # None
      BY <2>3, <3>1, <3>2, PoolAssumption
      DEF WorkerTake, TasksAccountedFor, TypeOK, PoolAssumption
    <3>6. \A u \in Tasks : fate'[u] = "running" <=> \E v \in Workers : current'[v] = u
      BY <2>3, <3>1, <3>5, PoolAssumption
      DEF WorkerTake, TasksAccountedFor, TypeOK, PoolAssumption
    <3>7. /\ \A v, x \in Workers : current'[v] = current'[x] /\ current'[v] # None => v = x
          /\ \A v \in Workers : current'[v] # None <=> worker'[v] = "running"
      BY <3>5 DEF TasksAccountedFor, TypeOK
    <3>8. QED
      BY <3>3, <3>4, <3>6, <3>7 DEF TasksAccountedFor
  <2>4. ASSUME NEW w \in Workers, WorkerFinish(w)
        PROVE  TasksAccountedFor'
    <3> DEFINE t == current[w]
    <3>1. t \in Tasks /\ t # None
      BY <2>4 DEF WorkerFinish, TasksAccountedFor, TypeOK
    <3>2. Queued' = Queued /\ tasks' = tasks
      BY <2>4 DEF WorkerFinish, Queued
    <3>3. t \notin Queued /\ \A v \in Workers \ {w} : current[v] # t
      BY <3>1 DEF TasksAccountedFor
    <3>4. \A u \in Tasks : fate'[u] = "accepted" <=> u \in Queued'
      BY <2>4, <3>1, <3>2, <3>3 DEF WorkerFinish, TasksAccountedFor, TypeOK
    <3>5. \A u \in Tasks : fate'[u] = "running" <=> \E v \in Workers : current'[v] = u
      BY <2>4, <3>1, <3>3, PoolAssumption
      DEF WorkerFinish, TasksAccountedFor, TypeOK, PoolAssumption
    <3>6. /\ \A v, x \in Workers : current'[v] = current'[x] /\ current'[v] # None => v = x
          /\ \A v \in Workers : current'[v] # None <=> worker'[v] = "running"
      BY <2>4 DEF WorkerFinish, TasksAccountedFor, TypeOK
    <3>7. QED
      BY <3>2, <3>4, <3>5, <3>6 DEF TasksAccountedFor
  \* Every other step leaves the queue, the tasks in hand and the fates alone,
  \* and moves no worker into or out of "running".
  <2>5. ASSUME UNCHANGED <<tasks, current, fate>>,
               \A w \in Workers : worker'[w] = "running" <=> worker[w] = "running"
        PROVE  TasksAccountedFor'
    BY <2>5 DEF TasksAccountedFor, Queued
  <2>6. CASE \E c \in Callers : NotifyOne(c)
    BY <2>5, <2>6 DEF NotifyOne, WorkersAt, TypeOK
  <2>7. CASE \E w \in Workers : WorkerWait(w) \/ WorkerReturn(w) \/ SpuriousWakeup(w)
    BY <2>5, <2>7 DEF WorkerWait, WorkerReturn, SpuriousWakeup, TypeOK
  <2>8. CASE DestroyStop \/ DestroyJoin \/ ClearRunFlag \/ UNCHANGED vars
    BY <2>5, <2>8 DEF DestroyStop, DestroyJoin, ClearRunFlag, vars
  <2>9. CASE DestroyNotifyAll
    BY <2>5, <2>9 DEF DestroyNotifyAll, TypeOK
  <2>10. QED
    BY <2>1, <2>2, <2>3, <2>4, <2>6, <2>7, <2>8, <2>9, NextCases
<1>3. QED
  BY <1>1, <1>2, TypeCorrect, PTL DEF Spec
-----------------------------------------------------------------------------
\* What ShutdownDrains needs to be inductive: how far the destructor is decides
\* what the callers can still do, and the join waits for every worker.
DestructorPhase ==
  /\ stop <=> caller[Owner] \in {"notify_all", "join", "gone"}
  /\ \A c \in Callers : ~stop => caller[c] \in {"idle", "notify_one"}
  /\ \A c \in Callers \ {Owner} : stop => caller[c] = "gone"
  /\ caller[Owner] = "gone" => \A w \in Workers : worker[w] = "returned"
  /\ \A w \in Workers : worker[w] = "waiting" => caller[Owner] \notin {"join", "gone"}
  /\ \A w \in Workers : worker[w] = "returned" => stop /\ tasks = <<>>

LEMMA DestructorPhases == Spec => []DestructorPhase
<1>1. Init => DestructorPhase
  BY PoolAssumption DEF Init, DestructorPhase, PoolAssumption
<1>2. TypeOK /\ DestructorPhase /\ [Next]_vars => DestructorPhase'
  <2> SUFFICES ASSUME TypeOK, DestructorPhase, [Next]_vars PROVE DestructorPhase'
    OBVIOUS
  <2>0. Owner \in Callers
    BY PoolAssumption DEF PoolAssumption
  <2> USE <2>0 DEF DestructorPhase, TypeOK
  <2>1. CASE \E c \in Callers, t \in Tasks : EnqueuePush(c, t) \/ EnqueueFull(c, t)
    BY <2>1 DEF EnqueuePush, EnqueueFull
  <2>2. CASE \E c \in Callers : NotifyOne(c)
    <3>1. PICK c \in Callers : NotifyOne(c)
      BY <2>2
    <3>2. ~stop /\ caller[Owner] \in {"idle", "notify_one"}
      BY <3>1 DEF NotifyOne
    <3>3. \A v \in Workers : worker'[v] # "returned"
      BY <3>1, <3>2 DEF NotifyOne, WorkersAt
    <3>4. \A d \in Callers : caller'[d] \in {"idle", "notify_one"}
      BY <3>1, <3>2 DEF NotifyOne
    <3>5. QED
      BY <3>1, <3>2, <3>3, <3>4 DEF NotifyOne
  <2>3. CASE \E w \in Workers : WorkerWait(w)
    BY <2>3 DEF WorkerWait
  <2>4. CASE \E w \in Workers : WorkerReturn(w)
    BY <2>4 DEF WorkerReturn
  <2>5. CASE \E w \in Workers : WorkerTake(w)
    BY <2>5 DEF WorkerTake
  <2>6. CASE \E w \in Workers : WorkerFinish(w)
    BY <2>6 DEF WorkerFinish
  <2>7. CASE \E w \in Workers : SpuriousWakeup(w)
    BY <2>7 DEF SpuriousWakeup
  <2>8. CASE DestroyStop
    BY <2>8 DEF DestroyStop
  <2>9. CASE DestroyNotifyAll
    BY <2>9 DEF DestroyNotifyAll
  <2>10. CASE DestroyJoin
    BY <2>10 DEF DestroyJoin
  <2>11. CASE ClearRunFlag \/ UNCHANGED vars
    BY <2>11 DEF ClearRunFlag, vars
  <2>12. QED
    BY <2>1, <2>2, <2>3, <2>4, <2>5, <2>6, <2>7, <2>8, <2>9, <2>10, <2>11, NextCases
<1>3. QED
  BY <1>1, <1>2, TypeCorrect, PTL DEF Spec

(* The destructor never joins a sleeping worker, and returns with every     *)
(* accepted task done.                                                      *)
THEOREM ShutdownIsClean == Spec => []ShutdownDrains
<1>1. TypeOK /\ TasksAccountedFor /\ DestructorPhase => ShutdownDrains
  <2> SUFFICES ASSUME TypeOK, TasksAccountedFor, DestructorPhase PROVE ShutdownDrains
    OBVIOUS
  <2>1. caller[Owner] \in {"join", "gone"} => WorkersAt("waiting") = {}
    BY DEF DestructorPhase, WorkersAt
  <2>2. WorkersAt("returned") # {} => stop /\ tasks = <<>>
    BY DEF DestructorPhase, WorkersAt
  <2>3. ASSUME caller[Owner] = "gone", NEW t \in Tasks
        PROVE  fate[t] \in {"fresh", "dropped", "done"}
    <3>1. tasks = <<>> /\ \A w \in Workers : worker[w] = "returned"
      BY <2>3, PoolAssumption DEF DestructorPhase, PoolAssumption
    <3>2. fate[t] # "accepted"
      BY <3>1 DEF TasksAccountedFor, Queued
    <3>3. fate[t] # "running"
      BY <3>1, PoolAssumption DEF TasksAccountedFor, PoolAssumption
    <3>4. QED
      BY <3>2, <3>3 DEF TypeOK
  <2>4. QED
    BY <2>1, <2>2, <2>3 DEF ShutdownDrains
<1>2. QED
  BY <1>1, TypeCorrect, EveryTaskAccountedFor, DestructorPhases, PTL
-----------------------------------------------------------------------------
LEMMA SameCardinality == \A S : Lifecycle!Cardinality(S) = Cardinality(S)
BY DEF Cardinality, Lifecycle!Cardinality

LEMMA QueueSize ==
  ASSUME TypeOK, TasksAccountedFor
  PROVE  Lifecycle!Cardinality(Lifecycle!WaitingTasks) = Len(tasks)
<1> DEFINE D == 1..Len(tasks)
           f == [i \in D |-> tasks[i]]
<1>1. Lifecycle!WaitingTasks = Queued
  BY DEF Lifecycle!WaitingTasks, TasksAccountedFor, Queued, TypeOK
<1>2. f \in Bijection(D, Queued)
  BY DEF Bijection, Injection, Surjection, Queued, TasksAccountedFor, TypeOK, IsInjective
<1>3. IsFiniteSet(D) /\ Cardinality(D) = Len(tasks)
  <2>1. PICK n \in Nat : n = Len(tasks)
    BY DEF TypeOK
  <2>2. IsFiniteSet(1..n) /\ Cardinality(1..n) = IF 1 > n THEN 0 ELSE n - 1 + 1
    BY ONLY FS_Interval, n \in Int, 1 \in Int
  <2>3. Cardinality(1..n) = n
    BY ONLY <2>2, n \in Nat
  <2>4. QED
    BY <2>1, <2>2, <2>3
<1>4. ExistsBijection(D, Queued)
  BY <1>2 DEF ExistsBijection
<1>5. QED
  BY <1>1, <1>3, <1>4, FS_Bijection, SameCardinality

(* Every behaviour of the pool is one TaskLifecycle allows.                 *)
THEOREM PoolKeepsLifecycle == Spec => KeepsLifecycle
<1> USE DEF Lifecycle!Move
<1>1. Init => Lifecycle!Init
  BY DEF Init, Lifecycle!Init
<1>2. TypeOK /\ TasksAccountedFor /\ [Next]_vars => [Lifecycle!Next]_fate
  <2> SUFFICES ASSUME TypeOK, TasksAccountedFor, [Next]_vars PROVE [Lifecycle!Next]_fate
    OBVIOUS
  <2>1. Lifecycle!Cardinality(Lifecycle!WaitingTasks) = Len(tasks)
    BY QueueSize
  <2>2. ASSUME NEW c \in Callers, NEW t \in Tasks, EnqueuePush(c, t)
        PROVE  Lifecycle!Accept(t)
    <3>1. fate[t] = "fresh" /\ fate' = [fate EXCEPT ![t] = "accepted"] /\ Len(tasks) < TasksMax
      BY <2>2 DEF EnqueuePush
    <3>2. QED
      BY <2>1, <3>1 DEF Lifecycle!Accept
  <2>3. ASSUME NEW c \in Callers, NEW t \in Tasks, EnqueueFull(c, t)
        PROVE  Lifecycle!Drop(t)
    <3>1. Len(tasks) = TasksMax
      BY <2>3, PoolAssumption DEF EnqueueFull, TypeOK, PoolAssumption
    <3>2. QED
      BY <2>1, <2>3, <3>1 DEF EnqueueFull, Lifecycle!Drop
  <2>4. ASSUME NEW w \in Workers, WorkerTake(w)
        PROVE  Head(tasks) \in Tasks /\ Lifecycle!Start(Head(tasks))
    <3>1. Head(tasks) \in Tasks /\ Head(tasks) \in Queued
      BY <2>4, QueueSteps DEF WorkerTake, TypeOK, Queued
    <3>2. QED
      BY <2>4, <3>1 DEF WorkerTake, TasksAccountedFor, Lifecycle!Start
  <2>5. ASSUME NEW w \in Workers, WorkerFinish(w)
        PROVE  current[w] \in Tasks /\ Lifecycle!Finish(current[w])
    <3>1. current[w] \in Tasks
      BY <2>5 DEF WorkerFinish, TasksAccountedFor, TypeOK
    <3>2. QED
      BY <2>5, <3>1 DEF WorkerFinish, TasksAccountedFor, Lifecycle!Finish
  <2>6. CASE \/ \E c \in Callers : NotifyOne(c)
             \/ \E w \in Workers : WorkerWait(w) \/ WorkerReturn(w) \/ SpuriousWakeup(w)
             \/ DestroyStop \/ DestroyNotifyAll \/ DestroyJoin \/ ClearRunFlag
             \/ UNCHANGED vars
    BY <2>6 DEF NotifyOne, WorkerWait, WorkerReturn, SpuriousWakeup, DestroyStop,
                DestroyNotifyAll, DestroyJoin, ClearRunFlag, vars
  <2>7. QED
    BY <2>2, <2>3, <2>4, <2>5, <2>6, NextCases DEF Lifecycle!Next
<1>3. QED
  BY <1>1, <1>2, TypeCorrect, EveryTaskAccountedFor, PTL
  DEF Spec, KeepsLifecycle, Lifecycle!Spec
=============================================================================
