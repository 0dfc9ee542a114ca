------------------------------ MODULE ThreadPool ------------------------------
(***************************************************************************)
(* Ten::ThreadPool (threadpool.h): a fixed set of worker threads, a bounded *)
(* FIFO of tasks under one mutex, one condition variable, and a destructor  *)
(* that stops the workers and joins them.                                   *)
(*                                                                         *)
(* A step is a critical section of _mtx or a call on the condition          *)
(* variable, because notify_one and notify_all are called after the mutex   *)
(* was released and other threads run in between.  A worker inside          *)
(* _condition.wait is "waiting" until a notification, or a spurious wakeup, *)
(* lets it evaluate the predicate again.                                    *)
(*                                                                         *)
(* Endless tasks are the ones the program really runs in its pools: loops   *)
(* that leave only when the process-wide run flag (_TREADPOOL_FLAG_) is     *)
(* cleared.                                                                 *)
(***************************************************************************)
EXTENDS Naturals, Sequences, FiniteSets

CONSTANTS Workers,   \* the ThreadNum threads of the pool
          Callers,   \* the threads that hold a reference to the pool
          Owner,     \* the caller whose scope the pool lives in
          Tasks,     \* tasks, each submitted at most once
          Endless,   \* tasks that loop until the run flag is cleared
          TasksMax,  \* task_max, 10 unless the constructor is told otherwise
          None       \* no task

\* Every pool of the program is made with at least one thread.
ASSUME PoolAssumption ==
  /\ IsFiniteSet(Workers) /\ Workers # {}
  /\ IsFiniteSet(Callers)
  /\ IsFiniteSet(Tasks)
  /\ Owner \in Callers
  /\ Endless \subseteq Tasks
  /\ TasksMax \in Nat
  /\ None \notin Tasks

VARIABLES tasks,     \* _tasks
          stop,      \* _stop
          worker,    \* where each worker is
          current,   \* the task a running worker executes
          caller,    \* where each caller is
          runFlag,   \* _TREADPOOL_FLAG_
          fate       \* history: what has become of each task

vars == <<tasks, stop, worker, current, caller, runFlag, fate>>

WorkerStates == {"check", "waiting", "running", "returned"}
CallerStates == {"idle", "notify_one", "notify_all", "join", "gone"}

WorkersAt(s) == {w \in Workers : worker[w] = s}
CallersAt(s) == {c \in Callers : caller[c] = s}
Queued == {tasks[i] : i \in 1..Len(tasks)}

Init ==
  /\ tasks = <<>>
  /\ stop = FALSE
  /\ worker = [w \in Workers |-> "check"]
  /\ current = [w \in Workers |-> None]
  /\ caller = [c \in Callers |-> "idle"]
  /\ runFlag = TRUE
  /\ fate = [t \in Tasks |-> "fresh"]
-----------------------------------------------------------------------------
(* enqueue: the push under the mutex, and the notification after it.       *)

EnqueuePushUnbounded(c, t) ==
  /\ caller[c] = "idle"
  /\ fate[t] = "fresh"
  /\ Len(tasks) <= TasksMax
  /\ tasks' = Append(tasks, t)
  /\ fate' = [fate EXCEPT ![t] = "accepted"]
  /\ caller' = [caller EXCEPT ![c] = "notify_one"]
  /\ UNCHANGED <<stop, worker, current, runFlag>>

EnqueuePushNotifyWhenEmpty(c, t) ==
  /\ caller[c] = "idle"
  /\ fate[t] = "fresh"
  /\ Len(tasks) < TasksMax
  /\ tasks' = Append(tasks, t)
  /\ fate' = [fate EXCEPT ![t] = "accepted"]
  /\ caller' = [caller EXCEPT ![c] = IF tasks = <<>> THEN "notify_one" ELSE "idle"]
  /\ UNCHANGED <<stop, worker, current, runFlag>>

EnqueuePush(c, t) ==
  /\ caller[c] = "idle"
  /\ fate[t] = "fresh"
  /\ Len(tasks) < TasksMax
  /\ tasks' = Append(tasks, t)
  /\ fate' = [fate EXCEPT ![t] = "accepted"]
  /\ caller' = [caller EXCEPT ![c] = "notify_one"]
  /\ UNCHANGED <<stop, worker, current, runFlag>>

EnqueueFullOneEarly(c, t) ==
  /\ caller[c] = "idle"
  /\ fate[t] = "fresh"
  /\ Len(tasks) + 1 >= TasksMax
  /\ fate' = [fate EXCEPT ![t] = "dropped"]
  /\ UNCHANGED <<tasks, stop, worker, current, caller, runFlag>>

\* The new task is the one refused; the function returns without notifying.
EnqueueFull(c, t) ==
  /\ caller[c] = "idle"
  /\ fate[t] = "fresh"
  /\ Len(tasks) >= TasksMax
  /\ fate' = [fate EXCEPT ![t] = "dropped"]
  /\ UNCHANGED <<tasks, stop, worker, current, caller, runFlag>>

NotifyOne(c) ==
  /\ caller[c] = "notify_one"
  /\ caller' = [caller EXCEPT ![c] = "idle"]
  /\ \/ /\ WorkersAt("waiting") = {}
        /\ UNCHANGED worker
     \/ \E w \in WorkersAt("waiting") : worker' = [worker EXCEPT ![w] = "check"]
  /\ UNCHANGED <<tasks, stop, current, runFlag, fate>>
-----------------------------------------------------------------------------
(* The worker loop.                                                        *)

WorkerWait(w) ==
  /\ worker[w] = "check"
  /\ tasks = <<>>
  /\ ~stop
  /\ worker' = [worker EXCEPT ![w] = "waiting"]
  /\ UNCHANGED <<tasks, stop, current, caller, runFlag, fate>>

WorkerReturnAtOnce(w) ==
  /\ worker[w] = "check"
  /\ stop
  /\ worker' = [worker EXCEPT ![w] = "returned"]
  /\ UNCHANGED <<tasks, stop, current, caller, runFlag, fate>>

WorkerReturn(w) ==
  /\ worker[w] = "check"
  /\ stop
  /\ tasks = <<>>
  /\ worker' = [worker EXCEPT ![w] = "returned"]
  /\ UNCHANGED <<tasks, stop, current, caller, runFlag, fate>>

WorkerTakeNoPop(w) ==
  /\ worker[w] = "check"
  /\ tasks # <<>>
  /\ worker' = [worker EXCEPT ![w] = "running"]
  /\ current' = [current EXCEPT ![w] = Head(tasks)]
  /\ fate' = [fate EXCEPT ![Head(tasks)] = "running"]
  /\ UNCHANGED <<tasks, stop, caller, runFlag>>

WorkerTake(w) ==
  /\ worker[w] = "check"
  /\ tasks # <<>>
  /\ worker' = [worker EXCEPT ![w] = "running"]
  /\ current' = [current EXCEPT ![w] = Head(tasks)]
  /\ tasks' = Tail(tasks)
  /\ fate' = [fate EXCEPT ![Head(tasks)] = "running"]
  /\ UNCHANGED <<stop, caller, runFlag>>

WorkerFinish(w) ==
  /\ worker[w] = "running"
  /\ current[w] \in Endless => ~runFlag
  /\ worker' = [worker EXCEPT ![w] = "check"]
  /\ current' = [current EXCEPT ![w] = None]
  /\ fate' = [fate EXCEPT ![current[w]] = "done"]
  /\ UNCHANGED <<tasks, stop, caller, runFlag>>

\* std::condition_variable may return without a notification.
SpuriousWakeup(w) ==
  /\ worker[w] = "waiting"
  /\ worker' = [worker EXCEPT ![w] = "check"]
  /\ UNCHANGED <<tasks, stop, current, caller, runFlag, fate>>
-----------------------------------------------------------------------------
(* ~ThreadPool, run by the owner when the pool leaves its scope.  The other *)
(* callers are between two calls then: using the pool later is using a     *)
(* destroyed object.                                                       *)

DestroyStop ==
  /\ \A c \in Callers : caller[c] = "idle"
  /\ stop' = TRUE
  /\ caller' = [c \in Callers |-> IF c = Owner THEN "notify_all" ELSE "gone"]
  /\ UNCHANGED <<tasks, worker, current, runFlag, fate>>

DestroyNotifyOne ==
  /\ caller[Owner] = "notify_all"
  /\ caller' = [caller EXCEPT ![Owner] = "join"]
  /\ \/ /\ WorkersAt("waiting") = {}
        /\ UNCHANGED worker
     \/ \E w \in WorkersAt("waiting") : worker' = [worker EXCEPT ![w] = "check"]
  /\ UNCHANGED <<tasks, stop, current, runFlag, fate>>

DestroyNotifyAll ==
  /\ caller[Owner] = "notify_all"
  /\ caller' = [caller EXCEPT ![Owner] = "join"]
  /\ worker' = [w \in Workers |-> IF worker[w] = "waiting" THEN "check" ELSE worker[w]]
  /\ UNCHANGED <<tasks, stop, current, runFlag, fate>>

DestroyJoin ==
  /\ caller[Owner] = "join"
  /\ \A w \in Workers : worker[w] = "returned"
  /\ caller' = [caller EXCEPT ![Owner] = "gone"]
  /\ UNCHANGED <<tasks, stop, worker, current, runFlag, fate>>

\* The SIGINT handler (merge.cpp) clears the run flag.
ClearRunFlag ==
  /\ runFlag
  /\ runFlag' = FALSE
  /\ UNCHANGED <<tasks, stop, worker, current, caller, fate>>

CallerStep(c) ==
  \/ \E t \in Tasks : EnqueuePush(c, t) \/ EnqueueFull(c, t)
  \/ NotifyOne(c)

WorkerStep(w) == WorkerWait(w) \/ WorkerReturn(w) \/ WorkerTake(w) \/ WorkerFinish(w)

Destroy == DestroyStop \/ DestroyNotifyAll \/ DestroyJoin

Next ==
  \/ \E c \in Callers : CallerStep(c)
  \/ \E w \in Workers : WorkerStep(w) \/ SpuriousWakeup(w)
  \/ Destroy
  \/ ClearRunFlag

Spec == Init /\ [][Next]_vars

(* A worker that can run does so, and a call that was begun returns.  No    *)
(* caller has to submit anything, nobody has to clear the run flag or to    *)
(* destroy the pool, and no wakeup is spurious on demand.                   *)
Fairness ==
  /\ \A w \in Workers : WF_vars(WorkerStep(w))
  /\ \A c \in Callers : WF_vars(NotifyOne(c))
  /\ WF_vars(DestroyNotifyAll)
  /\ WF_vars(DestroyJoin)

FairSpec == Spec /\ Fairness
-----------------------------------------------------------------------------
(* The types, and the bound the constructor sets: tasks that arrive faster  *)
(* than they are run do not make the queue grow past _tasks_max.            *)
TypeOK ==
  /\ tasks \in Seq(Tasks)
  /\ Len(tasks) <= TasksMax
  /\ stop \in BOOLEAN
  /\ worker \in [Workers -> WorkerStates]
  /\ current \in [Workers -> Tasks \cup {None}]
  /\ caller \in [Callers -> CallerStates]
  /\ runFlag \in BOOLEAN
  /\ fate \in [Tasks -> {"fresh", "accepted", "dropped", "running", "done"}]

(* Every accepted task sits exactly once in the queue or in the hands of    *)
(* exactly one worker, whatever way pushes, takes and the destructor        *)
(* interleave: no task is lost between queue and worker or run twice.       *)
TasksAccountedFor ==
  /\ \A i, j \in 1..Len(tasks) : tasks[i] = tasks[j] => i = j
  /\ \A t \in Tasks : fate[t] = "accepted" <=> t \in Queued
  /\ \A t \in Tasks : fate[t] = "running" <=> \E w \in Workers : current[w] = t
  /\ \A v, w \in Workers : current[v] = current[w] /\ current[v] # None => v = w
  /\ \A w \in Workers : current[w] # None <=> worker[w] = "running"

(* While a worker sleeps, every waiting task has a worker on its way to the *)
(* queue or a notification that is still to be sent: notifying after the    *)
(* unlock never leaves a task behind sleeping workers.                     *)
NoLostWakeup ==
  WorkersAt("waiting") # {} =>
    Len(tasks) <= Cardinality(WorkersAt("check")) + Cardinality(CallersAt("notify_one"))

(* Once the destructor has called notify_all no worker sleeps again, and a  *)
(* worker has returned only if nothing was left to run: the join cannot     *)
(* wait for a sleeping thread, and stopping drops no accepted task.         *)
ShutdownDrains ==
  /\ caller[Owner] \in {"join", "gone"} => WorkersAt("waiting") = {}
  /\ WorkersAt("returned") # {} => stop /\ tasks = <<>>
  /\ caller[Owner] = "gone" => \A t \in Tasks : fate[t] \in {"fresh", "dropped", "done"}

(* Every task that was accepted is run, while fewer endless tasks than      *)
(* workers exist or once the run flag is down.                              *)
AcceptedTasksRun ==
  \A t \in Tasks : fate[t] = "accepted" ~> fate[t] \in {"running", "done"}

(* After the run flag was cleared the destructor always returns.            *)
DestructorReturns == (stop /\ ~runFlag) ~> (caller[Owner] = "gone")

(* What the repository's README says of the pool ("when the queue is longer *)
(* than the threshold the oldest task is discarded automatically"): a call  *)
(* that meets a full queue puts its task in and throws the head out.  The   *)
(* code refuses the new task and keeps the old ones.                        *)
OldestIsDiscarded ==
  [][\A t \in Tasks :
       fate[t] = "fresh" /\ fate'[t] # "fresh" /\ Len(tasks) >= TasksMax
         => tasks' = Append(Tail(tasks), t)]_vars

Lifecycle == INSTANCE TaskLifecycle

(* Threads, mutex and condition variable together keep the promise of       *)
(* TaskLifecycle.                                                           *)
KeepsLifecycle == Lifecycle!Spec
=============================================================================
