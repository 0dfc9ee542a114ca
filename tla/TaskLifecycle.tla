---------------------------- MODULE TaskLifecycle ----------------------------
(***************************************************************************)
(* What a bounded pool promises about each task handed to it, without      *)
(* saying how threads, the mutex or the condition variable achieve it.     *)
(*                                                                         *)
(* A task is fresh until somebody submits it.  A submission is accepted    *)
(* while fewer than TasksMax accepted tasks are waiting, and refused only  *)
(* when the queue is full.  An accepted task is started once and ends      *)
(* once; nothing else ever happens to it.                                  *)
(***************************************************************************)
EXTENDS Naturals, FiniteSets

CONSTANTS Tasks,     \* the tasks that may be submitted
          TasksMax   \* how many accepted tasks may wait

VARIABLE fate        \* what has become of each task

Fates == {"fresh", "accepted", "dropped", "running", "done"}

WaitingTasks == {t \in Tasks : fate[t] = "accepted"}

Init == fate = [t \in Tasks |-> "fresh"]

Move(t, from, to) ==
  /\ fate[t] = from
  /\ fate' = [fate EXCEPT ![t] = to]

Accept(t) == Move(t, "fresh", "accepted") /\ Cardinality(WaitingTasks) < TasksMax

Drop(t) == Move(t, "fresh", "dropped") /\ Cardinality(WaitingTasks) = TasksMax

Start(t) == Move(t, "accepted", "running")

Finish(t) == Move(t, "running", "done")

Next == \E t \in Tasks : Accept(t) \/ Drop(t) \/ Start(t) \/ Finish(t)

Spec == Init /\ [][Next]_fate
=============================================================================
