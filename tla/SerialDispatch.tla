--------------------------- MODULE SerialDispatch ---------------------------
(***************************************************************************)
(* The receiver thread of R2 (controlR2::serial_receiver): it carries out  *)
(* the MCU's frames, and starts the two services the MCU can ask for in a  *)
(* pool of its own: "tag", which sends the pose of an AprilTag (frame 6,   *)
(* apriltag.cpp), and "kfs", which watches a camera until an object is     *)
(* gone and then says so (frame 8, kfs_detector.cpp).  A service has no    *)
(* handle: it runs until it happens to see its flag lowered.               *)
(*                                                                         *)
(* The pool is TaskLifecycle's, with as many running tasks as it has       *)
(* threads.  A step of a task is one look at the flags or one frame.       *)
(***************************************************************************)
EXTENDS Integers, FiniteSets

CONSTANTS Copies,    \* bound: a set 1..n, the tasks that may be enqueued
          Workers,   \* threads of the pool: 4
          TasksMax   \* tasks that may wait in it: 10

Services == {"tag", "kfs"}

ASSUME DispatchAssumption ==
  /\ Copies \subseteq Nat /\ IsFiniteSet(Copies)
  /\ Workers \in Nat \ {0} /\ TasksMax \in Nat /\ TasksMax >= 2

VARIABLES run,       \* _TREADPOOL_FLAG_
          flag,      \* _APRILTAG_FLAG_, _KFS_DECTECTOR_FLAG_
          request,   \* pool_request
          receiver,  \* where serial_receiver is, and for which service
          fate,      \* the pool: what has become of each copy
          copy,      \* each copy: its service, its place, flag_is_run of "kfs"
          patient    \* the MCU starts a service only when the last copy has ended

vars == <<run, flag, request, receiver, fate, copy, patient>>

Pool == INSTANCE TaskLifecycle WITH Tasks <- Copies

Init ==
  /\ run = TRUE /\ patient \in BOOLEAN
  /\ flag = [s \in Services |-> FALSE] /\ request = [s \in Services |-> FALSE]
  /\ receiver = [at |-> "idle", service |-> "tag"]
  /\ Pool!Init
  /\ copy = [c \in Copies |-> [service |-> "tag", at |-> "none", gone |-> FALSE]]

Active(s) == {c \in Copies : fate[c] \in {"accepted", "running"} /\ copy[c].service = s}
-----------------------------------------------------------------------------
(* serial_receiver.                                                        *)

Receives == receiver.at = "idle" /\ run

At(where, s) == receiver' = [at |-> where, service |-> s]

\* Mutant: a start enqueues the service whatever has been requested.
StartAnew(s) ==
  /\ Receives /\ \E c \in Copies : fate[c] = "fresh"
  /\ patient => (Active(s) = {} \/ request[s])
  /\ flag' = [flag EXCEPT ![s] = TRUE]
  /\ At("enqueue", s)
  /\ UNCHANGED <<run, request, fate, copy, patient>>

\* The first start since a stop raises the flag and enqueues the service;
\* another start, with whatever camera, changes nothing.
Start(s) ==
  /\ Receives /\ ~request[s] /\ \E c \in Copies : fate[c] = "fresh"
  /\ patient => Active(s) = {}
  /\ flag' = [flag EXCEPT ![s] = TRUE]
  /\ At("enqueue", s)
  /\ UNCHANGED <<run, request, fate, copy, patient>>

\* pool_request is set whether or not the pool took the task.
Enqueue ==
  /\ receiver.at = "enqueue"
  /\ \E c \in Copies :
       /\ \A d \in Copies : d < c => fate[d] # "fresh"
       /\ Pool!Accept(c) \/ Pool!Drop(c)
       /\ copy' = [copy EXCEPT ![c].service = receiver.service]
  /\ request' = [request EXCEPT ![receiver.service] = TRUE]
  /\ At("idle", receiver.service)
  /\ UNCHANGED <<run, flag, patient>>

\* A stop lowers the flag, started or not, and is acknowledged.
Stop(s) ==
  /\ Receives
  /\ flag' = [flag EXCEPT ![s] = FALSE]
  /\ At("acknowledge", s)
  /\ UNCHANGED <<run, request, fate, copy, patient>>

\* Mutant: the request outlives the stop.
AcknowledgeOnly ==
  /\ receiver.at = "acknowledge" /\ At("idle", receiver.service)
  /\ UNCHANGED <<run, flag, request, fate, copy, patient>>

Acknowledge ==
  /\ receiver.at = "acknowledge"
  /\ request' = [request EXCEPT ![receiver.service] = FALSE]
  /\ At("idle", receiver.service)
  /\ UNCHANGED <<run, flag, fate, copy, patient>>

\* When the program ends the pool's destructor waits for every task in it.
Leave ==
  /\ receiver.at = "idle" /\ ~run
  /\ \A s \in Services : Active(s) = {}
  /\ At("gone", receiver.service)
  /\ UNCHANGED <<run, flag, request, fate, copy, patient>>
-----------------------------------------------------------------------------
(* serial_send of apriltag.cpp and kfs_detector_controller.                *)

\* Mutant: a service looks at its own flag only.
WantedByFlag(c) == flag[copy[c].service]

Wanted(c) == flag[copy[c].service] /\ run

Goes(c, where) == copy' = [copy EXCEPT ![c].at = where]

\* Mutant: a service starts in the loop that sends.
BeginReporting(c) ==
  /\ Cardinality({d \in Copies : fate[d] = "running"}) < Workers
  /\ Pool!Start(c) /\ Goes(c, "report")
  /\ UNCHANGED <<run, flag, request, receiver, patient>>

Begin(c) ==
  /\ Cardinality({d \in Copies : fate[d] = "running"}) < Workers
  /\ Pool!Start(c)
  /\ Goes(c, IF copy[c].service = "kfs" THEN "watch" ELSE "report")
  /\ UNCHANGED <<run, flag, request, receiver, patient>>

\* "kfs", first loop: one image; it is left when the object is gone, and
\* also when the flag is seen lowered.
Watch(c) ==
  /\ fate[c] = "running" /\ copy[c].at = "watch"
  /\ IF Wanted(c) /\ ~copy[c].gone
       THEN \E g \in BOOLEAN : copy' = [copy EXCEPT ![c].gone = g]
       ELSE Goes(c, "report")
  /\ UNCHANGED <<run, flag, request, receiver, fate, patient>>

\* Mutant: a copy that ends is left running.
LookAtWork(c) ==
  /\ fate[c] = "running" /\ copy[c].at = "report"
  /\ Goes(c, IF Wanted(c) THEN "send" ELSE "gone")
  /\ UNCHANGED <<run, flag, request, receiver, fate, patient>>

\* The loop that sends: a look at the flags, and then a frame.
Look(c) ==
  /\ fate[c] = "running" /\ copy[c].at = "report"
  /\ IF Wanted(c) THEN Goes(c, "send") /\ UNCHANGED fate
                  ELSE Goes(c, "none") /\ Pool!Finish(c)
  /\ UNCHANGED <<run, flag, request, receiver, patient>>

\* A frame ("tag" sends none if the image is empty or the pose no number).
Send(c) ==
  /\ fate[c] = "running" /\ copy[c].at = "send"
  /\ Goes(c, "report")
  /\ UNCHANGED <<run, flag, request, receiver, fate, patient>>
-----------------------------------------------------------------------------
Shutdown == run /\ run' = FALSE /\ UNCHANGED <<flag, request, receiver, fate, copy, patient>>

Work(c) == Begin(c) \/ Watch(c) \/ Look(c) \/ Send(c)
Handle == Enqueue \/ Acknowledge \/ Leave

Next ==
  \/ \E s \in Services : Start(s) \/ Stop(s)
  \/ Handle
  \/ \E c \in Copies : Work(c)
  \/ Shutdown

Spec == Init /\ [][Next]_vars

\* The threads run; the MCU sends what and when it likes.
FairSpec == Spec /\ WF_vars(Handle) /\ \A c \in Copies : WF_vars(Work(c))
-----------------------------------------------------------------------------
(* Properties.                                                             *)

TypeOK ==
  /\ run \in BOOLEAN /\ patient \in BOOLEAN
  /\ flag \in [Services -> BOOLEAN] /\ request \in [Services -> BOOLEAN]
  /\ receiver \in [at : {"idle", "enqueue", "acknowledge", "gone"}, service : Services]
  /\ fate \in [Copies -> Pool!Fates]
  /\ copy \in [Copies -> [service : Services, at : {"none", "watch", "report", "send"},
                          gone : BOOLEAN]]

\* A service the MCU starts again only after its last copy has ended is never
\* there twice, and never refused by the pool.
OneCopy ==
  patient => /\ \A s \in Services : Cardinality(Active(s)) <= 1
             /\ \A c \in Copies : fate[c] # "dropped"

\* With such an MCU the object is reported gone only by a copy that saw it go.
\* (A stop and a start in quick succession make the first loop of the old copy
\* end and the second one send.)
ReportedWasSeen ==
  patient => \A c \in Copies : copy[c].service = "kfs" /\ copy[c].at = "send" => copy[c].gone

\* pool_request tells the truth: the receiver takes a service for started
\* while a copy is in the pool, or, the program running, the pool refused it.
RequestIsTrue ==
  receiver.at = "idle" =>
    \A s \in Services :
      /\ request[s] = flag[s]
      /\ request[s] /\ run => \E c \in Copies : /\ copy[c].service = s
                                                /\ fate[c] \in {"accepted", "running", "dropped"}

\* When the program ends the receiver's pool lets it go, copies without a
\* handle or an owner included.
ShutdownLeaves == ~run ~> receiver.at = "gone"
=============================================================================
