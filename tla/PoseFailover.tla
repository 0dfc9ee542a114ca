---------------------------- MODULE PoseFailover ----------------------------
(***************************************************************************)
(* Which pose R2 sends.  Point-LIO (laserMapping) queues odometry; the     *)
(* sender (controlR2::serial_send_lidarR2_ekf_imu_withprotected) filters   *)
(* it, places it in the field's frame and sends it; the monitor            *)
(* (tf_monitorR2) compares each message of Fast-LIO with the newest of     *)
(* Point-LIO and decides whose x and y are sent.  The console restarts     *)
(* Point-LIO (lidarrestartCallbackR2), the MCU has the field's frame       *)
(* calibrated (calibration2).  They meet only in flags.                    *)
(*                                                                         *)
(* Of a pose the model keeps the calibrations its frame and its initial    *)
(* error stem from.  Of the queue of odometry it keeps count_, access by   *)
(* access: that alone decides who waits, and a clear that meets a pop       *)
(* wraps it around.  Which message comes out is RcuQueue's question.       *)
(* Fast-LIO is the environment.                                            *)
(***************************************************************************)
EXTENDS Integers

CONSTANTS MaxQueue,     \* size of _TF_GET_
          CountMod,     \* its count_ counts modulo this, 2^64 in the code
          MaxEvents     \* bound: restarts, calibrations and disagreements of the odometries

ASSUME FailoverAssumption ==
  MaxQueue \in Nat \ {0} /\ CountMod \in Nat /\ CountMod > MaxQueue
  /\ MaxEvents \in Nat

VARIABLES flag,       \* the ThreadPool_flags, by the names in Flags
          lio,        \* laserMapping: its place, flg_reset
          count_,     \* of _TF_GET_
          sender,     \* the sender: its place, the frame it has computed a pose in
          monitor,    \* the monitor: likewise
          script,     \* the console's callback
          receiver,   \* calibration2
          frame,      \* world2toworld1_: which calibration set it
          error,      \* _r2_xyzrpy_init_error_xyz_: which calibration zeroed it
          xy,         \* _r2_x_, _r2_y_, _r2_z_: frame and error they were computed with
          events,     \* of those, how many may still come
          owed        \* history: a restart asked for and not yet begun

vars == <<flag, lio, count_, sender, monitor, script, receiver, frame, error, xy, events, owed>>

\* _TREADPOOL_FLAG_, _LASERMAPPING_FLAG_, _POINT_LIO_RUN_FLAG_ and
\* _POINT_LIO_CHANGE_FLAG_.
Flags == {"run", "restart", "point", "change"}

Init ==
  /\ flag = [f \in Flags |-> TRUE]
  /\ lio = [at |-> "look", reset |-> FALSE] /\ count_ = 0
  /\ sender = [at |-> "outer", frame |-> 0] /\ monitor = [at |-> "idle", frame |-> 0]
  /\ script = "idle" /\ receiver = "idle"
  /\ frame = 0 /\ error = 0 /\ xy = [frame |-> 0, error |-> 0]
  /\ events = MaxEvents
  /\ owed = TRUE

Set(f, value) == flag' = [flag EXCEPT ![f] = value]

Decremented == (count_ + CountMod - 1) % CountMod

Happens == events > 0 /\ events' = events - 1

\* What the steps of one thread leave alone.
OnlyLio      == UNCHANGED <<sender, monitor, script, receiver, frame, error, xy, events>>
OnlySender   == UNCHANGED <<lio, monitor, script, receiver, frame, error, events, owed>>
OnlyMonitor  == UNCHANGED <<lio, sender, script, receiver, frame, error, count_, owed>>
OnlyScript   == UNCHANGED <<lio, count_, sender, monitor, receiver, frame, error, xy>>
OnlyReceiver == UNCHANGED <<lio, count_, sender, monitor, script, xy, owed>>
-----------------------------------------------------------------------------
(* laserMapping.                                                           *)

LioAt(from, to) == lio.at = from /\ lio' = [lio EXCEPT !.at = to] /\ OnlyLio

LioLook ==
  /\ lio.at = "look" /\ flag["run"]
  /\ lio' = [lio EXCEPT !.at = "scan", !.reset = flag["restart"]]
  /\ OnlyLio /\ UNCHANGED <<flag, count_, owed>>

LioEnd == LioAt("look", "gone") /\ ~flag["run"] /\ UNCHANGED <<flag, count_, owed>>

\* Mutant: a round that found no scan lowers the request.
LioWaitLowering ==
  /\ lio.at = "scan"
  /\ lio' = [lio EXCEPT !.at = "look", !.reset = FALSE]
  /\ OnlyLio /\ Set("restart", FALSE) /\ UNCHANGED <<count_, owed>>

\* sync_packages has no scan yet.
LioWait ==
  /\ lio.at = "scan"
  /\ lio' = [lio EXCEPT !.at = "look", !.reset = FALSE]
  /\ OnlyLio /\ UNCHANGED <<flag, count_, owed>>

LioScan == LioAt("scan", "publish") /\ ~lio.reset /\ UNCHANGED <<flag, count_, owed>>

\* A scan, and flg_reset: the filter and the map start afresh.
LioReset ==
  /\ lio.at = "scan" /\ lio.reset
  /\ lio' = [at |-> "lower", reset |-> FALSE]
  /\ owed' = FALSE
  /\ OnlyLio /\ UNCHANGED <<flag, count_>>

LioLower == LioAt("lower", "clear") /\ Set("restart", FALSE) /\ UNCHANGED <<count_, owed>>

\* The last store of clear.
LioClear == LioAt("clear", "publish") /\ count_' = 0 /\ UNCHANGED <<flag, owed>>

\* publish_odometry, which pushes; a full queue drops its oldest message.
LioPublish ==
  /\ LioAt("publish", IF count_ >= MaxQueue THEN "drop" ELSE "count")
  /\ UNCHANGED <<flag, count_, owed>>

\* Mutant: the count is signed.
LioDropSigned == LioAt("drop", "count") /\ count_' = count_ - 1 /\ UNCHANGED <<flag, owed>>

LioDrop == LioAt("drop", "count") /\ count_' = Decremented /\ UNCHANGED <<flag, owed>>

LioCount ==
  /\ LioAt("count", "look") /\ count_' = (count_ + 1) % CountMod
  /\ UNCHANGED <<flag, owed>>

\* Until Point-LIO is initialised again a scan yields no odometry.
LioSkip == LioAt("publish", "look") /\ UNCHANGED <<flag, count_, owed>>
-----------------------------------------------------------------------------
(* The sender.                                                             *)

SenderAt(from, to) == sender.at = from /\ sender' = [sender EXCEPT !.at = to] /\ OnlySender

\* A new filter; the run flag is raised whoever lowered it.  The pause of
\* 100 ms before is left out: ros::Rate skips it after a long round.
SenderBegin == SenderAt("outer", "look") /\ flag["run"] /\ Set("point", TRUE) /\ UNCHANGED <<count_, xy>>

SenderEnd == SenderAt("outer", "gone") /\ ~flag["run"] /\ UNCHANGED <<flag, count_, xy>>

SenderLook ==
  /\ SenderAt("look", IF flag["point"] /\ flag["run"] THEN "pop" ELSE "outer")
  /\ UNCHANGED <<flag, count_, xy>>

\* Nothing queued: back to the test of the flags.
SenderEmpty == SenderAt("pop", "look") /\ count_ = 0 /\ UNCHANGED <<flag, count_, xy>>

SenderPop == SenderAt("pop", "take") /\ count_ # 0 /\ UNCHANGED <<flag, count_, xy>>

SenderTake == SenderAt("take", "place") /\ count_' = Decremented /\ UNCHANGED <<flag, xy>>

\* A pose that is no number, or not newer than the last, is skipped.
SenderSkip == SenderAt("take", "look") /\ count_' = Decremented /\ UNCHANGED <<flag, xy>>

\* getXYZRPY_incline.
SenderPlace ==
  /\ sender.at = "place"
  /\ sender' = [at |-> "send", frame |-> frame]
  /\ OnlySender /\ UNCHANGED <<flag, count_, xy>>

\* While Point-LIO's x and y count they are stored; what is stored is sent.
SenderSend ==
  /\ sender.at = "send" /\ sender' = [at |-> "look", frame |-> 0] /\ OnlySender
  /\ xy' = IF flag["change"] THEN [frame |-> sender.frame, error |-> error] ELSE xy
  /\ UNCHANGED <<flag, count_>>
-----------------------------------------------------------------------------
(* The monitor, from the arrival of a message of Fast-LIO.                 *)

MonitorAt(from, to) == monitor.at = from /\ monitor' = [monitor EXCEPT !.at = to] /\ OnlyMonitor

\* While Point-LIO does not run, Fast-LIO's own pose is sent, and nothing stored.
MonitorBegin ==
  /\ MonitorAt("idle", IF flag["point"] THEN "latest" ELSE "again") /\ flag["run"]
  /\ UNCHANGED <<flag, xy, events>>

MonitorEnd == MonitorAt("idle", "gone") /\ ~flag["run"] /\ UNCHANGED <<flag, xy, events>>

\* Mutant: the wait does not look at the flag of the program.
MonitorLatestOnly ==
  /\ MonitorAt("latest", "compare") /\ count_ # 0
  /\ UNCHANGED <<flag, xy, events>>

\* It waits for a message of Point-LIO, or for the end of the program.
MonitorLatest ==
  /\ MonitorAt("latest", "compare") /\ (count_ # 0 \/ ~flag["run"])
  /\ UNCHANGED <<flag, xy, events>>

\* More than 1 m apart, the sender is told to start over.
MonitorFar ==
  /\ MonitorAt("compare", "judge") /\ Happens
  /\ Set("point", FALSE) /\ UNCHANGED xy

\* Fast-LIO's x and y count while the robot is slow.
MonitorJudge ==
  /\ monitor.at \in {"compare", "judge"} /\ monitor' = [monitor EXCEPT !.at = "again"]
  /\ OnlyMonitor /\ \E fast \in BOOLEAN : Set("change", fast)
  /\ UNCHANGED <<xy, events>>

MonitorAgain ==
  /\ MonitorAt("again", IF flag["point"] /\ ~flag["change"] THEN "place" ELSE "idle")
  /\ UNCHANGED <<flag, xy, events>>

MonitorPlace ==
  /\ monitor.at = "place"
  /\ monitor' = [at |-> "store", frame |-> frame]
  /\ OnlyMonitor /\ UNCHANGED <<flag, xy, events>>

MonitorStore ==
  /\ monitor.at = "store" /\ monitor' = [at |-> "idle", frame |-> 0] /\ OnlyMonitor
  /\ xy' = [frame |-> monitor.frame, error |-> error]
  /\ UNCHANGED <<flag, events>>
-----------------------------------------------------------------------------
(* lidarrestartCallbackR2 and calibration2.                                *)

ScriptAt(from, to) == script = from /\ script' = to /\ OnlyScript

\* A request that comes after the reset has begun and before it lowers the
\* flag is lost: it owes nothing.
AskRestart ==
  /\ ScriptAt("idle", "lower_point") /\ flag["run"] /\ Happens
  /\ Set("restart", TRUE)
  /\ owed' = (owed \/ lio.at # "lower")

ScriptLowerPoint ==
  /\ ScriptAt("lower_point", "idle") /\ Set("point", FALSE) /\ UNCHANGED <<events, owed>>

ReceiverAt(from, to) == receiver = from /\ receiver' = to /\ OnlyReceiver

Calibrate ==
  /\ ReceiverAt("idle", "zero") /\ flag["run"] /\ Happens
  /\ frame' = frame + 1
  /\ UNCHANGED <<flag, error>>

\* Mutant: the error of the frame before is kept.
ReceiverKeep == ReceiverAt("zero", "idle") /\ UNCHANGED <<flag, frame, error, events>>

\* (A parameter set may store other errors: the operator sends it before.)
ReceiverZero ==
  /\ ReceiverAt("zero", "idle") /\ error' = frame
  /\ UNCHANGED <<flag, frame, events>>
-----------------------------------------------------------------------------
\* Nothing is asked for after the end.
Shutdown ==
  /\ flag["run"] /\ Set("run", FALSE) /\ events' = 0
  /\ UNCHANGED <<lio, count_, sender, monitor, script, receiver, frame, error, xy, owed>>

LioStep == LioLook \/ LioEnd \/ LioWait \/ LioScan \/ LioReset \/ LioLower \/ LioClear
             \/ LioPublish \/ LioDrop \/ LioCount \/ LioSkip
SenderStep == SenderBegin \/ SenderEnd \/ SenderLook \/ SenderEmpty \/ SenderPop
                \/ SenderTake \/ SenderSkip \/ SenderPlace \/ SenderSend
MonitorStep == MonitorBegin \/ MonitorEnd \/ MonitorLatest \/ MonitorFar \/ MonitorJudge
                 \/ MonitorAgain \/ MonitorPlace \/ MonitorStore
RequestStep == ScriptLowerPoint \/ ReceiverZero

Next ==
  \/ LioStep \/ SenderStep \/ MonitorStep
  \/ AskRestart \/ Calibrate \/ RequestStep \/ Shutdown

Spec == Init /\ [][Next]_vars

(* The threads run; scans, of which some yield odometry that can be used,   *)
(* and messages of Fast-LIO go on arriving.                                *)
FairSpec ==
  /\ Spec
  /\ WF_vars(LioStep) /\ SF_vars(LioScan \/ LioReset) /\ SF_vars(LioPublish)
  /\ WF_vars(SenderStep) /\ SF_vars(SenderTake)
  /\ WF_vars(MonitorStep) /\ SF_vars(MonitorLatest)
  /\ WF_vars(RequestStep)
-----------------------------------------------------------------------------
(* Properties.                                                             *)

TypeOK ==
  /\ flag \in [Flags -> BOOLEAN]
  /\ lio \in [at : {"look", "scan", "lower", "clear", "publish", "drop", "count", "gone"},
              reset : BOOLEAN]
  /\ count_ \in 0..(CountMod - 1)
  /\ sender \in [at : {"outer", "look", "pop", "take", "place", "send", "gone"},
                 frame : Nat]
  /\ monitor \in [at : {"idle", "latest", "compare", "judge", "again", "place", "store", "gone"},
                  frame : Nat]
  /\ script \in {"idle", "lower_point"} /\ receiver \in {"idle", "zero"}
  /\ frame \in Nat /\ error \in Nat /\ xy \in [frame : Nat, error : Nat]
  /\ events \in 0..MaxEvents /\ owed \in BOOLEAN

\* A restart that is asked for at any time but during a reset is carried out.
RestartIsServed == owed ~> (~owed \/ ~flag["run"])

\* When no more calibrations come, the x and y that are sent come to be, and
\* stay, in the last frame with the error of that frame, whoever stores them.
CalibrationReachesPose ==
  <>[](flag["run"] => xy = [frame |-> frame, error |-> frame])

\* When the program ends, Point-LIO, the sender and the monitor end, also
\* where one is waiting for another.
ThreadsEnd ==
  ~flag["run"] ~> (lio.at = "gone" /\ sender.at = "gone" /\ monitor.at = "gone")
=============================================================================
