------------------------- MODULE PoseFailover_proof -------------------------
(***************************************************************************)
(* Proofs about PoseFailover, for any queue size and any number of         *)
(* restarts, calibrations and disagreements.                               *)
(***************************************************************************)
EXTENDS PoseFailover, TLAPS

LEMMA CountIn ==
  ASSUME count_ \in 0..(CountMod - 1)
  PROVE  Decremented \in 0..(CountMod - 1) /\ (count_ + 1) % CountMod \in 0..(CountMod - 1)
BY FailoverAssumption DEF FailoverAssumption, Decremented

LEMMA TypeInit == Init => TypeOK
  BY FailoverAssumption DEF FailoverAssumption, Init, TypeOK, Flags

LEMMA TypeStep == TypeOK /\ [Next]_vars => TypeOK'
<1> SUFFICES ASSUME TypeOK, [Next]_vars PROVE TypeOK'
  OBVIOUS
<1> USE FailoverAssumption DEF FailoverAssumption, TypeOK
<1>1. CASE LioStep
  <2> USE DEF OnlyLio, LioAt, Set, Flags
  <2>1. CASE LioLook
    <3>1. flag["restart"] \in BOOLEAN OBVIOUS
    <3>2. \E b \in BOOLEAN : lio' = [lio EXCEPT !.at = "scan", !.reset = b]
      BY <2>1, <3>1 DEF LioLook
    <3>3. lio' \in [at : {"look", "scan", "lower", "clear", "publish", "drop", "count", "gone"},
                    reset : BOOLEAN]
      BY <3>2
    <3> QED BY <2>1, <3>3 DEF LioLook
  <2>2. CASE LioEnd BY <2>2 DEF LioEnd
  <2>3. CASE LioWait BY <2>3 DEF LioWait
  <2>4. CASE LioScan BY <2>4 DEF LioScan
  <2>5. CASE LioReset
    <3>1. lio' \in [at : {"look", "scan", "lower", "clear", "publish", "drop", "count", "gone"},
                    reset : BOOLEAN]
      BY <2>5 DEF LioReset
    <3>2. owed' = FALSE /\ UNCHANGED <<flag, count_>> BY <2>5 DEF LioReset
    <3> QED BY <2>5, <3>1, <3>2 DEF LioReset
  <2>6. CASE LioLower BY SMTT(30), <2>6 DEF LioLower
  <2>7. CASE LioClear BY <2>7 DEF LioClear
  <2>8. CASE LioSkip BY <2>8 DEF LioSkip
  <2>9. CASE LioPublish BY SMTT(30), <2>9 DEF LioPublish
  <2>10. CASE LioDrop BY <2>10, CountIn DEF LioDrop
  <2>11. CASE LioCount BY <2>11, CountIn DEF LioCount
  <2> QED BY <1>1, <2>1, <2>2, <2>3, <2>4, <2>5, <2>6, <2>7, <2>8, <2>9, <2>10, <2>11
        DEF LioStep
<1>2. CASE SenderStep
  <2> USE DEF OnlySender, SenderAt, Set, Flags
  <2>1. CASE SenderBegin BY SMTT(30), <2>1 DEF SenderBegin
  <2>2. CASE SenderEnd BY <2>2 DEF SenderEnd
  <2>3. CASE SenderLook BY SMTT(30), <2>3 DEF SenderLook
  <2>4. CASE SenderEmpty BY <2>4 DEF SenderEmpty
  <2>5. CASE SenderPlace BY SMTT(30), <2>5 DEF SenderPlace
  <2>6. CASE SenderSend BY SMTT(30), <2>6 DEF SenderSend
  <2>7. CASE SenderPop BY <2>7 DEF SenderPop
  <2>8. CASE SenderTake BY <2>8, CountIn DEF SenderTake
  <2>9. CASE SenderSkip BY <2>9, CountIn DEF SenderSkip
  <2> QED BY <1>2, <2>1, <2>2, <2>3, <2>4, <2>5, <2>6, <2>7, <2>8, <2>9 DEF SenderStep
<1>3. CASE MonitorStep
  <2> USE DEF OnlyMonitor, MonitorAt, Set, Flags, Happens
  <2>1. CASE MonitorBegin BY SMTT(30), <2>1 DEF MonitorBegin
  <2>2. CASE MonitorEnd BY <2>2 DEF MonitorEnd
  <2>3. CASE MonitorLatest BY <2>3 DEF MonitorLatest
  <2>4. CASE MonitorFar
    <3>1. flag' \in [Flags -> BOOLEAN] BY <2>4 DEF MonitorFar
    <3>2. events' \in 0..MaxEvents BY <2>4 DEF MonitorFar
    <3>3. monitor' = [monitor EXCEPT !.at = "judge"] BY <2>4 DEF MonitorFar
    <3>4. monitor' \in [at : {"idle", "latest", "compare", "judge", "again", "place", "store",
                              "gone"}, frame : Nat]
      BY <3>3
    <3> QED BY <2>4, <3>1, <3>2, <3>4 DEF MonitorFar
  <2>6. CASE MonitorJudge BY SMTT(30), <2>6 DEF MonitorJudge
  <2>7. CASE MonitorAgain BY SMTT(30), <2>7 DEF MonitorAgain
  <2>8. CASE MonitorPlace BY SMTT(30), <2>8 DEF MonitorPlace
  <2>9. CASE MonitorStore BY SMTT(30), <2>9 DEF MonitorStore
  <2> QED BY <1>3, <2>1, <2>2, <2>3, <2>4, <2>6, <2>7, <2>8, <2>9 DEF MonitorStep
<1>4. CASE AskRestart \/ ScriptLowerPoint
  <2>1. flag' \in [Flags -> BOOLEAN]
    <3>1. \E f \in Flags, value \in BOOLEAN : flag' = [flag EXCEPT ![f] = value]
      BY <1>4 DEF AskRestart, ScriptLowerPoint, Set, Flags
    <3>2. flag \in [Flags -> BOOLEAN] OBVIOUS
    <3> QED BY ONLY <3>1, <3>2
  <2>2. events' \in 0..MaxEvents
    <3>1. events' = events \/ (events > 0 /\ events' = events - 1)
      BY <1>4, Zenon DEF AskRestart, ScriptLowerPoint, Happens
    <3>2. events \in 0..MaxEvents /\ MaxEvents \in Nat OBVIOUS
    <3> QED BY ONLY <3>1, <3>2
  <2>5. owed' \in BOOLEAN
    <3>1. owed' = owed \/ owed' = (owed \/ lio.at # "lower")
      BY <1>4, Zenon DEF AskRestart, ScriptLowerPoint
    <3>2. owed \in BOOLEAN OBVIOUS
    <3> QED BY ONLY <3>1, <3>2, Zenon
  <2>3. script' \in {"idle", "lower_point"}
    BY <1>4 DEF AskRestart, ScriptLowerPoint, ScriptAt
  <2>4. UNCHANGED <<lio, count_, sender, monitor, receiver, frame, error, xy>>
    BY <1>4 DEF AskRestart, ScriptLowerPoint, ScriptAt, OnlyScript
  <2> QED BY <2>1, <2>2, <2>3, <2>4, <2>5
<1>5. CASE Calibrate \/ ReceiverZero
  <2>1. events' \in 0..MaxEvents /\ frame' \in Nat /\ error' \in Nat
    BY <1>5 DEF Calibrate, ReceiverZero, Happens
  <2>2. receiver' \in {"idle", "zero"}
    BY <1>5 DEF Calibrate, ReceiverZero, ReceiverAt
  <2>3. UNCHANGED <<flag, lio, count_, sender, monitor, script, xy, owed>>
    BY <1>5 DEF Calibrate, ReceiverZero, ReceiverAt, OnlyReceiver
  <2> QED BY <2>1, <2>2, <2>3
<1>6. CASE Shutdown
  <2>1. flag' \in [Flags -> BOOLEAN] /\ events' \in 0..MaxEvents
    BY <1>6 DEF Shutdown, Set, Flags
  <2> QED BY <1>6, <2>1 DEF Shutdown
<1>7. CASE UNCHANGED vars
  BY <1>7 DEF vars
<1> QED BY <1>1, <1>2, <1>3, <1>4, <1>5, <1>6, <1>7 DEF Next, RequestStep

\* The threads' variables keep their types, and the count of the queue of
\* odometry its range, also when a clear meets a pop.
THEOREM TypeCorrect == Spec => []TypeOK
  BY TypeInit, TypeStep, PTL DEF Spec
=============================================================================
