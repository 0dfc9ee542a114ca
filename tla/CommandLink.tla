------------------------------ MODULE CommandLink ------------------------------
(***************************************************************************)
(* The operator's console (control_center.py), the robot's script thread    *)
(* (controlR2.cpp), its serial receiver (controlR2.h) and the MCU.          *)
(*                                                                         *)
(* The console executes one command at a time: it publishes a value of the  *)
(* command's topic every 100 ms until an answer with that value arrives,    *)
(* then flips the value and starts the next command of its queue.  The      *)
(* robot carries out a value that differs from the last one of that topic   *)
(* and answers it again otherwise.  A path or a parameter set is first sent *)
(* to the MCU, every 100 ms, until the serial receiver has seen its         *)
(* acknowledgement or the program is told to end: the script thread serves  *)
(* nothing else meanwhile.  The self-check of a device is such a command    *)
(* too, and one command ends the checks of all of them.                     *)
(*                                                                         *)
(* Issue k is the k-th value the console set out to send.  It stands for    *)
(* the contents of the file the console writes for that issue.              *)
(***************************************************************************)
EXTENDS Naturals, Sequences

CONSTANTS Commands,      \* the commands the operator gives
          Devices,       \* the devices with a self-check
          Modes,         \* the LiDAR restart modes the operator chooses: 1, 2, 3 (both)
          SubQueue,      \* a subscriber's queue_size, 3 in the code
          AnswerQueue,   \* the queue_size of /scripts/response, 3 in the code
          LinkMax,       \* bound: frames in flight on the serial line, each way
          MaxCommands,   \* bound: commands given
          MaxRestarts,   \* bound: restarts of the robot's process
          None           \* no command, no topic

FileTopics == {"send_path", "send_param"}
RestartTopics == {"restart_lidar", "restart_lidar2"}
CheckOff == "global_check_off"
Topics == FileTopics \cup RestartTopics \cup Devices \cup {CheckOff}

\* The topics whose subscriber is not in the repository.
ElsewhereTopics == {"restart_lidar2"} \cup Devices

ASSUME LinkAssumption ==
  /\ Devices \subseteq {"side_cam", "front_cam", "lidar"}
  /\ Commands \subseteq {"send_path", "restart_lidar", "send_param", CheckOff} \cup Devices
  /\ Modes \subseteq 1..3 /\ Modes # {}
  /\ {SubQueue, AnswerQueue, LinkMax} \subseteq Nat \ {0}
  /\ {MaxCommands, MaxRestarts} \subseteq Nat
  /\ None \notin Topics

VARIABLES queue,       \* command_queue
          current,     \* current_command
          sending,     \* is_publishing, current_pub, current_send_value
          mode,        \* lidar_restart_mode
          stage,       \* lidar_dual_stage
          nextValue,   \* send_path_value, restart_lidar_value, ...
          check,       \* check_states: what the console shows of each device
          sub,         \* messages on their way to, or queued at, a subscriber
          last,        \* the static "last" of each callback, 0 at first
          serving,     \* the topic whose callback blocks the script thread
          buffer,      \* MFpath, MFparameter: the contents read from the file
          flag,        \* _MAP_FLAG_, _PARAMETER_FLAG_
          running,     \* _TREADPOOL_FLAG_
          answers,     \* /scripts/response; the topic it answers is history
          toMcu,       \* frames 7 and 9 on the serial line
          fromMcu,     \* the MCU's frames 7 and 9
          mcu,         \* the path and the parameters the MCU holds
          prompt,      \* whether it acknowledges within the 100 ms of usleep
          issue,       \* history: values the console set out to send
          issued,      \* history: the latest issue of each topic; the file's contents
          applied,     \* history: the latest issue of each topic carried out, how often
          unsent,      \* history: the latest issue of each file given up unacknowledged
          restarts     \* restarts of the robot's process so far

console == <<queue, current, sending, mode, stage, nextValue, check>>
robot   == <<last, serving, buffer, flag, running>>
serial  == <<toMcu, fromMcu, mcu, prompt>>
history == <<issue, issued, applied, unsent>>
vars == <<console, sub, robot, answers, serial, history, restarts>>

\* The two values a topic is sent with by turns.
Pair == [t \in Topics |->
  IF t \in RestartTopics THEN {3, 4} ELSE IF t = "send_param" THEN {5, 6} ELSE {1, 2}]
FirstValue(t) == CHOOSE v \in Pair[t] : \A w \in Pair[t] : v <= w
Other(t, v) == CHOOSE w \in Pair[t] : w # v
Occurs(x, s) == \E i \in 1..Len(s) : s[i] = x

\* A bounded ROS queue drops its oldest message to take a new one.
Offer(s, m, size) == IF Len(s) < size THEN Append(s, m) ELSE Append(Tail(s), m)
QueueSize(t) == IF t = "restart_lidar" THEN 1 ELSE SubQueue

Idle == [on |-> FALSE, pub |-> None, value |-> 0]

Init ==
  /\ queue = <<>> /\ current = None /\ sending = Idle
  /\ mode \in Modes /\ stage = 0
  /\ nextValue = [t \in Topics |-> FirstValue(t)]
  /\ check = [d \in Devices |-> 0]
  /\ sub = [t \in Topics |-> <<>>]
  /\ last = [t \in Topics |-> 0]
  /\ serving = None
  /\ buffer = [t \in FileTopics |-> 0]
  /\ flag = [t \in FileTopics |-> FALSE] /\ running = TRUE
  /\ prompt \in BOOLEAN
  /\ answers = <<>> /\ toMcu = <<>> /\ fromMcu = <<>>
  /\ mcu = [t \in FileTopics |-> 0]
  /\ issue = 0
  /\ issued = [t \in Topics |-> 0]
  /\ applied = [t \in Topics |-> [issue |-> 0, times |-> 0]]
  /\ unsent = [t \in FileTopics |-> 0]
  /\ restarts = 0
-----------------------------------------------------------------------------
(* The console.                                                            *)

\* start_publish_loop, the first time: the value goes out at once.
Send(t, v) ==
  /\ sending' = [on |-> TRUE, pub |-> t, value |-> v]
  /\ sub' = [sub EXCEPT ![t] = Offer(@, v, QueueSize(t))]
  /\ issue' = issue + 1
  /\ issued' = [issued EXCEPT ![t] = issue + 1]

\* A file that cannot be written drops its command; the next one is tried.
Startable(q) ==
  {n \in 1..Len(q) : \A i \in 1..(n - 1) : q[i] \in FileTopics}
MayAllFail(q) == \A i \in 1..Len(q) : q[i] \in FileTopics

FirstTopic(cmd) == IF cmd = "restart_lidar" /\ mode = 2 THEN "restart_lidar2" ELSE cmd

\* check_states: 0 idle, 1 its command is being sent, 2 checking, 3 the command
\* that ends it is being sent, 4 ended, 5 and 6 one of the two is queued.
ShownAtStart(cmd, shown) ==
  [d \in Devices |-> CASE d = cmd                                  -> 1
                       [] cmd = CheckOff /\ shown[d] \in {2, 6} -> 3
                       [] OTHER                                     -> shown[d]]
ShownAtAnswer(cmd) ==
  [d \in Devices |-> CASE d = cmd                            -> 2
                       [] cmd = CheckOff /\ check[d] = 3   -> 4
                       [] OTHER                               -> check[d]]
ShownQueued(cmd) ==
  [d \in Devices |-> CASE d = cmd                            -> 5
                       [] cmd = CheckOff /\ check[d] = 2   -> 6
                       [] OTHER                               -> check[d]]

Start(q, n, values, shown) ==
  /\ queue' = SubSeq(q, n + 1, Len(q))
  /\ current' = q[n]
  /\ stage' = IF q[n] = "restart_lidar" /\ mode = 3 THEN 1 ELSE 0
  /\ check' = ShownAtStart(q[n], shown)
  /\ Send(FirstTopic(q[n]), values[FirstTopic(q[n])])

ProcessNextKeepsFailed(q, values, shown) ==
  \/ /\ MayAllFail(q) /\ q # <<>>
     /\ queue' = Tail(q) /\ current' = Head(q) /\ sending' = Idle /\ stage' = 0
     /\ check' = shown /\ UNCHANGED <<sub, issue, issued>>
  \/ /\ q = <<>>
     /\ queue' = <<>> /\ current' = None /\ sending' = Idle /\ stage' = 0
     /\ check' = shown /\ UNCHANGED <<sub, issue, issued>>
  \/ \E n \in Startable(q) : Start(q, n, values, shown)

\* process_next_command with an idle console and the queue q.
ProcessNext(q, values, shown) ==
  \/ /\ MayAllFail(q)
     /\ queue' = <<>> /\ current' = None /\ sending' = Idle /\ stage' = 0
     /\ check' = shown /\ UNCHANGED <<sub, issue, issued>>
  \/ \E n \in Startable(q) : Start(q, n, values, shown)

\* execute_check_cmd, execute_check_off_cmd: when their button does something.
Offered(cmd) ==
  /\ cmd \in Devices => check[cmd] \notin {1, 5}
  /\ cmd = CheckOff => \E d \in Devices : check[d] = 2

\* enqueue_command; a command that is executing or queued already is ignored.
Enqueue(cmd) ==
  /\ issue + Len(queue) < MaxCommands
  /\ Offered(cmd) /\ current # cmd /\ ~Occurs(cmd, queue)
  /\ IF current = None
       THEN ProcessNext(Append(queue, cmd), nextValue, check)
       ELSE /\ queue' = Append(queue, cmd)
            /\ check' = ShownQueued(cmd)
            /\ UNCHANGED <<current, sending, stage, sub, issue, issued>>
  /\ UNCHANGED <<mode, nextValue, robot, answers, serial, applied, unsent, restarts>>

SetModeUnguarded(m) ==
  /\ mode' = m
  /\ UNCHANGED <<queue, current, sending, stage, nextValue, check, sub, robot, answers, serial,
                 history, restarts>>

\* set_lidar_mode.
SetMode(m) ==
  /\ current # "restart_lidar" /\ ~Occurs("restart_lidar", queue)
  /\ mode' = m
  /\ UNCHANGED <<queue, current, sending, stage, nextValue, check, sub, robot, answers, serial,
                 history, restarts>>

\* start_publish_loop, every 100 ms.
Publish ==
  /\ sending.on
  /\ sub' = [sub EXCEPT ![sending.pub] = Offer(@, sending.value, QueueSize(sending.pub))]
  /\ UNCHANGED <<console, robot, answers, serial, history, restarts>>

\* status_callback: what it does with an answer that has the value being sent.
Matches(a) == sending.on /\ current # None /\ a.data = sending.value

\* The first LiDAR of "both" has answered: go on with the second.
SecondLidar ==
  /\ nextValue' = [nextValue EXCEPT !.restart_lidar = Other("restart_lidar", @)]
  /\ stage' = 2
  /\ Send("restart_lidar2", nextValue.restart_lidar2)
  /\ UNCHANGED <<queue, current, check>>

SpentTopic == IF current = "restart_lidar" /\ mode # 1 THEN "restart_lidar2" ELSE current

Complete ==
  /\ nextValue' = [nextValue EXCEPT ![SpentTopic] = Other(SpentTopic, @)]
  /\ ProcessNext(queue, nextValue', ShownAtAnswer(current))

IgnoreAnswer == UNCHANGED <<console, sub, issue, issued>>

StatusCallbackAnyValue ==
  /\ answers # <<>> /\ answers' = Tail(answers)
  /\ IF current = None THEN IgnoreAnswer
     ELSE IF current = "restart_lidar" /\ mode = 3 /\ stage = 1 THEN SecondLidar
     ELSE Complete
  /\ UNCHANGED <<mode, robot, serial, applied, unsent, restarts>>

StatusCallbackKeepsValue ==
  /\ answers # <<>> /\ answers' = Tail(answers)
  /\ IF ~Matches(Head(answers)) THEN IgnoreAnswer
     ELSE IF current = "restart_lidar" /\ mode = 3 /\ stage = 1 THEN SecondLidar
     ELSE ProcessNext(queue, nextValue, ShownAtAnswer(current)) /\ UNCHANGED nextValue
  /\ UNCHANGED <<mode, robot, serial, applied, unsent, restarts>>

StatusCallbackNoNext ==
  /\ answers # <<>> /\ answers' = Tail(answers)
  /\ IF ~Matches(Head(answers)) THEN IgnoreAnswer
     ELSE IF current = "restart_lidar" /\ mode = 3 /\ stage = 1 THEN SecondLidar
     ELSE /\ nextValue' = [nextValue EXCEPT ![SpentTopic] = Other(SpentTopic, @)]
          /\ current' = None /\ sending' = Idle /\ stage' = 0
          /\ check' = ShownAtAnswer(current)
          /\ UNCHANGED <<queue, sub, issue, issued>>
  /\ UNCHANGED <<mode, robot, serial, applied, unsent, restarts>>

StatusCallback ==
  /\ answers # <<>> /\ answers' = Tail(answers)
  /\ IF ~Matches(Head(answers)) THEN IgnoreAnswer
     ELSE IF current = "restart_lidar" /\ mode = 3 /\ stage = 1 THEN SecondLidar
     ELSE Complete
  /\ UNCHANGED <<mode, robot, serial, applied, unsent, restarts>>
-----------------------------------------------------------------------------
(* The script thread, one callback at a time.  sub[t] holds what is on its  *)
(* way as well, so the topics are served in any order.                      *)

Arrived(t) == sub[t] # <<>> /\ sub' = [sub EXCEPT ![t] = Tail(@)]

\* responseR2.
Respond(t, v) == answers' = Offer(answers, [data |-> v, topic |-> t], AnswerQueue)

\* The callback takes the value for a new one.
CarryOut(t) ==
  applied' = [applied EXCEPT ![t] =
    [issue |-> issued[t], times |-> IF @.issue = issued[t] THEN @.times + 1 ELSE 1]]

TakeFileLastKept(t) ==
  /\ serving = None /\ Arrived(t) /\ Head(sub[t]) # last[t]
  /\ serving' = t
  /\ buffer' = [buffer EXCEPT ![t] = issued[t]]
  /\ flag' = [flag EXCEPT ![t] = TRUE]
  /\ CarryOut(t)
  /\ UNCHANGED <<console, last, running, answers, serial, issue, issued, unsent, restarts>>

\* pathCallbackR2, parameterCallbackR2: a new value, up to set_flag(1).  (The
\* callbacks that are due still run when the program has been told to end.)
TakeFile(t) ==
  /\ serving = None /\ Arrived(t) /\ Head(sub[t]) # last[t]
  /\ last' = [last EXCEPT ![t] = Head(sub[t])]
  /\ serving' = t
  /\ buffer' = [buffer EXCEPT ![t] = issued[t]]
  /\ flag' = [flag EXCEPT ![t] = TRUE]
  /\ CarryOut(t)
  /\ UNCHANGED <<console, running, answers, serial, issue, issued, unsent, restarts>>

\* The file is missing or empty: nothing is sent, and nothing answered.
TakeFileEmpty(t) ==
  /\ serving = None /\ Arrived(t) /\ Head(sub[t]) # last[t]
  /\ last' = [last EXCEPT ![t] = Head(sub[t])]
  /\ CarryOut(t)
  /\ unsent' = [unsent EXCEPT ![t] = issued[t]]
  /\ UNCHANGED <<console, serving, buffer, flag, running, answers, serial, issue, issued, restarts>>

\* The same callbacks: a value seen before is answered again.
TakeFileAgain(t) ==
  /\ serving = None /\ Arrived(t) /\ Head(sub[t]) = last[t]
  /\ Respond(t, last[t])
  /\ UNCHANGED <<console, robot, serial, history, restarts>>

\* A callback that does its work at once and answers every value.
AnswerAtOnce(t) ==
  /\ Arrived(t)
  /\ last' = [last EXCEPT ![t] = Head(sub[t])]
  /\ IF Head(sub[t]) # last[t] THEN CarryOut(t) ELSE UNCHANGED applied
  /\ Respond(t, last'[t])
  /\ UNCHANGED <<console, serving, buffer, flag, running, serial, issue, issued, unsent, restarts>>

\* lidarrestartCallbackR2.
TakeRestart == serving = None /\ AnswerAtOnce("restart_lidar")

\* selfinspectionclose, which forgets the value and acts on every copy; how often
\* is not counted.
TakeCheckOff ==
  /\ serving = None /\ Arrived(CheckOff)
  /\ applied' = [applied EXCEPT ![CheckOff] = [issue |-> issued[CheckOff], times |-> 1]]
  /\ Respond(CheckOff, Head(sub[CheckOff]))
  /\ UNCHANGED <<console, robot, serial, issue, issued, unsent, restarts>>

\* Taken to answer like lidarrestartCallbackR2.
AnswerElsewhere == \E t \in ElsewhereTopics : AnswerAtOnce(t)

\* One round of the loop that sends the frame.  With a prompt MCU every frame
\* has been acknowledged, or was lost, before the next round.
SendFrame(t) ==
  /\ serving = t /\ flag[t] /\ running
  /\ prompt => toMcu = <<>> /\ fromMcu = <<>>
  /\ Len(toMcu) < LinkMax
  /\ toMcu' = Append(toMcu, [id |-> t, data |-> buffer[t]])
  /\ UNCHANGED <<console, sub, robot, answers, fromMcu, mcu, prompt, history, restarts>>

SendUntilFirstFrame(t) ==
  /\ serving = t
  /\ serving' = None
  /\ Respond(t, last[t])
  /\ UNCHANGED <<console, sub, last, buffer, flag, running, serial, history, restarts>>

\* The loop ends when the flag is clear, and the value is answered.
SendDone(t) ==
  /\ serving = t /\ ~flag[t]
  /\ serving' = None
  /\ Respond(t, last[t])
  /\ UNCHANGED <<console, sub, last, buffer, flag, running, serial, history, restarts>>

\* It also ends when the program is told to, and then answers all the same.
SendGivenUp(t) ==
  /\ serving = t /\ flag[t] /\ ~running
  /\ prompt => toMcu = <<>> /\ fromMcu = <<>>
  /\ serving' = None
  /\ Respond(t, last[t])
  /\ unsent' = [unsent EXCEPT ![t] = buffer[t]]
  /\ UNCHANGED <<console, sub, last, buffer, flag, running, serial, issue, issued, applied, restarts>>

\* SIGINT.
Shutdown ==
  /\ running /\ running' = FALSE
  /\ UNCHANGED <<console, sub, last, serving, buffer, flag, answers, serial, history, restarts>>
-----------------------------------------------------------------------------
(* The serial line, the MCU and the receiver thread.                       *)

McuReceive ==
  /\ toMcu # <<>> /\ Len(fromMcu) < LinkMax
  /\ mcu' = [mcu EXCEPT ![Head(toMcu).id] = Head(toMcu).data]
  /\ fromMcu' = Append(fromMcu, Head(toMcu).id)
  /\ toMcu' = Tail(toMcu)
  /\ UNCHANGED <<console, sub, robot, answers, prompt, history, restarts>>

\* serial_receiver: frame 7 or 9 clears its flag, whatever the flag was.
ReceiveAck ==
  /\ fromMcu # <<>>
  /\ flag' = [flag EXCEPT ![Head(fromMcu)] = FALSE]
  /\ fromMcu' = Tail(fromMcu)
  /\ UNCHANGED <<console, sub, last, serving, buffer, running, answers, toMcu, mcu, prompt, history, restarts>>

\* A damaged frame is dropped by the parser that receives it.
FrameLost ==
  /\ \/ toMcu # <<>> /\ toMcu' = Tail(toMcu) /\ UNCHANGED fromMcu
     \/ fromMcu # <<>> /\ fromMcu' = Tail(fromMcu) /\ UNCHANGED toMcu
  /\ UNCHANGED <<console, sub, robot, answers, mcu, prompt, history, restarts>>

\* The publishers of the console have queue_size 1: a busy one drops a message.
MessageLost(t) ==
  /\ Arrived(t)
  /\ UNCHANGED <<console, robot, answers, serial, history, restarts>>

\* The process dies and is started again; answers it has not flushed are lost.
\* That takes longer than a prompt MCU: by then what was on the line has been
\* acknowledged, with nobody there to receive it, or was lost.
RobotRestart ==
  /\ restarts < MaxRestarts /\ restarts' = restarts + 1
  /\ prompt => toMcu = <<>> /\ fromMcu = <<>>
  /\ sub' = [t \in Topics |-> IF t \in ElsewhereTopics THEN sub[t] ELSE <<>>]
  /\ last' = [t \in Topics |-> IF t \in ElsewhereTopics THEN last[t] ELSE 0]
  /\ serving' = None
  /\ buffer' = [t \in FileTopics |-> 0]
  /\ flag' = [t \in FileTopics |-> FALSE] /\ running' = TRUE
  /\ \E n \in 0..Len(answers) : answers' = SubSeq(answers, 1, n)
  /\ applied' = [t \in Topics |->
       IF t \in ElsewhereTopics THEN applied[t] ELSE [applied[t] EXCEPT !.times = 0]]
  /\ UNCHANGED <<console, serial, issue, issued, unsent>>
-----------------------------------------------------------------------------
\* What spinOnce of the script thread runs.
Callback ==
  \/ \E t \in FileTopics : TakeFile(t) \/ TakeFileEmpty(t) \/ TakeFileAgain(t)
  \/ TakeRestart \/ TakeCheckOff

Next ==
  \/ \E cmd \in Commands : Enqueue(cmd)
  \/ \E m \in Modes : SetMode(m)
  \/ Publish
  \/ StatusCallback
  \/ Callback
  \/ \E t \in FileTopics : SendFrame(t) \/ SendDone(t) \/ SendGivenUp(t)
  \/ AnswerElsewhere
  \/ Shutdown
  \/ McuReceive
  \/ ReceiveAck
  \/ FrameLost
  \/ \E t \in Topics : MessageLost(t)
  \/ RobotRestart

(* The console's timer and subscriber run, the robot's threads too until    *)
(* the program is told to end.  Of the messages and frames sent again and   *)
(* again not all are lost.                                                  *)
Fairness ==
  /\ WF_vars(Publish) /\ WF_vars(StatusCallback)
  /\ SF_vars(running /\ Callback) /\ SF_vars(AnswerElsewhere)
  /\ WF_vars(\E t \in FileTopics : SendFrame(t) \/ SendDone(t))
  /\ SF_vars(McuReceive) /\ SF_vars(ReceiveAck)

Spec == Init /\ [][Next]_vars
FairSpec == Spec /\ Fairness
-----------------------------------------------------------------------------
Issues == 0..issue

TypeOK ==
  /\ current \in Commands \cup {None}
  /\ \A i \in 1..Len(queue) : queue[i] \in Commands
  /\ sending.on <=> current # None
  /\ mode \in Modes /\ stage \in 0..2
  /\ check \in [Devices -> 0..6]
  /\ \A t \in Topics :
       /\ nextValue[t] \in Pair[t] /\ last[t] \in Pair[t] \cup {0}
       /\ Len(sub[t]) <= QueueSize(t)
       /\ \A i \in 1..Len(sub[t]) : sub[t][i] \in Pair[t]
       /\ issued[t] \in Issues /\ applied[t].issue \in Issues
  /\ serving \in FileTopics \cup {None} /\ running \in BOOLEAN
  /\ Len(answers) <= AnswerQueue
  /\ \A t \in FileTopics :
       buffer[t] \in Issues /\ mcu[t] \in Issues /\ flag[t] \in BOOLEAN /\ unsent[t] \in Issues

\* No topic that uses the values of t has been sent anything: neither the other
\* LiDAR, nor, for a path, a self-check.
Alone(t) == \A u \in Topics \ {t} : Pair[u] \cap Pair[t] # {} => issued[u] = 0

\* The step in which the console takes an answer and goes on.
Settled == answers # <<>> /\ answers' = Tail(answers) /\ sending.on
                          /\ (issue' # issue \/ current' # current)

\* A command the operator is told was carried out was taken up: when an answer
\* ends an issue of a topic that is alone with its values, the callback of that
\* topic has run for that very issue.
AnsweredMeansApplied ==
  [][Settled /\ Alone(sending.pub) => applied[sending.pub].issue = issue]_vars

\* Publishing a value over and over, losing it and answering it late never makes
\* the robot carry out an issue of such a topic twice, unless its process has been
\* restarted.  (The end of the self-checks is carried out with every copy.)
AppliedOnce ==
  restarts = 0 => \A t \in Topics \ {CheckOff} : Alone(t) => applied[t].times <= 1

\* The console and the robot stay in step: the value such a topic will be sent with
\* is never the one the robot takes for a repetition.
NextValueIsNew ==
  \A t \in Topics :
    Alone(t) /\ ~(sending.on /\ sending.pub = t) => nextValue[t] # last[t]

\* Whatever the LiDAR mode, the value that was answered is not the topic's next
\* one: the flip in status_callback is that of the topic that was sent.
AnsweredValueIsSpent ==
  [][Settled => nextValue'[sending.pub] # sending.value]_vars

\* control_center.py:157, "to avoid a conflict of answers": the answer that ends an
\* issue answers the topic the issue was sent on.
AnswersDoNotConflict ==
  [][Settled => Head(answers).topic = sending.pub]_vars

\* When a path or a parameter set, alone with its values, is answered, the MCU
\* holds that one, or its file was empty, or the robot was told to end before it
\* was acknowledged; if the MCU is prompt: a late acknowledgement ends the next
\* transmission before it starts.
DeliveredWhenAnswered ==
  [][prompt /\ Settled /\ sending.pub \in FileTopics /\ Alone(sending.pub) =>
       issue \in {mcu[sending.pub], unsent[sending.pub]}]_vars

\* Whatever the operator has queued comes to an end, unless the robot does: the
\* console is idle again and again.  (What the operator queues is bounded.)
CommandsEnd == []<>((current = None /\ queue = <<>>) \/ ~running)
=============================================================================
