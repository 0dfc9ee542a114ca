# Specifications of the RC26 robot software

TLA+ modules, TLC runs and TLAPS proofs about the concurrent and communicating
parts of `src/src/merge`, the software of the two robots R1 and R2. Paths below
are relative to `src/src/merge/src/` unless they begin with `src/`.

The numerical parts (odometry filter, registration, image processing) are
outside; what is modelled is what moves data and commands between threads,
processes and machines, where the order of steps decides whether the program is
right and where a unit test sees one order of many; and one pure decision, that
about the field, whose inputs are too many to test.

## 1. The system and its parts

R2 is one process, `merge_node`, with a serial line to the microcontroller (MCU)
that drives the robot, a LiDAR, cameras, and an operator's console
(`src/src/merge/shell_monitor2/control_center.py`) that talks to it over ROS
topics.

```
 console ── /scripts/send_path, send_param, restart_lidar ──> script thread ─ frames 7, 9 ─> MCU
 (control_center.py) <──────── /scripts/response ──────────── (controlR2.cpp)                 │
                                                                    ^ flags                   │
 LiDAR driver ─IMU, clouds─> RCUQueues ─> Point-LIO ─poses─>  serial receiver <─ frames 4,6-9 ┘
                                              │               (controlR2.h) ─> ThreadPool(4): apriltag, kfs
                                              └─> RCUQueue ─> pose sender ── frame 1 ──> MCU
```

| part | state | operations | talks to | hard behaviour | correct when |
|---|---|---|---|---|---|
| Thread pool (`threadpool.h`) | `_tasks`, `_stop`, workers | `enqueue`, worker loop, destructor | receiver, self-check; run flag `_TREADPOOL_FLAG_` | notifications after the unlock, spurious wake-ups, join of endless tasks | no task lost or run twice, no lost wake-up, shutdown ends and drains |
| Serial protocol (`serial.cpp`) | `read_state_`, `rx_index_`, `target_length_`, `rx_buffer_`, the port | `serial_send`, `serial_read`, `serial_read2`, `clearBuffer`, reopening | receiver and every sending thread | frames cut between calls, damaged or lost bytes, reopening under a parser in the middle of a frame | payloads whole, in order, with their own id; resynchronisation; buffer never overrun |
| Sensor queues (`lidar.h`) | `storage_`, `head_`, `tail_`, `count_` | `push`, `pop`, `get_latest`, `clear` | driver, odometry, pose sender, monitor | lock-free readers that write, a full ring, `clear` during `pop` | each element once and in order, latest is fresh, count in range |
| Command link, console side (`control_center.py`) | `command_queue`, `current_command`, `is_publishing`, `current_send_value`, alternating values, LiDAR mode and stage, `check_states` | enqueue, set mode, publish loop, answer callback | script thread | repetition until answered, late and repeated answers, two threads | a command reported as done was done, once; the queue moves on |
| Command link, robot side (`superstratum/controlR2.cpp`) | `last` of each callback, `MFpath`, `MFparameter`, `_MAP_FLAG_`, `_PARAMETER_FLAG_` | path, parameter, restart and self-check callbacks | console, receiver, MCU, Point-LIO | a callback that blocks the thread until another thread clears a flag | as above |
| Serial receiver's dispatch (`superstratum/controlR2.h`) | `pool_request`, task flags | frames 4, 6, 7, 8, 9 | pool, calibration, script thread | refusals not noticed, stop followed by start, blocking calibration | what was requested agrees with what runs, one copy of a service, no services left at the end |
| Pose sender and failover (`controlR2.h`, `controlR2.cpp`) | `_POINT_LIO_RUN_FLAG_`, `_POINT_LIO_CHANGE_FLAG_`, `_r2_x_`... | pose loop, `tf_monitorR2`, restart callback | odometry, MCU | three threads on two flags | sent poses come to be in the last calibrated frame, a restart is carried out, threads end |
| Point-LIO (`point_lio/src/laserMapping2.cpp`) | the filter, `flg_reset`, restart flag | main loop, reset | queues, failover | restart requested during a restart | every request leads to a reset |
| LiDAR driver (`livox_ros_driver2/`) | packet queues per LiDAR | receive, poll, publish | queues | semaphore and cached queues, stop | no packet published twice |
| Mapping, relocation (`mapping/mapping.h`, `relocation.h`) | batches of clouds, the map | batch, compress, load, register | queues | two threads and a pool | batches handed over whole |
| Cameras (`camera.cpp`, `usb_cam*.cpp`) | device handles | open, grab, reopen | recognition, self-check | reconnection loops | retries end |
| AprilTag, KFS (`apriltag/apriltag.cpp`, `kfs_detector/kfs_detector.cpp`) | `flag_is_run`, their flags | detect, report until stopped | receiver, MCU | stopped and started between two looks at a flag | only what was seen is reported |
| Grid of the field (`superstratum/super2.h`) | `place`, `classifier_`, `confidence_`, `final_result`, `now_count` | `set_roi12_place`, `set_cls`, `set_post_cls` | strategy | two networks that disagree, counts, a retry, an inference | limits kept, cells served in order, ends |
| Recognition, calibration, ORB, YOLO | results per image | detect | – | arithmetic | – |
| Self-check (`selfinspection/inspection.h`) | device states | open, close | console, cameras | repeated close | – |
| Pose filter, transforms, parameters, R1 control, debug programs, launchers, vendored libraries | – | – | – | – | – |

`PROJECT.json` lists them with their status, and every hazard with its line.

## 2. Modules

**`TaskLifecycle`** is what a bounded pool promises: a task is accepted while the
queue has room, refused only when it has none, started once, finished once.

**`ThreadPool`** is the pool as written. A step is a critical section of `_mtx` or a
call on the condition variable. `EnqueuePush`/`EnqueueFull` and `NotifyOne` are the
two halves of `enqueue`, on both sides of the unlock; `WorkerWait`, `WorkerReturn`,
`WorkerTake`, `WorkerFinish` the worker loop; `DestroyStop`, `DestroyNotifyAll`,
`DestroyJoin` the destructor. `SpuriousWakeup` is allowed by the C++ standard.
`Endless` tasks are the loops the program really runs in its pools; they end when
`ClearRunFlag`, the SIGINT handler of `merge.cpp`, has run. `fate` is history and
maps the pool to `TaskLifecycle` (`KeepsLifecycle`). `OldestIsDiscarded` is what
`src/README.md` says of a full queue; the code does not do it.

**`SerialStream`** is `serial_read2` as the receiver calls it: one action per parser
state, each of which takes one byte; `ReturnEmpty` is `available() == 0`, possible
between any two bytes; `call` holds the output parameters, fresh zeros per call, and
the parser variables survive the calls. `Send` writes a frame in the format of
`serial_send`, checksum and all. `serial_receiver` flushes the port after a relocation
frame (id 4, `controlR2.h:550`), so `Spec`, the clean line, sends none (`KeptFrames`);
`NoisySpec` sends every frame and adds a changed byte (`Damage`), bytes lost
by that flush or by a reopened port (`BytesLost`), and the exception handler of
`serial_read2` (`ReadException`). The code's `^` is the constant `XorByte`;
`MCSerialStream` gives it bit by bit, and the frames.

**`RcuQueue`** is the ring of `lidar.h`: one call of `push` or `clear` at a time, since
both take the mutex, one popper and one thread that asks for the latest element. A
step is one access to one of the three atomics, so that
`head_ = (head_.load() + 1) % max_size_` is two, and `clear` is three stores (`ClearHead`,
`ClearTail`, `ClearCount`). Slots are replaced as a whole by the RCU pointer swap, which
is one step. `overflowed` and `torn` remember what the queue does not guard against: a
push that found it full since the last clear, and a clear that met a call of a reader.

**`CommandLink`** composes the console, the robot's script thread, the receiver's
frames 7 and 9 and the MCU. `Enqueue`, `SetMode`, `Publish` and `StatusCallback` are the
console's handlers; `StatusCallback` includes the whole `process_next_command`, the file
write that may fail and the immediate first publication. `check` is `check_states`: it
decides when the buttons of the self-checks do something. On the robot `TakeFile` is a
path or parameter callback up to the transmission loop, `TakeFileEmpty` the same with a
file that is missing or empty, `SendFrame` one round of the loop, `SendDone` its end by
the acknowledgement and `SendGivenUp` its end by the run flag, each with the answer;
`serving` says that the script thread is inside it. `TakeRestart` is the restart callback,
`TakeCheckOff` the one that ends the self-checks. `Shutdown` is the SIGINT handler: the
callbacks that are due still run, as `callAvailable` is not interrupted. `ReceiveAck` is
the receiver, which clears the flag whatever it waits for. `FrameLost`, `MessageLost` and
`RobotRestart` are the faults. The subscribers of `/scripts/restart_lidar2` and of the
topics that start a device's check are not in the repository (`ElsewhereTopics`); they
are taken to behave like the restart callback (`AnswerAtOnce`) and marked external, as
are the MCU, the line and the message queues. `prompt`, chosen at the start, is whether
the MCU acknowledges within the 100 ms between two transmissions.

Answers carry a value and no topic. The two LiDARs share the values 3 and 4, a path, the
checks and the command that ends them the values 1 and 2. `Alone(t)` says that no other
topic with the values of `t` has been sent anything so far; the properties about who was
answered are limited to topics that are alone, and hold in every mode.

**`SerialDispatch`** is `serial_receiver` for frames 6 and 8, with the pool it owns
(`TaskLifecycle`, instantiated with `Copies` and with a guard on the number of
threads) and the loops of the two services. `Start` and `Enqueue`, `Stop` and
`Acknowledge` are the halves of a branch, because another thread may look between
the flag and `pool_request`; a start that changes nothing is no step. `Watch` is one
image in the first loop of `kfs_detector_controller`, `Look` and `Send` the loop that
sends, also that of `serial_send`. `patient` fixes at the start whether the MCU waits
for the old copy of a service to end before it starts it again.

**`PoseFailover`** composes the main loop of `laserMapping` (`Lio...`), the pose
sender (`Sender...`), the monitor `tf_monitorR2` (`Monitor...`), the restart callback
(`AskRestart`, `ScriptLowerPoint`) and `calibration2` (`Calibrate`, `ReceiverZero`). A
step is one access to a flag or to shared data. A pose is what it was computed with:
the calibration its frame is from, the calibration that zeroed the initial error. All
flags start raised, as `ThreadPool_flag` constructs them, so that a restart is due at the
start. Of `_TF_GET_` the model keeps `count_`, which alone decides who waits: `LioDrop` and
`LioCount` are the accesses of `push`, `LioClear` the last store of `clear`, `SenderPop` and
`SenderTake` (`SenderSkip`) the test and the decrement of `pop`. A clear between these two
wraps it around, as in `rcu_clear`; whose poses are popped then is not claimed. Several
odometry messages in one scan are several scans.

**`Labelling`** is what the decision about the field promises: a cell gets its class
once, a class of block within its limit.

**`FieldDecision`** is `supper2`. `See`, `Promote` and `Placed` are `set_place` with
the retry of `set_roi12_place`; `Classify` is `set_cls`; `FirstPass` one cell of the
first loop of `set_post_cls`; `Fill`, `Infer` and `PutOff` a turn of its second loop,
by what becomes of the cell that was chosen. `Best` is the search for a maximum,
`Open` the cells it chooses from. The networks answer anything. `MCFieldDecision`
gives a field. A cell is its index, confidences and probabilities are hundredths; `Sure`
is the band of the first pass, in which cells of different confidence are taken by
position. The branch of `set_cls` for a class outside the table (`super2.h:238-241`) is
left out: the table (`super2.h:27`) has only 1 to 32.

**`ThreadPool_proof`**, **`SerialStream_proof`**, **`SerialNoise_proof`**, **`RcuQueue_proof`**,
**`CommandLink_proof`**, **`FieldDecision_proof`**, **`SerialDispatch_proof`**, **`PoseFailover_proof`** hold the theorems (section 5).

Operators whose name extends another's (`EnqueuePushNotifyWhenEmpty`,
`WaitChecksumStay`, ...) are plausible bugs of that operator. No specification uses
them; each shows that one property can fail.

## 3. Runs

| run | question | size and bounds |
|---|---|---|
| `pool` | All interleavings of callers, workers and destructor: no lost task, no lost wake-up, refinement of `TaskLifecycle`, every accepted task runs, shutdown ends | 3 workers, 2 callers, 4 tasks (one endless), queue of 2 |
| `pool_drop` (violated) | Does a full queue discard its oldest task, as `src/README.md:90` says? | as `pool` |
| `serial_clean` | Frames with heads and ends inside the data, cut into calls anywhere: every payload once, in order, with its own header; no relocation frames | 4-bit bytes, length at most 2, 3 frames |
| `serial_noisy` | One fault at any byte: buffer, containment, resynchronisation | 3-bit bytes, length at most 5, 3 frames, 1 fault |
| `serial_cut` (violated) | Does a frame cut between calls keep its id, as `doc/01` says of resuming? | as `serial_clean` |
| `rcu_ring` | Order until the ring was full, nothing from before a clear, freshness of `get_latest`, progress, with `clear` at any point | ring of 2, 3 pushes, any number of clears, counter modulo 4 |
| `rcu_clear` (violated) | Does the lock in `clear` keep the writing operations apart, as its comment says? | ring of 2, 4 pushes |
| `link_all` | Lost, repeated and late messages, shutdown, restart, an MCU that is prompt or not, every mode and a self-check: commands are carried out once, and before they are reported; flips, delivery, progress | 5 kinds of command, 3 modes, 1 device, 2 commands, queues of 1, 1 frame in flight each way, 1 restart |
| `link_both` (violated) | Do the values 3 and 4 avoid a conflict of answers, as `control_center.py:157` says? | mode 3, 1 command, queues of 2 |
| `field` | Any answers of two networks, a retry, a shutdown at any point: refinement of `Labelling`, the likeliest cells placed, cells served in the code's order, none left out while its class can be had, an end | 4 cells, limits 1, 1, 0 and 2, 2 blocks, 4 detections, confidences 50, 80, 99 and 100 |
| `services` | Any sequence of starts and stops of two services, patient MCU or not, a shutdown: what runs is what was asked for, and the end waits for no service | 4 enqueued copies, 2 threads, 2 places |
| `pose` | Two sources of poses, restart, calibration, end on shared flags: no lost restart, frame and error agree in the end, no thread stays | queue of 2, counter modulo 3, 2 events |

Why the bounds are enough. *Pool*: with 4 tasks and a queue of 2 a push meets an
empty, a partly filled and a full queue, with workers busy for ever, sleeping and on
their way; two callers push between each other's unlock and notification. The proofs
cover all sizes. *Serial*: a byte has as many values as the parser tells apart;
`serial_clean` chooses lengths that fill the buffer and data equal to the frame head,
`serial_noisy` frames that contain no second head (`PlainLine`, an assumption of
`MCSerialStream` that TLC evaluates), because a head inside data can always make a
byte-wise parser lose further frames; its head bytes lie to the longest length as
0xAA and 0x55 lie to 128, which matters when one is taken for a length; the longest
frame after a fault, followed by enough frames to resynchronise, fits. A length above `MaxLength` arises there from a
damaged length byte. *Ring*: 3 pushes wrap a ring of 2, clear it
full or not and use it again; a counter modulo 4 distinguishes a wrapped count from a full
ring. *Link*: two commands follow each other on one topic or on two, with the first one's
messages and answers still on their way, before and after a restart; a value comes back
only with the third command of a topic, and longer queues hold several old messages: the
proofs cover both. *Field*: four cells are enough
for two cells that are named alike and compete, with empty ones beside them and a class
that is given by inference only (the network names class 1 or none); the detections have too many, too few and just enough likely cells,
one of them with fewer non-zero cells than blocks; the confidences are below
and above the thresholds of the code, two of them inside the band of the first pass.
Limits of 1 and 0 make classes full at once and let the inference fire. *Services*: two copies of one service and one of the other fill
both threads and leave one waiting, with a fourth to come. *Pose*: two events are two
restarts, two calibrations, or one of each, at any point of five threads; a queue of 2
with a counter modulo 3 overflows, is cleared under a pop and wraps around.

Bounds by name: `MaxFrames`, `MaxFaults`, `MaxPush`, `LinkMax`, `MaxCommands`,
`MaxRestarts`, `Copies`, `MaxEvents`, `Detections`, `Confs`, `Kinds`. `Workers`,
`MaxQueue`, `Cells`, `BoxNum`, `Limit`, `TasksMax`, `MaxSize`, `MaxLength`,
`SubQueue`, `AnswerQueue` are limits of the program, scaled down. `CountMod` stands
for 2^64. Deadlock checking is off where a bounded run ends by itself (all tasks run
and the pool destroyed, all elements pushed, all commands given, all threads gone).

### Fairness

* `ThreadPool`: a worker that can run does, a call that was begun goes on. Nobody
  must submit, destroy or clear the flag, and no wake-up is spurious on demand. The
  operating system schedules runnable threads. Weak fairness suffices since a
  worker's step stays enabled until it, or another worker's, is taken.
* `SerialStream`: the receiver polls for ever (weak). `ReadByte` has strong fairness: a
  byte that was written arrives, and although `ReturnEmpty` may end any call before
  it, a parser that is called again and again gets to read it.
* `RcuQueue`: a push or clear that was begun completes, and the consumer polls. Nobody
  must push or clear.
* `CommandLink`: the publish timer, the answer callback and the loop in the callback
  are weakly fair. Taking a message is strongly fair, on the robot while the run flag is up, because message and frame may
  be lost each time but not for ever: what is repeated every 100 ms gets through at
  last. This is the usual assumption for a lossy link with retransmission. The
  operator need not do anything.
* `FieldDecision`: one thread runs the functions and never waits (weak).
* `SerialDispatch`: the receiver and each copy run (weak). No fairness for the MCU,
  nor for what the images show.
* `PoseFailover`: the threads run (weak). Strong fairness for `LioScan`/`LioReset`
  (scans keep arriving although `LioWait` is possible each time), for `LioPublish`
  (Point-LIO is not for ever without an initialised filter), for `SenderTake` (not
  every pose is no number or out of date) and for `MonitorLatest`: the queue is not
  empty again and again, and a monitor that asks for the latest element twice as often
  as poses arrive sees one at last. A Point-LIO that falls silent for good is thereby
  excluded, see section 4. `CalibrationReachesPose` and `RestartIsServed` need these;
  `ThreadsEnd` does not.

## 4. What the runs found

* `pool_drop`: a full pool refuses the newest task (`threadpool.h:79-85`), as
  `TaskLifecycle` says; `src/README.md:90` says that it discards the oldest.
* `serial_cut`: the id and the length are written to the variables of the call that
  reads those bytes; a frame whose rest arrives in a later call is returned with id
  0 and is ignored by the dispatcher. The doc says that reading resumes.
* `rcu_clear`: `pop` does not take the mutex of `clear`; a `pop` under way decrements
  `count_` below zero.
* `link_both`: a second answer of the first LiDAR ends the restart of the second,
  because both topics begin with 3 and answers do not name their topic.

Known limits of properties that hold:

* `InOrderUntilFull` and `PushedIsPopped` stop at a `push` that finds the ring
  full, until the next clear. From then on `push` and `pop` both load and store `head_`, one update can be
  lost, and elements are delivered again or skipped. No comment promises otherwise, so
  this is a hazard and not a finding. They and `LatestIsFresh` end for good with a `clear` that
  overlaps a call of `pop` or `get_latest` (`torn`): that is the finding of `rcu_clear`.
* `EveryFrameDelivered` is about a line without relocation frames. After one the receiver
  drops what has arrived (`controlR2.h:550`), other frames included; that is `BytesLost` in
  `serial_noisy`.
* `DispatchedHeadersTrue` says that an id other than 0 is the frame's own. Together
  with `serial_cut` it describes the code: the id is right or missing, never another
  frame's.
* `DeliveredWhenAnswered` is conditional on `prompt`: the MCU acknowledges within the
  100 ms between two transmissions. Without it the property fails: a late
  acknowledgement of one path ends the transmission of the next one. For the same
  reason the restart of the robot's process is taken to last longer than such an
  MCU (the guard of `RobotRestart`): an acknowledgement that the old process was due and
  the new one reads would clear the flag of the next issue.
* It has two exceptions, in which the code does report as delivered what was not
  (`unsent`). When the run flag falls, the transmission ends and the value is answered
  (`controlR2.cpp:177-183`, `:256-262`). When the file is missing or empty the value is not
  answered, but its next repetition is.
* `AnsweredMeansApplied`, `AppliedOnce`, `NextValueIsNew` and `DeliveredWhenAnswered` are
  limited to topics that are alone with their values. A path and a self-check use the same
  values, and so do the two LiDARs: there a late answer of one ends the other, which is
  `link_both`.
* `CommandsEnd` needs somebody to answer the topics of `ElsewhereTopics`. In the repository
  nobody does: a restart of the second LiDAR or a check that was started would be repeated
  for ever, and every later command wait.
* `AppliedOnce` is also limited to executions without a restart of the robot: afterwards
  the callbacks have forgotten their last values and carry an unanswered value out
  again.
* `OneCopy` and `ReportedWasSeen` are conditional on a patient MCU. Without it two
  copies run after a stop and a start in quick succession, and the KFS detector
  reports an object gone that it still sees: the stop ends its first loop, the start
  raises the flag again before the second loop looks at it. Nothing in the repository
  says which of the two the MCU is. A refusal by a full pool (`controlR2.h:569`) is what
  `RequestIsTrue` names as its exception; a patient MCU meets none.
* `PlacesTheBest` compares the placement with the detection that is kept. The model has
  one detection, from which the loss is computed as well, so a stale copy of either
  cannot arise in it.
* `ServedInOrder` says what the code does: all but certain cells are taken by position, so
  that one of 0.985 at a lower index comes before one of 0.999. `LeftOutOnlyWhenTaken` has
  a margin of one after an inference, because the counts then run ahead of the labels.
* `RestartIsServed` excludes a restart requested between the beginning of a reset and
  the lowering of the flag (`laserMapping2.cpp:664`); that request is answered and
  lost.
* `tf_monitorR2` waits in its callback for an element of `_TF_GET_`
  (`controlR2.cpp:373`). If Point-LIO is silent it waits until the program ends, and
  the fallback to Fast-LIO never comes into force. The fallback is short in any case:
  the sender raises `_POINT_LIO_RUN_FLAG_` again when its next round begins, and
  `ros::Rate` does not sleep after a round longer than its period.
* A robot that is slow while the odometries disagree sends the x and y that were last
  stored until one of the two changes; `MaxEvents` bounds the disagreements.
* `Labelling` limits the three classes of blocks only. The first pass of
  `set_post_cls` gives class 4 after a test of the class the other network named
  (`super2.h:300`), so class 4 can exceed its limit.
* After an inference `now_count` is no longer the number of labels: the cell counts
  for every class with one place left (`super2.h:393`). `isnt_filled_count` is the
  number of times the maximum advanced and not of cells left, so an inference may come
  long before one cell is left. That no block class becomes over-full all the same is
  `KeepsLabelling`.
* `DecisionEnds` excludes the state in which `set_place` spins because no cell with a
  non-zero probability is left (`super2.h:648`).
* In `CommandLink` each handler of the console is one step. The console has two
  threads without a lock; their races are listed as hazards and planned.

## 5. Proofs

All theorems hold for every value of the constants under the named assumption of
their module, in particular `PoolAssumption` (finite sets of threads and tasks, at
least one worker) and `SerialAssumption` (head, end and length are bytes; frames carry
between 1 and `MaxLength` bytes). That 2^Width is a natural number is part of the
latter: the provers know nothing of exponentiation. `XorAssumption` says of `^` that it
yields a byte, and another byte when one of its arguments changes.

`ThreadPool_proof`:

* `TypeCorrect`: `TypeOK` is inductive.
* `WakeupsSuffice`: `NoLostWakeup` counts workers on their way and notifications to be
  sent; with `TypeOK` it is inductive, by two lemmas about how one element that
  changes its place changes the cardinalities (`LeavesPlace`, `EntersPlace`). Pushing
  one task adds one notification; a notification becomes a worker at `check`; a
  worker that takes a task removes one of both; a worker goes to sleep only when
  the queue is empty.
* `EveryTaskAccountedFor`: the queue has no duplicates and agrees with `fate`, and so do
  the workers' hands.
* `ShutdownIsClean`: needs in addition that `stop` and the owner's place agree, and that
  a worker returns only when the queue is empty and nothing can be pushed any more.
* `PoolKeepsLifecycle`: refinement; each step maps to a lifecycle step or a stutter,
  with the number of accepted tasks equal to the length of the queue.

`SerialStream_proof`:

* `PayloadsArriveInOrder`, `HeadersNeverMixed`: the invariant `CleanInv` ties the parser's
  state to the reading position: `PositionInv` says which offset of `Encode(f)` each
  state is at, `BufferInv` that the buffer holds the data read so far, `CallInv` that
  the call's id is 0 or the frame's. Neither property is inductive without it: that
  the checksum compared is the frame's own follows only from where the parser is.
* `BufferIsSafe`: for any damage and loss. Its invariant separates what no fault
  disturbs (`ParserOK`, the parser's own bounds) from the reading position (`PlaceOK`,
  `LineShape`, `FaultsOK`).

`SerialNoise_proof` (for any number of faults):

* `DamageContainedHolds`: a frame is on the line as it was encoded or, if damaged, with one
  wrong byte behind its head (`OnLine`), and the parser is in step with it (`InStep`), or
  has given it up at the checksum and has only its end byte to skip (`ContainInv`).
  That the checksum notices one wrong byte is `OneByteShows`; two wrong bytes can
  cancel out, so the theorem, like the model, has one in each frame. The lemma is about
  the function `calculateXORcheck` for data of any length: the induction is made with
  sets (`Induction`), on the library's theorem that the naturals are well-founded.
* `ResyncsHolds`: behind the last fault the parser is in one of six situations
  (`Recovering`): in the frame the fault struck, at the start of the next in any state,
  with that one's head taken for an id, swallowing frames as data, looking for a head,
  or in step since frame s. What it can still swallow is a budget: bytes read
  since the fault and bytes it waits for (`Debt`) are at most MaxLength + 2, and a frame
  has at least seven. The condition `PlainLine` on the frames is part of the property.
  Looking for this invariant showed that the history variable `mark` went back to an
  earlier frame when bytes were lost just behind a changed head; it now keeps the last
  frame a fault touched.

`RcuQueue_proof` (from `RingAssumption`: a size of at least one, and a counter that can
count two beyond it). The first lemmas are the arithmetic of a
ring: less than one round apart, two elements have different slots (`SlotsApart`).

* `TypeCorrect`: also in a full queue, where push and pop both move `head_`.
* `LatestIsFreshHolds`: the slot behind `tail_` holds an element at least as new as the
  last one completed, and a slot is only ever overwritten with the newest element
  (`FreshInv`). It does not matter that the queue overflows. A clear in the middle of a call
  is excepted (`torn`).
* `InOrderUntilFullHolds`: until a push finds the queue full, `tail_`, `head_` and `count_`
  are functions of how many elements were written and popped since the last clear and of where the two
  threads are, and the slots between hold the elements in order (`OrderInv`).

`CommandLink_proof` (from `LinkAssumption`: queues with at least one place, modes 1 to 3,
and a `None` that is no topic):

* `TypeCorrect`: in every mode, with every fault.
* `AnsweredValueIsSpentHolds`: in every mode, whenever it is changed. The invariant
  `CourseOK` ties what is being sent to the current command, the mode and the stage;
  it is inductive because `set_lidar_mode` refuses while a restart is queued or sent.
* `AppliedOnceHolds`, `NextValueIsNewHolds`, `AnsweredMeansAppliedHolds`, `AnswersKeepApart`:
  in every mode and with self-checks, for topics that are alone with their values. For the
  others they cannot hold, because an answer does not say which topic it belongs to; the
  run `link_both` shows `AnswersDoNotConflict` fail.

  All four come from one invariant, `LinkInv`. A topic that was never sent is silent:
  nothing of it is anywhere, so nothing of it can be taken for another's (`Silent`). For
  a topic that is alone the invariant says which values may be where (`PhaseOK`): the new
  value follows the old one in the subscriber's queue and in the answers (`InOrder`);
  once the robot has taken it, only it is left on its way (`Taken`); until a restart
  whatever is old on its way is what the robot remembers as `last` (`Known`); between two
  issues the next value is nowhere (`Quiet`). `Phase` states this over values instead of
  variables, so that each handler's effect on it is a lemma of its own (`PhaseReceives`,
  `PhaseAnswers`, ...). The callback that ends the self-checks remembers nothing, so its
  topic is treated as after a restart (`Count`).
* `DeliveredWhenAnsweredHolds`: in every mode, with a prompt MCU, with the run flag falling
  and the file empty at any time. `PromptLine` says that at most one frame or
  acknowledgement is on the line, of the topic the script thread waits for and with its
  flag raised, and that a lowered flag means the MCU holds the buffer; `Held` that what
  the robot is through with is held by the MCU or counted as unsent. A new issue begins in
  `Quiet`, where the robot is through with no value.

`FieldDecision_proof` (from `FieldAssumption`: finitely many cells, limits are naturals,
probabilities and confidences are hundredths):

* `TypeCorrect` and `CountsMatch` (`CountsMatchUntilInferred`: now_count counts the
  labels) share the invariant that now_count is the number of labels or, once one was
  inferred, one more in a class that has reached its limit (`Drift`).
* `DecisionKeepsLabelling`: each step maps to `Labelling!Next` or a stutter. `Drift`
  is what makes it true: the code tests its drifting counts, and a count that is too
  high can only refuse.
* `PlacesTheBestHolds`: the invariant is that a placed cell is at least as likely as
  any cell not placed, kept by each `Promote` because it takes a maximum.
* `OnlyInferenceDeviatesHolds` (a label not inferred agrees with the networks),
  `ServedInOrderHolds`, `LeftOutOnlyWhenTakenHolds`: one invariant (`DInv`)
  about the cells that were tried (`TriedFull`: the class such a cell was refused for
  is full, and stays so, since counts only grow) and about the order in which cells
  are chosen, within the first pass and behind it. A count is at most one above the
  labels, and only after an inference.

`SerialDispatch_proof` (from `DispatchAssumption`, which asks for at least two places in
the pool; the code has ten). `WorkDoes` says once what a step of a copy changes.

* `RequestIsTrueHolds`: flag and `pool_request` differ only while the receiver is between
  the two assignments, and then in one direction.
* `OneCopyHolds`: at most one copy of a service is active, and none while the receiver is
  about to enqueue it; hence at most one task waits and the pool refuses none.
* `ReportedWasSeenHolds`: a copy of the KFS detector past its first loop saw the object go
  or finds its flag lowered, and a patient MCU does not raise it while the copy lives.

`PoseFailover_proof`: `TypeCorrect`; the count of the queue wraps, but stays in its type.

Only model-checked: all liveness (`AcceptedTasksRun`, `DestructorReturns`,
`EveryFrameDelivered`, `PushedIsPopped`, `CommandsEnd`, `DecisionEnds`,
`ShutdownLeaves`, `RestartIsServed`, `CalibrationReachesPose`, `ThreadsEnd`), which
TLAPS does not do under fairness. Every safety invariant and action property of the
passing runs has a theorem.

## 6. Plan

Done: pool, serial stream, sensor queue, command link, in this order because every
other thread of the robot stands on the first three, and the link is where four
parties have to agree; then the receiver's dispatch, the pose sender with its
failover, and the decision about the field. What is left, in order of importance:

1. The console's two threads: `start_publish_loop` and `process_next_command` split at
   their reads.
2. `serial_read` of R1 beside `serial_read2`; the two locks of `Ten_serial`.
3. The driver's packet queues, the batches of the mapping thread and the cameras'
   reconnection.

## 7. Not modelled

Odometry, registration, filters, transforms and recognition are floating-point or
image arithmetic. Device I/O, window drawing, logging, parameter files and debug
programs have no protocol of their own. The mapping loop (`R2_mapping_fast`) looks
only at its own flag and shares nothing with the threads above but that flag. The
unsynchronised deques of `li_initialization.cpp` have no bounded set of outcomes.
Frame contents, file contents and sensor data are abstract values. The vendored
libraries (nano_gicp, ikd-tree and ivox, IKFoM, RapidJSON, nlohmann json, the vendor's
part of the LiDAR driver) are not the program's own. Somebody who answers
`/scripts/restart_lidar2` or the topics that start a self-check is missing from the
repository and taken from how the console uses it; `/scripts/check`, to which the robot
listens, has no publisher there, and its callback is left out. The command that ends the
self-checks has both ends and is modelled. What the devices do in a check is device I/O.
