--------------------------- MODULE CommandLink_proof ---------------------------
(***************************************************************************)
(* Proofs about CommandLink, for any queue sizes and any number of         *)
(* commands and restarts.                                                  *)
(***************************************************************************)
EXTENDS CommandLink, TLAPS

\* The constants.

LEMMA TopicsAre ==
  /\ {"send_path", "send_param", "restart_lidar", "restart_lidar2", CheckOff} \subseteq Topics
  /\ FileTopics \subseteq Topics /\ RestartTopics \subseteq Topics /\ Devices \subseteq Topics
  /\ CheckOff \notin FileTopics \cup RestartTopics \cup Devices
  /\ \A t \in FileTopics : t \notin RestartTopics \cup Devices
BY LinkAssumption DEF LinkAssumption, Topics, FileTopics, RestartTopics, CheckOff

LEMMA PairIs == \A t \in Topics : Pair[t] \in {{1, 2}, {3, 4}, {5, 6}}
BY DEF Pair

LEMMA PairPositive == \A t \in Topics : \A v \in Pair[t] : v \in Nat /\ v # 0
BY PairIs

LEMMA FirstValueOK == \A t \in Topics : FirstValue(t) \in Pair[t]
<1> SUFFICES ASSUME NEW t \in Topics PROVE FirstValue(t) \in Pair[t]
  OBVIOUS
<1>1. \E v \in Pair[t] : \A w \in Pair[t] : v <= w
  <2>1. CASE Pair[t] = {1, 2} BY <2>1
  <2>2. CASE Pair[t] = {3, 4} BY <2>2
  <2>3. CASE Pair[t] = {5, 6} BY <2>3
  <2> QED BY <2>1, <2>2, <2>3, PairIs
<1> QED BY <1>1 DEF FirstValue

\* A topic has two values.
LEMMA OtherIs ==
  \A t \in Topics : \A v \in Pair[t] :
    /\ Other(t, v) \in Pair[t] /\ Other(t, v) # v
    /\ \A w \in Pair[t] : w # v => w = Other(t, v)
<1> SUFFICES ASSUME NEW t \in Topics, NEW v \in Pair[t]
             PROVE  /\ Other(t, v) \in Pair[t] /\ Other(t, v) # v
                    /\ \A w \in Pair[t] : w # v => w = Other(t, v)
  OBVIOUS
<1>0. Pair[t] = {1, 2} \/ Pair[t] = {3, 4} \/ Pair[t] = {5, 6} BY PairIs
<1>1. \E w \in Pair[t] : w # v
  <2>1. CASE Pair[t] = {1, 2} BY <2>1
  <2>2. CASE Pair[t] = {3, 4} BY <2>2
  <2>3. CASE Pair[t] = {5, 6} BY <2>3
  <2> QED BY <1>0, <2>1, <2>2, <2>3
<1>2. Other(t, v) \in Pair[t] /\ Other(t, v) # v BY <1>1 DEF Other
<1>3. \A w \in Pair[t] : w # v => w = Other(t, v) BY <1>0, <1>2
<1> QED BY <1>2, <1>3

LEMMA QueueSizeOK == \A t \in Topics : QueueSize(t) \in Nat \ {0}
BY LinkAssumption DEF LinkAssumption, QueueSize

LEMMA FirstTopicOK ==
  \A c \in Commands : FirstTopic(c) \in Topics /\ FirstTopic(c) # None /\ c # None /\ c \in Topics
BY LinkAssumption, TopicsAre DEF LinkAssumption, FirstTopic, CheckOff
-----------------------------------------------------------------------------
\* Queues.

LEMMA TailGives ==
  ASSUME NEW S, NEW s \in Seq(S), s # <<>>
  PROVE  /\ Tail(s) \in Seq(S) /\ Len(Tail(s)) = Len(s) - 1 /\ Len(s) >= 1
         /\ Head(s) = s[1] /\ s[1] \in S
         /\ \A i \in 1..(Len(s) - 1) : Tail(s)[i] = s[i + 1]
OBVIOUS

LEMMA AppendGives ==
  ASSUME NEW S, NEW s \in Seq(S), NEW m \in S
  PROVE  /\ Append(s, m) \in Seq(S) /\ Len(Append(s, m)) = Len(s) + 1
         /\ Append(s, m)[Len(s) + 1] = m
         /\ \A i \in 1..Len(s) : Append(s, m)[i] = s[i]
OBVIOUS

LEMMA SubSeqGives ==
  ASSUME NEW S, NEW s \in Seq(S), NEW k \in 1..(Len(s) + 1), NEW n \in 0..Len(s)
  PROVE  /\ SubSeq(s, k, n) \in Seq(S)
         /\ Len(SubSeq(s, k, n)) = IF k <= n THEN n - k + 1 ELSE 0
         /\ \A i \in 1..Len(SubSeq(s, k, n)) : SubSeq(s, k, n)[i] = s[k + i - 1]
OBVIOUS

\* A queue that takes a message keeps the others in order, but for the oldest (d = 1).
Takes(s, m, r) ==
  \E d \in {0, 1} :
    /\ d <= Len(s) /\ Len(r) = Len(s) + 1 - d
    /\ r[Len(s) + 1 - d] = m
    /\ \A i \in 1..(Len(s) - d) : r[i] = s[i + d]

LEMMA OfferGives ==
  ASSUME NEW S, NEW s \in Seq(S), NEW m \in S, NEW size \in Nat \ {0}, Len(s) <= size
  PROVE  /\ Offer(s, m, size) \in Seq(S) /\ Len(Offer(s, m, size)) <= size
         /\ Takes(s, m, Offer(s, m, size))
<1> USE DEF Takes
<1>1. CASE Len(s) < size
  <2>1. Offer(s, m, size) = Append(s, m) BY <1>1 DEF Offer
  <2> QED BY <1>1, <2>1, AppendGives
<1>2. CASE Len(s) = size
  <2> DEFINE u == Tail(s)
  <2>1. Offer(s, m, size) = Append(u, m) BY <1>2 DEF Offer
  <2>2. s # <<>> BY <1>2
  <2>3. u \in Seq(S) /\ Len(u) = Len(s) - 1 /\ \A i \in 1..(Len(s) - 1) : u[i] = s[i + 1]
    BY <2>2, TailGives
  <2> HIDE DEF u
  <2>4. /\ Append(u, m) \in Seq(S) /\ Len(Append(u, m)) = Len(u) + 1
        /\ Append(u, m)[Len(u) + 1] = m
        /\ \A i \in 1..Len(u) : Append(u, m)[i] = u[i]
    BY <2>3, AppendGives
  <2>5. Append(u, m)[Len(s) + 1 - 1] = m /\ \A i \in 1..(Len(s) - 1) : Append(u, m)[i] = s[i + 1]
    BY <2>3, <2>4
  <2>6. Len(Append(u, m)) = Len(s) + 1 - 1 /\ 1 <= Len(s) BY <2>3, <2>4
  <2>7. Takes(s, m, Append(u, m)) BY <2>5, <2>6
  <2> QED BY <1>2, <2>1, <2>4, <2>6, <2>7
<1> QED BY <1>1, <1>2
-----------------------------------------------------------------------------
(* Types.  Beyond TypeOK: what the sequences hold, that every queued value  *)
(* is one of its topic, and that a callback in its loop has a value.        *)

ConsoleOK ==
  /\ queue \in Seq(Commands) /\ current \in Commands \cup {None}
  /\ sending \in [on : BOOLEAN, pub : Topics \cup {None}, value : Nat]
  /\ sending.on <=> current # None
  /\ sending.on => sending.pub \in Topics /\ sending.value \in Pair[sending.pub]
  /\ mode \in Modes /\ stage \in 0..2
  /\ nextValue \in [Topics -> Nat]
  /\ \A t \in Topics : nextValue[t] \in Pair[t]
  /\ check \in [Devices -> 0..6]

SubOK ==
  /\ sub \in [Topics -> Seq(Nat)]
  /\ \A t \in Topics :
       /\ Len(sub[t]) <= QueueSize(t)
       /\ \A i \in 1..Len(sub[t]) : sub[t][i] \in Pair[t]

RobotOK ==
  /\ last \in [Topics -> Nat]
  /\ \A t \in Topics : last[t] \in Pair[t] \cup {0}
  /\ serving \in FileTopics \cup {None}
  /\ serving # None => last[serving] # 0
  /\ buffer \in [FileTopics -> Nat] /\ flag \in [FileTopics -> BOOLEAN]
  /\ running \in BOOLEAN

AnswersOK ==
  /\ answers \in Seq([data : Nat, topic : Topics])
  /\ Len(answers) <= AnswerQueue
  /\ \A i \in 1..Len(answers) : answers[i].data \in Pair[answers[i].topic]

SerialOK ==
  /\ toMcu \in Seq([id : FileTopics, data : Nat]) /\ fromMcu \in Seq(FileTopics)
  /\ mcu \in [FileTopics -> Nat] /\ prompt \in BOOLEAN

HistoryOK ==
  /\ issue \in Nat /\ issued \in [Topics -> Nat]
  /\ applied \in [Topics -> [issue : Nat, times : Nat]] /\ restarts \in Nat
  /\ unsent \in [FileTopics -> Nat]

\* Nothing is newer than the last issue.
IssuesOK ==
  /\ \A t \in Topics : issued[t] <= issue /\ applied[t].issue <= issue
  /\ \A t \in FileTopics : buffer[t] <= issue /\ mcu[t] <= issue /\ unsent[t] <= issue
  /\ \A i \in 1..Len(toMcu) : toMcu[i].data <= issue

TypeInv == ConsoleOK /\ SubOK /\ RobotOK /\ AnswersOK /\ SerialOK /\ HistoryOK /\ IssuesOK

LEMMA TypeInvOK == TypeInv => TypeOK
<1> SUFFICES ASSUME TypeInv PROVE TypeOK
  OBVIOUS
<1>1. FileTopics \subseteq Topics BY DEF Topics
<1>2. \A i \in 1..Len(queue) : queue[i] \in Commands BY DEF TypeInv, ConsoleOK
<1>3. \A t \in Topics : issued[t] \in Issues /\ applied[t].issue \in Issues
  BY DEF TypeInv, HistoryOK, IssuesOK, Issues
<1>4. \A t \in FileTopics :
        buffer[t] \in Issues /\ mcu[t] \in Issues /\ flag[t] \in BOOLEAN /\ unsent[t] \in Issues
  BY DEF TypeInv, HistoryOK, IssuesOK, SerialOK, RobotOK, Issues
<1> QED BY <1>2, <1>3, <1>4 DEF TypeInv, ConsoleOK, SubOK, RobotOK, AnswersOK, TypeOK

LEMMA TypeInit == Init => TypeInv
<1> SUFFICES ASSUME Init PROVE TypeInv
  OBVIOUS
<1>1. ConsoleOK
  <2>1. \A t \in Topics : nextValue[t] \in Pair[t] BY FirstValueOK DEF Init
  <2>2. nextValue \in [Topics -> Nat] BY <2>1, PairPositive DEF Init
  <2>3. None \notin Topics BY LinkAssumption DEF LinkAssumption
  <2> QED BY <2>1, <2>2, <2>3 DEF Init, ConsoleOK, Idle
<1>2. SubOK BY QueueSizeOK DEF Init, SubOK
<1>3. RobotOK BY DEF Init, RobotOK
<1>4. AnswersOK BY LinkAssumption DEF Init, AnswersOK, LinkAssumption
<1>5. SerialOK BY DEF Init, SerialOK
<1>6. HistoryOK BY DEF Init, HistoryOK
<1>7. IssuesOK BY DEF Init, IssuesOK, Topics
<1> QED BY <1>1, <1>2, <1>3, <1>4, <1>5, <1>6, <1>7 DEF TypeInv
-----------------------------------------------------------------------------
\* What the operations the handlers share do.

\* A subscriber takes its oldest message, or it is lost.
LEMMA ArrivedGives ==
  ASSUME SubOK, NEW t \in Topics, Arrived(t)
  PROVE  /\ SubOK'
         /\ Len(sub[t]) >= 1 /\ Len(sub'[t]) = Len(sub[t]) - 1
         /\ Head(sub[t]) = sub[t][1] /\ sub[t][1] \in Pair[t]
         /\ \A i \in 1..Len(sub'[t]) : sub'[t][i] = sub[t][i + 1]
         /\ \A u \in Topics : u # t => sub'[u] = sub[u]
<1>1. sub[t] \in Seq(Nat) /\ sub[t] # <<>> /\ QueueSize(t) \in Nat
  BY QueueSizeOK DEF Arrived, SubOK
<1>2. sub' = [sub EXCEPT ![t] = Tail(sub[t])] BY DEF Arrived
<1>3. /\ Tail(sub[t]) \in Seq(Nat) /\ Len(Tail(sub[t])) = Len(sub[t]) - 1 /\ Len(sub[t]) >= 1
      /\ Head(sub[t]) = sub[t][1]
      /\ \A i \in 1..(Len(sub[t]) - 1) : Tail(sub[t])[i] = sub[t][i + 1]
  BY <1>1, TailGives
<1>4. sub'[t] = Tail(sub[t]) /\ \A u \in Topics : u # t => sub'[u] = sub[u] BY <1>2 DEF SubOK
<1>5. sub' \in [Topics -> Seq(Nat)] BY <1>2, <1>3 DEF SubOK
<1>6. \A i \in 1..Len(sub'[t]) : sub'[t][i] = sub[t][i + 1] /\ sub'[t][i] \in Pair[t]
  BY <1>1, <1>3, <1>4 DEF SubOK
<1>7. Len(sub'[t]) <= QueueSize(t) BY <1>1, <1>3, <1>4 DEF SubOK
<1>8. QueueSize(t)' = QueueSize(t) BY DEF QueueSize
<1>9. SubOK' BY <1>4, <1>5, <1>6, <1>7 DEF SubOK, QueueSize
<1> QED BY <1>1, <1>3, <1>4, <1>6, <1>9 DEF SubOK

\* Who looks at a queue after it took a message sees that message or an older one.
LEMMA TakesGives ==
  ASSUME NEW S, NEW s \in Seq(S), NEW r \in Seq(S), NEW m, Takes(s, m, r)
  PROVE  /\ \A i \in 1..Len(r) :
              \/ r[i] = m
              \/ \E k \in 1..Len(s) : r[i] = s[k]
         /\ \A i, j \in 1..Len(r) : i < j =>
              \/ r[j] = m
              \/ \E k, l \in 1..Len(s) : k < l /\ r[i] = s[k] /\ r[j] = s[l]
<1>1. PICK d \in {0, 1} :
        /\ d <= Len(s) /\ Len(r) = Len(s) + 1 - d
        /\ r[Len(s) + 1 - d] = m
        /\ \A i \in 1..(Len(s) - d) : r[i] = s[i + d]
  BY DEF Takes
<1>2. Len(s) \in Nat /\ Len(r) \in Nat OBVIOUS
<1>3. \A i \in 1..Len(r) : i # Len(s) + 1 - d =>
        i \in 1..(Len(s) - d) /\ i + d \in 1..Len(s) /\ r[i] = s[i + d]
  BY <1>1, <1>2
<1>4. ASSUME NEW i \in 1..Len(r)
      PROVE  r[i] = m \/ \E k \in 1..Len(s) : r[i] = s[k]
  BY <1>1, <1>3
<1>5. ASSUME NEW i \in 1..Len(r), NEW j \in 1..Len(r), i < j
      PROVE  r[j] = m \/ \E k, l \in 1..Len(s) : k < l /\ r[i] = s[k] /\ r[j] = s[l]
  <2>1. CASE j = Len(s) + 1 - d BY <1>1, <2>1
  <2>2. CASE j # Len(s) + 1 - d
    <3>1. i # Len(s) + 1 - d BY <1>1, <1>2, <1>5
    <3>2. i + d \in 1..Len(s) /\ j + d \in 1..Len(s) /\ r[i] = s[i + d] /\ r[j] = s[j + d]
      BY <1>3, <2>2, <3>1
    <3>3. i + d < j + d BY <1>5
    <3> QED BY <3>2, <3>3
  <2> QED BY <2>1, <2>2
<1> QED BY <1>4, <1>5

\* A value is published.
LEMMA OfferedGives ==
  ASSUME SubOK, NEW t \in Topics, NEW v \in Pair[t],
         sub' = [sub EXCEPT ![t] = Offer(@, v, QueueSize(t))]
  PROVE  /\ SubOK' /\ Takes(sub[t], v, sub'[t])
         /\ \A u \in Topics : u # t => sub'[u] = sub[u]
<1>1. sub[t] \in Seq(Nat) /\ QueueSize(t) \in Nat \ {0} /\ Len(sub[t]) <= QueueSize(t) /\ v \in Nat
  BY QueueSizeOK, PairPositive DEF SubOK
<1>2. sub'[t] = Offer(sub[t], v, QueueSize(t)) /\ \A u \in Topics : u # t => sub'[u] = sub[u]
  BY DEF SubOK
<1>3. sub'[t] \in Seq(Nat) /\ Len(sub'[t]) <= QueueSize(t) /\ Takes(sub[t], v, sub'[t])
  <2> DEFINE S == Nat  s == sub[t]  size == QueueSize(t)
  <2>1. s \in Seq(S) /\ v \in S /\ size \in Nat \ {0} /\ Len(s) <= size BY <1>1
  <2> HIDE DEF S, s, size
  <2>2. /\ Offer(s, v, size) \in Seq(S) /\ Len(Offer(s, v, size)) <= size
        /\ Takes(s, v, Offer(s, v, size))
    BY <2>1, OfferGives
  <2> QED BY <1>2, <2>2 DEF S, s, size
<1>4. sub' \in [Topics -> Seq(Nat)] BY <1>2, <1>3 DEF SubOK
<1>5. \A i \in 1..Len(sub'[t]) : sub'[t][i] \in Pair[t]
  <2>1. \A i \in 1..Len(sub'[t]) :
          sub'[t][i] = v \/ \E k \in 1..Len(sub[t]) : sub'[t][i] = sub[t][k]
    <3> DEFINE S == Nat  s == sub[t]  r == sub'[t]
    <3>1. s \in Seq(S) /\ r \in Seq(S) /\ Takes(s, v, r) BY <1>1, <1>3
    <3> HIDE DEF S, s, r
    <3>2. \A i \in 1..Len(r) : r[i] = v \/ \E k \in 1..Len(s) : r[i] = s[k]
      BY <3>1, TakesGives
    <3> QED BY <3>2 DEF s, r
  <2>2. \A k \in 1..Len(sub[t]) : sub[t][k] \in Pair[t] BY DEF SubOK
  <2> QED BY <2>1, <2>2
<1>6. SubOK' BY <1>2, <1>3, <1>4, <1>5 DEF SubOK, QueueSize
<1> QED BY <1>2, <1>3, <1>6

\* responseR2 queues an answer.
LEMMA RespondGives ==
  ASSUME AnswersOK, NEW t \in Topics, NEW v \in Pair[t], Respond(t, v)
  PROVE  AnswersOK' /\ Takes(answers, [data |-> v, topic |-> t], answers')
<1> DEFINE m == [data |-> v, topic |-> t]
           S == [data : Nat, topic : Topics]
<1>1. answers \in Seq(S) /\ AnswerQueue \in Nat \ {0} /\ Len(answers) <= AnswerQueue
  BY LinkAssumption DEF LinkAssumption, AnswersOK
<1>2. m \in S BY PairPositive
<1>3. answers' = Offer(answers, m, AnswerQueue) BY DEF Respond
<1>4. m.data \in Pair[m.topic] OBVIOUS
<1> HIDE DEF m, S
<1>5. answers' \in Seq(S) /\ Len(answers') <= AnswerQueue /\ Takes(answers, m, answers')
  BY <1>1, <1>2, <1>3, OfferGives
<1>6. \A i \in 1..Len(answers') : answers'[i].data \in Pair[answers'[i].topic]
  <2>1. \A i \in 1..Len(answers') :
          answers'[i] = m \/ \E k \in 1..Len(answers) : answers'[i] = answers[k]
    <3> DEFINE s == answers  r == answers'
    <3>1. s \in Seq(S) /\ r \in Seq(S) /\ Takes(s, m, r) BY <1>1, <1>5
    <3> HIDE DEF s, r
    <3>2. \A i \in 1..Len(r) : r[i] = m \/ \E k \in 1..Len(s) : r[i] = s[k]
      BY <3>1, TakesGives
    <3> QED BY <3>2 DEF s, r
  <2>2. \A k \in 1..Len(answers) : answers[k].data \in Pair[answers[k].topic] BY DEF AnswersOK
  <2> QED BY <1>4, <2>1, <2>2
<1>7. AnswersOK' BY <1>5, <1>6 DEF AnswersOK, S
<1> QED BY <1>5, <1>7 DEF m

\* The console takes the oldest answer.
LEMMA AnswerTaken ==
  ASSUME AnswersOK, answers # <<>>, answers' = Tail(answers)
  PROVE  /\ AnswersOK'
         /\ Len(answers) >= 1 /\ Head(answers) = answers[1]
         /\ Len(answers') = Len(answers) - 1
         /\ \A i \in 1..Len(answers') : answers'[i] = answers[i + 1]
<1> DEFINE S == [data : Nat, topic : Topics]
<1>1. answers \in Seq(S) /\ Len(answers) \in Nat /\ AnswerQueue \in Nat
  BY LinkAssumption DEF LinkAssumption, AnswersOK
<1> HIDE DEF S
<1>2. /\ answers' \in Seq(S) /\ Len(answers') = Len(answers) - 1 /\ Len(answers) >= 1
      /\ Head(answers) = answers[1]
      /\ \A i \in 1..(Len(answers) - 1) : answers'[i] = answers[i + 1]
  BY <1>1, TailGives
<1>3. \A i \in 1..Len(answers') : answers'[i] = answers[i + 1] /\ i + 1 \in 1..Len(answers)
  BY <1>1, <1>2
<1>4. AnswersOK' BY <1>1, <1>2, <1>3 DEF AnswersOK, S
<1> QED BY <1>2, <1>3, <1>4

\* process_next_command either finds nothing to start or starts one command.
Halts == current' = None /\ sending' = Idle /\ stage' = 0 /\ UNCHANGED <<sub, issue, issued>>
Starts(values) ==
  \E c \in Commands :
    /\ current' = c
    /\ stage' = IF c = "restart_lidar" /\ mode = 3 THEN 1 ELSE 0
    /\ Send(FirstTopic(c), values[FirstTopic(c)])

Shown == [Devices -> 0..6]

LEMMA ProcessNextGives ==
  ASSUME NEW q \in Seq(Commands), NEW values, NEW shown \in Shown, ProcessNext(q, values, shown)
  PROVE  queue' \in Seq(Commands) /\ stage' \in 0..2 /\ check' \in Shown /\ (Halts \/ Starts(values))
<1>1. CASE /\ queue' = <<>> /\ current' = None /\ sending' = Idle /\ stage' = 0
           /\ check' = shown /\ UNCHANGED <<sub, issue, issued>>
  BY <1>1 DEF Halts
<1>2. ASSUME NEW n \in Startable(q), Start(q, n, values, shown)
      PROVE  queue' \in Seq(Commands) /\ stage' \in 0..2 /\ check' \in Shown /\ Starts(values)
  <2>1. n \in 1..Len(q) /\ q[n] \in Commands BY DEF Startable
  <2>2. n + 1 \in 1..(Len(q) + 1) /\ Len(q) \in 0..Len(q) BY <2>1
  <2>3. queue' \in Seq(Commands) BY <1>2, <2>2, SubSeqGives DEF Start
  <2>4. stage' \in 0..2 BY <1>2 DEF Start
  <2>5. Starts(values) BY <1>2, <2>1 DEF Start, Starts
  <2>6. check' \in Shown BY <1>2 DEF Start, Shown, ShownAtStart
  <2> QED BY <2>3, <2>4, <2>5, <2>6
<1> QED BY <1>1, <1>2 DEF ProcessNext

\* The console sets out to send a value.
LEMMA SendGives ==
  ASSUME SubOK, HistoryOK, IssuesOK, NEW t \in Topics, NEW v \in Pair[t], Send(t, v)
  PROVE  /\ SubOK' /\ Takes(sub[t], v, sub'[t])
         /\ \A u \in Topics : u # t => sub'[u] = sub[u] /\ issued'[u] = issued[u]
         /\ sending'.on /\ sending'.pub = t /\ sending'.value = v
         /\ sending' \in [on : BOOLEAN, pub : Topics \cup {None}, value : Nat]
         /\ issue' = issue + 1 /\ issued'[t] = issue'
         /\ issued' \in [Topics -> Nat] /\ \A u \in Topics : issued'[u] <= issue'
<1>1. sub' = [sub EXCEPT ![t] = Offer(@, v, QueueSize(t))] BY DEF Send
<1>2. /\ SubOK' /\ Takes(sub[t], v, sub'[t])
      /\ \A u \in Topics : u # t => sub'[u] = sub[u]
  BY <1>1, OfferedGives
<1>3. issue' = issue + 1 /\ issued' = [issued EXCEPT ![t] = issue + 1] BY DEF Send
<1>4. /\ issued' \in [Topics -> Nat] /\ issued'[t] = issue'
      /\ \A u \in Topics : (u # t => issued'[u] = issued[u]) /\ issued'[u] <= issue'
  BY <1>3 DEF HistoryOK, IssuesOK
<1>5. v \in Nat BY PairPositive
<1>6. /\ sending' \in [on : BOOLEAN, pub : Topics \cup {None}, value : Nat]
      /\ sending'.on /\ sending'.pub = t /\ sending'.value = v
  BY <1>5 DEF Send
<1> QED BY <1>2, <1>3, <1>4, <1>6

\* A callback takes a value for a new one.
LEMMA CarryOutGives ==
  ASSUME HistoryOK, IssuesOK, NEW t \in Topics, CarryOut(t)
  PROVE  /\ applied' \in [Topics -> [issue : Nat, times : Nat]]
         /\ applied'[t].issue = issued[t]
         /\ applied'[t].times = IF applied[t].issue = issued[t] THEN applied[t].times + 1 ELSE 1
         /\ \A u \in Topics : applied'[u].issue <= issue /\ (u # t => applied'[u] = applied[u])
<1> DEFINE e == [issue |-> issued[t],
                 times |-> IF applied[t].issue = issued[t] THEN applied[t].times + 1 ELSE 1]
<1>1. e \in [issue : Nat, times : Nat] /\ e.issue = issued[t]
      /\ e.times = IF applied[t].issue = issued[t] THEN applied[t].times + 1 ELSE 1
  BY DEF HistoryOK
<1>2. applied' = [applied EXCEPT ![t] = e] BY DEF CarryOut
<1> HIDE DEF e
<1>3. applied'[t] = e /\ \A u \in Topics : u # t => applied'[u] = applied[u]
  BY <1>2 DEF HistoryOK
<1>4. applied' \in [Topics -> [issue : Nat, times : Nat]] BY <1>1, <1>2 DEF HistoryOK
<1> QED BY <1>1, <1>3, <1>4 DEF IssuesOK

LEMMA Untouched ==
  /\ ConsoleOK /\ UNCHANGED console => ConsoleOK'
  /\ SubOK /\ UNCHANGED sub => SubOK'
  /\ RobotOK /\ UNCHANGED robot => RobotOK'
  /\ AnswersOK /\ UNCHANGED answers => AnswersOK'
  /\ SerialOK /\ UNCHANGED serial => SerialOK'
  /\ HistoryOK /\ UNCHANGED <<history, restarts>> => HistoryOK'
  /\ IssuesOK /\ UNCHANGED <<history, buffer, mcu, toMcu>> => IssuesOK'
<1>1. ConsoleOK /\ UNCHANGED console => ConsoleOK' BY DEF ConsoleOK, console
<1>2. SubOK /\ UNCHANGED sub => SubOK' BY DEF SubOK, QueueSize
<1>3. RobotOK /\ UNCHANGED robot => RobotOK' BY DEF RobotOK, robot
<1>4. AnswersOK /\ UNCHANGED answers => AnswersOK' BY DEF AnswersOK
<1>5. SerialOK /\ UNCHANGED serial => SerialOK' BY DEF SerialOK, serial
<1>6. HistoryOK /\ UNCHANGED <<history, restarts>> => HistoryOK' BY DEF HistoryOK, history
<1>7. IssuesOK /\ UNCHANGED <<history, buffer, mcu, toMcu>> => IssuesOK' BY DEF IssuesOK, history
<1> QED BY <1>1, <1>2, <1>3, <1>4, <1>5, <1>6, <1>7

\* The console with new values goes on, or halts.
LEMMA ConsoleGoesOn ==
  ASSUME TypeInv, mode' = mode, nextValue' \in [Topics -> Nat],
         \A t \in Topics : nextValue'[t] \in Pair[t],
         queue' \in Seq(Commands), stage' \in 0..2, check' \in Shown, Halts \/ Starts(nextValue')
  PROVE  /\ ConsoleOK' /\ SubOK' /\ issue' \in Nat /\ issue <= issue'
         /\ issued' \in [Topics -> Nat] /\ \A t \in Topics : issued'[t] <= issue'
<1> USE DEF TypeInv, Shown
<1>1. CASE Halts
  <2>1. ConsoleOK' BY <1>1 DEF ConsoleOK, Halts, Idle
  <2>2. SubOK' BY <1>1, Untouched DEF Halts
  <2> QED BY <1>1, <2>1, <2>2 DEF Halts, HistoryOK, IssuesOK
<1>2. CASE Starts(nextValue')
  <2>1. PICK c \in Commands : current' = c /\ Send(FirstTopic(c), nextValue'[FirstTopic(c)])
    BY <1>2 DEF Starts
  <2> DEFINE t == FirstTopic(c)
  <2>2. t \in Topics /\ c # None BY FirstTopicOK
  <2>3. Send(t, nextValue'[t]) /\ nextValue'[t] \in Pair[t] BY <2>1, <2>2
  <2> HIDE DEF t
  <2>4. /\ SubOK'
        /\ sending'.on /\ sending'.pub = t /\ sending'.value = nextValue'[t]
        /\ sending' \in [on : BOOLEAN, pub : Topics \cup {None}, value : Nat]
        /\ issue' = issue + 1
        /\ issued' \in [Topics -> Nat] /\ \A u \in Topics : issued'[u] <= issue'
    BY <2>2, <2>3, SendGives
  <2>5. ConsoleOK' BY <2>1, <2>2, <2>3, <2>4 DEF ConsoleOK
  <2> QED BY <2>4, <2>5 DEF HistoryOK
<1> QED BY <1>1, <1>2

LEMMA IssuesGrow ==
  ASSUME TypeInv, UNCHANGED <<applied, unsent, buffer, mcu, toMcu>>,
         issue' \in Nat, issue <= issue', \A t \in Topics : issued'[t] <= issue'
  PROVE  IssuesOK'
<1> USE DEF TypeInv
<1>1. issue \in Nat BY DEF HistoryOK
<1>2. \A t \in Topics : applied'[t].issue <= issue'
  <2> TAKE t \in Topics
  <2>1. applied[t].issue \in Nat /\ applied[t].issue <= issue BY DEF HistoryOK, IssuesOK
  <2> QED BY <1>1, <2>1
<1>3. \A t \in FileTopics : buffer'[t] <= issue' /\ mcu'[t] <= issue' /\ unsent'[t] <= issue'
  <2> TAKE t \in FileTopics
  <2>1. /\ buffer[t] \in Nat /\ buffer[t] <= issue /\ mcu[t] \in Nat /\ mcu[t] <= issue
        /\ unsent[t] \in Nat /\ unsent[t] <= issue
    BY DEF RobotOK, SerialOK, HistoryOK, IssuesOK
  <2> QED BY <1>1, <2>1
<1>4. \A i \in 1..Len(toMcu) : toMcu[i].data <= issue'
  <2> TAKE i \in 1..Len(toMcu)
  <2>1. toMcu[i] \in [id : FileTopics, data : Nat]
    <3> DEFINE S == [id : FileTopics, data : Nat]
    <3>1. toMcu \in Seq(S) BY DEF SerialOK
    <3> HIDE DEF S
    <3>2. toMcu[i] \in S BY <3>1
    <3> QED BY <3>2 DEF S
  <2>2. toMcu[i].data \in Nat /\ toMcu[i].data <= issue BY <2>1 DEF IssuesOK
  <2> QED BY <1>1, <2>2
<1>5. toMcu' = toMcu /\ \A t \in Topics : issued'[t] <= issue' OBVIOUS
<1> QED BY <1>2, <1>3, <1>4, <1>5 DEF IssuesOK

LEMMA TypeEnqueue ==
  ASSUME TypeInv, NEW cmd \in Commands, Enqueue(cmd)
  PROVE  TypeInv'
<1>0. UNCHANGED <<mode, nextValue, robot, answers, serial, applied, unsent, restarts>> BY DEF Enqueue
<1>1. Append(queue, cmd) \in Seq(Commands) BY AppendGives DEF TypeInv, ConsoleOK
<1>2. /\ ConsoleOK' /\ SubOK' /\ issue' \in Nat /\ issue <= issue'
      /\ issued' \in [Topics -> Nat] /\ \A t \in Topics : issued'[t] <= issue'
  <2>1. CASE current = None
    <3>1. ProcessNext(Append(queue, cmd), nextValue, check) BY <2>1 DEF Enqueue
    <3>2. /\ queue' \in Seq(Commands) /\ stage' \in 0..2 /\ check' \in Shown
          /\ Halts \/ Starts(nextValue)
      BY <1>1, <3>1, ProcessNextGives DEF Shown, TypeInv, ConsoleOK
    <3>3. nextValue' = nextValue /\ nextValue \in [Topics -> Nat]
          /\ \A t \in Topics : nextValue[t] \in Pair[t]
      BY <1>0 DEF TypeInv, ConsoleOK
    <3> QED BY <1>0, <3>2, <3>3, ConsoleGoesOn
  <2>2. CASE current # None
    <3>1. queue' = Append(queue, cmd) /\ UNCHANGED <<current, sending, stage, sub, issue, issued>>
      BY <2>2 DEF Enqueue
    <3>2. check' \in [Devices -> 0..6]
      BY <2>2 DEF Enqueue, ShownQueued, TypeInv, ConsoleOK
    <3>4. ConsoleOK' BY <1>0, <1>1, <3>1, <3>2 DEF TypeInv, ConsoleOK
    <3>3. SubOK' BY <3>1, Untouched DEF TypeInv
    <3> QED BY <3>1, <3>3, <3>4 DEF TypeInv, HistoryOK, IssuesOK
  <2> QED BY <2>1, <2>2
<1>3. RobotOK' /\ AnswersOK' /\ SerialOK' BY <1>0, Untouched DEF TypeInv
<1>4. HistoryOK' BY <1>0, <1>2 DEF TypeInv, HistoryOK
<1>5. IssuesOK' BY <1>0, <1>2, IssuesGrow DEF robot, serial
<1> QED BY <1>2, <1>3, <1>4, <1>5 DEF TypeInv

LEMMA TypeSetMode ==
  ASSUME TypeInv, NEW m \in Modes, SetMode(m)
  PROVE  TypeInv'
<1> USE DEF TypeInv
<1>1. ConsoleOK' BY DEF ConsoleOK, SetMode
<1> QED BY <1>1, Untouched DEF SetMode, robot, serial

LEMMA TypePublish ==
  ASSUME TypeInv, Publish
  PROVE  TypeInv'
<1> USE DEF TypeInv
<1>1. sending.pub \in Topics /\ sending.value \in Pair[sending.pub] BY DEF Publish, ConsoleOK
<1>2. SubOK' BY <1>1, OfferedGives DEF Publish
<1> QED BY <1>2, Untouched DEF Publish, robot, serial

\* The topic whose value an answer spends.
LEMMA SpentTopicOK == TypeInv /\ current # None => SpentTopic \in Topics /\ current \in Topics
BY TopicsAre, FirstTopicOK DEF TypeInv, ConsoleOK, SpentTopic

LEMMA FlipOK ==
  ASSUME TypeInv, NEW t \in Topics, nextValue' = [nextValue EXCEPT ![t] = Other(t, @)]
  PROVE  /\ nextValue' \in [Topics -> Nat] /\ \A u \in Topics : nextValue'[u] \in Pair[u]
         /\ nextValue'[t] # nextValue[t]
         /\ \A u \in Topics : u # t => nextValue'[u] = nextValue[u]
<1>1. nextValue \in [Topics -> Nat] /\ \A u \in Topics : nextValue[u] \in Pair[u]
  BY DEF TypeInv, ConsoleOK
<1>2. Other(t, nextValue[t]) \in Pair[t] /\ Other(t, nextValue[t]) # nextValue[t]
  BY <1>1, OtherIs
<1>3. Other(t, nextValue[t]) \in Nat BY <1>2, PairPositive
<1> QED BY <1>1, <1>2, <1>3

LEMMA TypeStatusCallback ==
  ASSUME TypeInv, StatusCallback
  PROVE  TypeInv'
<1>0. UNCHANGED <<mode, robot, serial, applied, unsent, restarts>> /\ answers # <<>> /\ answers' = Tail(answers)
  BY DEF StatusCallback
<1>1. AnswersOK' BY <1>0, AnswerTaken DEF TypeInv
<1>2. /\ ConsoleOK' /\ SubOK' /\ issue' \in Nat /\ issue <= issue'
      /\ issued' \in [Topics -> Nat] /\ \A t \in Topics : issued'[t] <= issue'
  <2>1. CASE IgnoreAnswer
    BY <2>1, Untouched DEF IgnoreAnswer, TypeInv, HistoryOK, IssuesOK
  <2>2. CASE Matches(Head(answers)) /\ SecondLidar
    <3>1. "restart_lidar" \in Topics /\ "restart_lidar2" \in Topics BY TopicsAre
    <3>2. nextValue' \in [Topics -> Nat] /\ \A u \in Topics : nextValue'[u] \in Pair[u]
      BY <2>2, <3>1, FlipOK DEF SecondLidar
    <3>3. nextValue["restart_lidar2"] \in Pair["restart_lidar2"] BY <3>1 DEF TypeInv, ConsoleOK
    <3>4. Send("restart_lidar2", nextValue["restart_lidar2"]) BY <2>2 DEF SecondLidar
    <3>5. /\ SubOK'
          /\ sending'.on /\ sending'.pub = "restart_lidar2"
          /\ sending'.value = nextValue["restart_lidar2"]
          /\ sending' \in [on : BOOLEAN, pub : Topics \cup {None}, value : Nat]
          /\ issue' = issue + 1
          /\ issued' \in [Topics -> Nat] /\ \A u \in Topics : issued'[u] <= issue'
      BY <3>1, <3>3, <3>4, SendGives DEF TypeInv
    <3>6. stage' = 2 /\ UNCHANGED <<queue, current, check>> /\ current # None
      BY <2>2 DEF SecondLidar, Matches
    <3>7. ConsoleOK' BY <1>0, <3>1, <3>2, <3>3, <3>5, <3>6 DEF TypeInv, ConsoleOK
    <3> QED BY <3>5, <3>7 DEF TypeInv, HistoryOK
  <2>3. CASE Matches(Head(answers)) /\ Complete
    <3>1. SpentTopic \in Topics BY <2>3, SpentTopicOK DEF Matches
    <3>2. nextValue' \in [Topics -> Nat] /\ \A u \in Topics : nextValue'[u] \in Pair[u]
      BY <2>3, <3>1, FlipOK DEF Complete
    <3>3. ShownAtAnswer(current) \in Shown BY DEF ShownAtAnswer, Shown, TypeInv, ConsoleOK
    <3>4. /\ queue' \in Seq(Commands) /\ stage' \in 0..2 /\ check' \in Shown
          /\ Halts \/ Starts(nextValue')
      BY <2>3, <3>3, ProcessNextGives DEF Complete, TypeInv, ConsoleOK
    <3> QED BY <1>0, <3>2, <3>4, ConsoleGoesOn
  <2> QED BY <2>1, <2>2, <2>3 DEF StatusCallback
<1>3. RobotOK' /\ SerialOK' BY <1>0, Untouched DEF TypeInv
<1>4. HistoryOK' BY <1>0, <1>2 DEF TypeInv, HistoryOK
<1>5. IssuesOK' BY <1>0, <1>2, IssuesGrow DEF robot, serial
<1> QED BY <1>1, <1>2, <1>3, <1>4, <1>5 DEF TypeInv

LEMMA TypeTakeFile ==
  ASSUME TypeInv, NEW t \in FileTopics, TakeFile(t)
  PROVE  TypeInv'
<1> USE DEF TypeInv
<1>1. t \in Topics BY DEF Topics
<1>2. SubOK' /\ Head(sub[t]) \in Pair[t] BY <1>1, ArrivedGives DEF TakeFile
<1>3. Head(sub[t]) \in Nat /\ Head(sub[t]) # 0 BY <1>1, <1>2, PairPositive
<1>4. issued[t] \in Nat /\ issued[t] <= issue BY <1>1 DEF HistoryOK, IssuesOK
<1>5. RobotOK' BY <1>1, <1>2, <1>3, <1>4 DEF RobotOK, TakeFile
<1>6. /\ applied' \in [Topics -> [issue : Nat, times : Nat]]
      /\ \A u \in Topics : applied'[u].issue <= issue
  BY <1>1, CarryOutGives DEF TakeFile
<1>7. HistoryOK' BY <1>6 DEF HistoryOK, TakeFile
<1>8. IssuesOK' BY <1>4, <1>6 DEF IssuesOK, RobotOK, TakeFile, serial
<1> QED BY <1>2, <1>5, <1>7, <1>8, Untouched DEF TakeFile

LEMMA TypeTakeFileEmpty ==
  ASSUME TypeInv, NEW t \in FileTopics, TakeFileEmpty(t)
  PROVE  TypeInv'
<1> USE DEF TypeInv
<1>1. t \in Topics BY DEF Topics
<1>2. SubOK' /\ Head(sub[t]) \in Pair[t] BY <1>1, ArrivedGives DEF TakeFileEmpty
<1>3. Head(sub[t]) \in Nat /\ Head(sub[t]) # 0 BY <1>1, <1>2, PairPositive
<1>4. issued[t] \in Nat /\ issued[t] <= issue BY <1>1 DEF HistoryOK, IssuesOK
<1>5. RobotOK' BY <1>1, <1>2, <1>3 DEF RobotOK, TakeFileEmpty
<1>6. /\ applied' \in [Topics -> [issue : Nat, times : Nat]]
      /\ \A u \in Topics : applied'[u].issue <= issue
  BY <1>1, CarryOutGives DEF TakeFileEmpty
<1>7. HistoryOK' BY <1>4, <1>6 DEF HistoryOK, TakeFileEmpty
<1>8. IssuesOK' BY <1>4, <1>6 DEF IssuesOK, HistoryOK, TakeFileEmpty, serial
<1> QED BY <1>2, <1>5, <1>7, <1>8, Untouched DEF TakeFileEmpty

LEMMA TypeTakeFileAgain ==
  ASSUME TypeInv, NEW t \in FileTopics, TakeFileAgain(t)
  PROVE  TypeInv'
<1> USE DEF TypeInv
<1>1. t \in Topics BY DEF Topics
<1>2. SubOK' /\ last[t] \in Pair[t] BY <1>1, ArrivedGives DEF TakeFileAgain
<1>3. AnswersOK' BY <1>1, <1>2, RespondGives DEF TakeFileAgain
<1> QED BY <1>2, <1>3, Untouched DEF TakeFileAgain, robot, serial

LEMMA TypeSendDone ==
  ASSUME TypeInv, NEW t \in FileTopics, SendDone(t)
  PROVE  TypeInv'
<1> USE DEF TypeInv
<1>1. t \in Topics /\ t # None BY LinkAssumption DEF LinkAssumption, Topics
<1>2. last[t] \in Pair[t] BY <1>1 DEF RobotOK, SendDone
<1>3. AnswersOK' BY <1>1, <1>2, RespondGives DEF SendDone
<1>4. RobotOK' BY DEF RobotOK, SendDone
<1> QED BY <1>3, <1>4, Untouched DEF SendDone, serial

LEMMA TypeSendGivenUp ==
  ASSUME TypeInv, NEW t \in FileTopics, SendGivenUp(t)
  PROVE  TypeInv'
<1> USE DEF TypeInv
<1>1. t \in Topics /\ t # None BY LinkAssumption DEF LinkAssumption, Topics
<1>2. last[t] \in Pair[t] BY <1>1 DEF RobotOK, SendGivenUp
<1>3. AnswersOK' BY <1>1, <1>2, RespondGives DEF SendGivenUp
<1>4. RobotOK' BY DEF RobotOK, SendGivenUp
<1>5. buffer[t] \in Nat /\ buffer[t] <= issue BY DEF RobotOK, IssuesOK
<1>6. HistoryOK' BY <1>5 DEF HistoryOK, SendGivenUp
<1>7. IssuesOK' BY <1>5 DEF IssuesOK, HistoryOK, SendGivenUp, serial
<1> QED BY <1>3, <1>4, <1>6, <1>7, Untouched DEF SendGivenUp, serial

LEMMA TypeShutdown ==
  ASSUME TypeInv, Shutdown
  PROVE  TypeInv'
<1> USE DEF TypeInv
<1>1. RobotOK' BY DEF RobotOK, Shutdown
<1> QED BY <1>1, Untouched DEF Shutdown, serial

LEMMA TypeAnswerAtOnce ==
  ASSUME TypeInv, NEW t \in Topics, AnswerAtOnce(t)
  PROVE  TypeInv'
<1> USE DEF TypeInv
<1>2. SubOK' /\ Head(sub[t]) \in Pair[t] BY ArrivedGives DEF AnswerAtOnce
<1>3. Head(sub[t]) \in Nat /\ Head(sub[t]) # 0 BY <1>2, PairPositive
<1>4. last' = [last EXCEPT ![t] = Head(sub[t])] /\ UNCHANGED <<serving, buffer, flag, running>>
  BY DEF AnswerAtOnce
<1>5. last'[t] = Head(sub[t]) BY <1>4 DEF RobotOK
<1>6. RobotOK' BY <1>2, <1>3, <1>4, <1>5 DEF RobotOK
<1>7. AnswersOK' BY <1>2, <1>5, RespondGives DEF AnswerAtOnce
<1>8. /\ applied' \in [Topics -> [issue : Nat, times : Nat]]
      /\ \A u \in Topics : applied'[u].issue <= issue
  <2>1. CASE CarryOut(t) BY <2>1, CarryOutGives
  <2>2. CASE UNCHANGED applied BY <2>2 DEF HistoryOK, IssuesOK
  <2> QED BY <2>1, <2>2 DEF AnswerAtOnce
<1>9. HistoryOK' BY <1>8 DEF HistoryOK, AnswerAtOnce
<1>10. IssuesOK' BY <1>8 DEF IssuesOK, AnswerAtOnce, serial
<1> QED BY <1>2, <1>6, <1>7, <1>9, <1>10, Untouched DEF AnswerAtOnce

LEMMA TypeTakeCheckOff ==
  ASSUME TypeInv, TakeCheckOff
  PROVE  TypeInv'
<1> USE DEF TypeInv
<1>1. CheckOff \in Topics BY TopicsAre
<1>2. SubOK' /\ Head(sub[CheckOff]) \in Pair[CheckOff] BY <1>1, ArrivedGives DEF TakeCheckOff
<1>3. AnswersOK' BY <1>1, <1>2, RespondGives DEF TakeCheckOff
<1> DEFINE e == [issue |-> issued[CheckOff], times |-> 1]
<1>4. e \in [issue : Nat, times : Nat] /\ e.issue <= issue BY <1>1 DEF HistoryOK, IssuesOK
<1>5. applied' = [applied EXCEPT ![CheckOff] = e]
      /\ UNCHANGED <<issue, issued, unsent, restarts, buffer, mcu, toMcu>>
  BY DEF TakeCheckOff, robot, serial
<1> HIDE DEF e
<1>6. HistoryOK' BY <1>4, <1>5 DEF HistoryOK
<1>7. IssuesOK' BY <1>4, <1>5 DEF HistoryOK, IssuesOK
<1> QED BY <1>2, <1>3, <1>6, <1>7, Untouched DEF TakeCheckOff

LEMMA TypeSendFrame ==
  ASSUME TypeInv, NEW t \in FileTopics, SendFrame(t)
  PROVE  TypeInv'
<1> USE DEF TypeInv
<1> DEFINE m == [id |-> t, data |-> buffer[t]]
           S == [id : FileTopics, data : Nat]
<1>1. m \in S /\ m.data <= issue BY DEF RobotOK, IssuesOK
<1>2. toMcu' = Append(toMcu, m) /\ toMcu \in Seq(S) BY DEF SendFrame, SerialOK
<1> HIDE DEF m, S
<1>3. /\ toMcu' \in Seq(S) /\ Len(toMcu') = Len(toMcu) + 1 /\ Len(toMcu) \in Nat
      /\ toMcu'[Len(toMcu) + 1] = m /\ \A i \in 1..Len(toMcu) : toMcu'[i] = toMcu[i]
  BY <1>1, <1>2, AppendGives
<1>4. SerialOK' BY <1>3 DEF SerialOK, SendFrame, S
<1>5. \A i \in 1..Len(toMcu') : toMcu'[i].data <= issue
  <2> TAKE i \in 1..Len(toMcu')
  <2>1. i \in 1..Len(toMcu) \/ i = Len(toMcu) + 1 BY <1>3
  <2> QED BY <1>1, <1>3, <2>1 DEF IssuesOK
<1>6. IssuesOK' BY <1>5 DEF IssuesOK, SendFrame, robot, history
<1> QED BY <1>4, <1>6, Untouched DEF SendFrame

\* The line passes frames on, or loses them.
LEMMA LineGives ==
  ASSUME SerialOK, IssuesOK, toMcu # <<>>, toMcu' = Tail(toMcu)
  PROVE  /\ toMcu' \in Seq([id : FileTopics, data : Nat])
         /\ Head(toMcu) \in [id : FileTopics, data : Nat] /\ Head(toMcu).data <= issue
         /\ \A i \in 1..Len(toMcu') : toMcu'[i].data <= issue
<1> DEFINE S == [id : FileTopics, data : Nat]
<1>1. toMcu \in Seq(S) BY DEF SerialOK
<1> HIDE DEF S
<1>2. /\ toMcu' \in Seq(S) /\ Len(toMcu') = Len(toMcu) - 1 /\ Len(toMcu) >= 1 /\ Len(toMcu) \in Nat
      /\ Head(toMcu) = toMcu[1] /\ toMcu[1] \in S
      /\ \A i \in 1..(Len(toMcu) - 1) : toMcu'[i] = toMcu[i + 1]
  BY <1>1, TailGives
<1>3. \A i \in 1..Len(toMcu') : toMcu'[i] = toMcu[i + 1] /\ i + 1 \in 1..Len(toMcu) BY <1>2
<1>4. 1 \in 1..Len(toMcu) BY <1>2
<1> QED BY <1>2, <1>3, <1>4 DEF IssuesOK, S

LEMMA TypeMcuReceive ==
  ASSUME TypeInv, McuReceive
  PROVE  TypeInv'
<1> USE DEF TypeInv
<1>1. /\ toMcu' \in Seq([id : FileTopics, data : Nat])
      /\ Head(toMcu) \in [id : FileTopics, data : Nat] /\ Head(toMcu).data <= issue
      /\ \A i \in 1..Len(toMcu') : toMcu'[i].data <= issue
  BY LineGives DEF McuReceive
<1>2. Head(toMcu).id \in FileTopics /\ Head(toMcu).data \in Nat BY <1>1
<1>3. fromMcu' \in Seq(FileTopics) BY <1>2, AppendGives DEF McuReceive, SerialOK
<1>4. SerialOK' BY <1>1, <1>2, <1>3 DEF SerialOK, McuReceive
<1>5. IssuesOK' BY <1>1, <1>2 DEF IssuesOK, SerialOK, McuReceive, robot, history
<1> QED BY <1>4, <1>5, Untouched DEF McuReceive

LEMMA TypeReceiveAck ==
  ASSUME TypeInv, ReceiveAck
  PROVE  TypeInv'
<1> USE DEF TypeInv
<1>1. fromMcu' \in Seq(FileTopics) BY TailGives DEF ReceiveAck, SerialOK
<1>2. SerialOK' BY <1>1 DEF SerialOK, ReceiveAck
<1>3. RobotOK' BY DEF RobotOK, ReceiveAck
<1>4. IssuesOK' BY DEF IssuesOK, ReceiveAck, history
<1> QED BY <1>2, <1>3, <1>4, Untouched DEF ReceiveAck

LEMMA TypeFrameLost ==
  ASSUME TypeInv, FrameLost
  PROVE  TypeInv'
<1> USE DEF TypeInv
<1>1. CASE toMcu # <<>> /\ toMcu' = Tail(toMcu) /\ UNCHANGED fromMcu
  <2>1. /\ toMcu' \in Seq([id : FileTopics, data : Nat])
        /\ \A i \in 1..Len(toMcu') : toMcu'[i].data <= issue
    BY <1>1, LineGives
  <2>2. SerialOK' BY <1>1, <2>1 DEF SerialOK, FrameLost
  <2>3. IssuesOK' BY <2>1 DEF IssuesOK, FrameLost, robot, history
  <2> QED BY <2>2, <2>3, Untouched DEF FrameLost
<1>2. CASE fromMcu # <<>> /\ fromMcu' = Tail(fromMcu) /\ UNCHANGED toMcu
  <2>1. fromMcu' \in Seq(FileTopics) BY <1>2, TailGives DEF SerialOK
  <2>2. SerialOK' BY <1>2, <2>1 DEF SerialOK, FrameLost
  <2> QED BY <1>2, <2>2, Untouched DEF FrameLost, robot
<1> QED BY <1>1, <1>2 DEF FrameLost

LEMMA TypeMessageLost ==
  ASSUME TypeInv, NEW t \in Topics, MessageLost(t)
  PROVE  TypeInv'
<1> USE DEF TypeInv
<1>1. SubOK' BY ArrivedGives DEF MessageLost
<1> QED BY <1>1, Untouched DEF MessageLost, robot, serial

LEMMA TypeRobotRestart ==
  ASSUME TypeInv, RobotRestart
  PROVE  TypeInv'
<1> USE DEF TypeInv
<1>1. SubOK' BY QueueSizeOK DEF SubOK, RobotRestart, QueueSize
<1>2. RobotOK' BY DEF RobotOK, RobotRestart
<1>3. AnswersOK'
  <2> DEFINE S == [data : Nat, topic : Topics]
  <2>1. answers \in Seq(S) /\ Len(answers) \in Nat /\ AnswerQueue \in Nat
    BY LinkAssumption DEF LinkAssumption, AnswersOK
  <2>2. PICK n \in 0..Len(answers) : answers' = SubSeq(answers, 1, n) BY DEF RobotRestart
  <2>3. 1 \in 1..(Len(answers) + 1) BY <2>1
  <2> HIDE DEF S
  <2>4. /\ answers' \in Seq(S) /\ Len(answers') = (IF 1 <= n THEN n - 1 + 1 ELSE 0)
        /\ \A i \in 1..Len(answers') : answers'[i] = answers[1 + i - 1]
    BY <2>1, <2>2, <2>3, SubSeqGives
  <2>5. Len(answers') <= Len(answers) BY <2>1, <2>4
  <2>6. \A i \in 1..Len(answers') : answers'[i] = answers[i] /\ i \in 1..Len(answers)
    BY <2>1, <2>4, <2>5
  <2> QED BY <2>1, <2>4, <2>5, <2>6 DEF AnswersOK, S
<1>4. HistoryOK'
  <2> DEFINE e(t) == IF t \in ElsewhereTopics THEN applied[t] ELSE [applied[t] EXCEPT !.times = 0]
  <2>1. \A t \in Topics : e(t) \in [issue : Nat, times : Nat]
    <3> TAKE t \in Topics
    <3>1. applied[t] \in [issue : Nat, times : Nat] BY DEF HistoryOK
    <3> QED BY <3>1
  <2>2. applied' = [t \in Topics |-> e(t)] BY DEF RobotRestart
  <2> HIDE DEF e
  <2>3. applied' \in [Topics -> [issue : Nat, times : Nat]] BY <2>1, <2>2
  <2>4. UNCHANGED <<issue, issued, unsent>> /\ restarts' = restarts + 1 BY DEF RobotRestart
  <2> QED BY <2>3, <2>4 DEF HistoryOK
<1>5. IssuesOK'
  <2>1. UNCHANGED <<issue, issued, unsent, toMcu, mcu>> /\ issue \in Nat
    BY DEF RobotRestart, serial, HistoryOK
  <2>2. \A t \in Topics : applied'[t].issue <= issue
    <3> TAKE t \in Topics
    <3>1. applied'[t] = applied[t] \/ applied'[t] = [applied[t] EXCEPT !.times = 0]
      BY DEF RobotRestart
    <3>2. applied'[t].issue = applied[t].issue BY <3>1 DEF HistoryOK
    <3> QED BY <3>2 DEF IssuesOK
  <2>3. \A t \in FileTopics : buffer'[t] <= issue BY <2>1 DEF RobotRestart
  <2> QED BY <2>1, <2>2, <2>3 DEF IssuesOK
<1> QED BY <1>1, <1>2, <1>3, <1>4, <1>5, Untouched DEF RobotRestart

LEMMA ElsewhereIs == ElsewhereTopics \subseteq Topics \ (FileTopics \cup {CheckOff, "restart_lidar"})
BY TopicsAre, LinkAssumption DEF LinkAssumption, ElsewhereTopics, RestartTopics, FileTopics, CheckOff

LEMMA TypeStep == TypeInv /\ [Next]_vars => TypeInv'
<1> SUFFICES ASSUME TypeInv, [Next]_vars PROVE TypeInv'
  OBVIOUS
<1>1. CASE UNCHANGED vars BY <1>1, Untouched DEF TypeInv, vars, robot, serial
<1>2. ASSUME NEW t \in FileTopics,
             TakeFile(t) \/ TakeFileEmpty(t) \/ TakeFileAgain(t)
               \/ SendFrame(t) \/ SendDone(t) \/ SendGivenUp(t)
      PROVE  TypeInv'
  BY <1>2, TypeTakeFile, TypeTakeFileEmpty, TypeTakeFileAgain, TypeSendFrame, TypeSendDone,
     TypeSendGivenUp
<1>3. CASE TakeRestart BY <1>3, TopicsAre, TypeAnswerAtOnce DEF TakeRestart
<1>4. CASE AnswerElsewhere BY <1>4, ElsewhereIs, TypeAnswerAtOnce DEF AnswerElsewhere
<1> QED BY <1>1, <1>2, <1>3, <1>4, TypeEnqueue, TypeSetMode, TypePublish, TypeStatusCallback,
           TypeTakeCheckOff, TypeShutdown, TypeMcuReceive, TypeReceiveAck, TypeFrameLost,
           TypeMessageLost, TypeRobotRestart
        DEF Next, Callback

(* Console, robot, line and MCU keep their types, and no queue its limit,   *)
(* whatever commands are given in whatever LiDAR mode, whatever is lost and *)
(* however often the robot's process dies.                                  *)
THEOREM TypeCorrect == Spec => []TypeOK
<1>1. Init => TypeInv BY TypeInit
<1>2. TypeInv /\ [Next]_vars => TypeInv' BY TypeStep
<1>3. TypeInv => TypeOK BY TypeInvOK
<1> QED BY <1>1, <1>2, <1>3, PTL DEF Spec
-----------------------------------------------------------------------------
(* One topic.  n is its next value, s what is on its way to the subscriber, *)
(* l the robot's last, a the answers, p what was carried out, k the latest  *)
(* issue; on says that it is being sent, r counts the restarts.             *)

Answers(t, n, m) == m.topic = t /\ m.data = n

\* The new value follows the old one, on its way and in the answers.
InOrder(t, n, s, a) ==
  /\ \A i, j \in 1..Len(s) : i < j /\ s[i] = n => s[j] = n
  /\ \A i, j \in 1..Len(a) : i < j /\ Answers(t, n, a[i]) /\ a[j].topic = t => Answers(t, n, a[j])

\* Once the robot has taken or answered the new value, only that is left on its
\* way, and the issue was carried out.
Taken(t, n, s, l, a, p, k) ==
  l = n \/ (\E i \in 1..Len(a) : Answers(t, n, a[i])) =>
    /\ \A i \in 1..Len(s) : s[i] = n
    /\ l = n \/ l = 0
    /\ p.issue = k

\* Without a restart the robot knows the old value, and what it carried out.
Known(n, s, l, p, k, on, r) ==
  r = 0 =>
    /\ p.times <= 1
    /\ \A i \in 1..Len(s) : s[i] # n => l = s[i]
    /\ on /\ p.issue = k => l = n

\* Between two issues the next value is nowhere.
Quiet(t, n, s, l, a) ==
  /\ \A i \in 1..Len(s) : s[i] # n
  /\ l # n
  /\ \A i \in 1..Len(a) : ~Answers(t, n, a[i])

Phase(t, n, s, l, a, p, k, on, r) ==
  /\ InOrder(t, n, s, a)
  /\ Taken(t, n, s, l, a, p, k)
  /\ Known(n, s, l, p, k, on, r)
  /\ ~on => Quiet(t, n, s, l, a)

\* The robot takes the oldest message: CarryOut when it is a new value.
LEMMA PhaseReceives ==
  ASSUME NEW t, NEW n, NEW s \in Seq(Nat), NEW l, NEW S, NEW a \in Seq(S), NEW p, NEW k, NEW on, NEW r,
         NEW q, s # <<>>, Phase(t, n, s, l, a, p, k, on, r),
         p.times \in Nat, s[1] # 0,
         s[1] = l => q = p,
         s[1] # l => q.issue = k /\ q.times = IF p.issue = k THEN p.times + 1 ELSE 1
  PROVE  Phase(t, n, Tail(s), s[1], a, q, k, on, r)
<1> DEFINE u == Tail(s)
<1>1. /\ u \in Seq(Nat) /\ Len(u) = Len(s) - 1 /\ Len(s) >= 1 /\ Len(s) \in Nat
      /\ \A i \in 1..(Len(s) - 1) : u[i] = s[i + 1]
  BY TailGives
<1> HIDE DEF u
<1>2. \A i \in 1..Len(u) : i + 1 \in 1..Len(s) /\ u[i] = s[i + 1] BY <1>1
<1>3. 1 \in 1..Len(s) /\ \A i \in 1..Len(u) : 1 < i + 1 BY <1>1
<1> USE DEF Phase
<1>4. InOrder(t, n, u, a)
  <2>1. \A i, j \in 1..Len(u) : i < j /\ u[i] = n => u[j] = n
    <3> SUFFICES ASSUME NEW i \in 1..Len(u), NEW j \in 1..Len(u), i < j, u[i] = n PROVE u[j] = n
      OBVIOUS
    <3>1. i + 1 < j + 1 /\ s[i + 1] = n BY <1>2
    <3> QED BY <1>2, <3>1 DEF InOrder
  <2> QED BY <2>1 DEF InOrder
<1>5. s[1] = n => \A i \in 1..Len(u) : u[i] = n BY <1>2, <1>3 DEF InOrder
<1>6. s[1] # n => l # n /\ ~\E i \in 1..Len(a) : Answers(t, n, a[i]) BY <1>3 DEF Taken
<1>7. Taken(t, n, u, s[1], a, q, k)
  <2>1. CASE s[1] = n
    <3>1. q.issue = k BY <2>1 DEF Taken
    <3> QED BY <1>5, <2>1, <3>1 DEF Taken
  <2>2. CASE s[1] # n BY <1>6, <2>2 DEF Taken
  <2> QED BY <2>1, <2>2
<1>8. Known(n, u, s[1], q, k, on, r)
  <2> SUFFICES ASSUME r = 0
               PROVE  /\ q.times <= 1
                      /\ \A i \in 1..Len(u) : u[i] # n => s[1] = u[i]
                      /\ on /\ q.issue = k => s[1] = n
    BY DEF Known
  <2>1. CASE s[1] = l
    <3>1. q = p BY <2>1
    <3> QED BY <1>2, <2>1, <3>1 DEF Known
  <2>2. CASE s[1] # l
    <3>1. s[1] = n BY <1>3, <2>2 DEF Known
    <3>2. on BY <1>3, <3>1 DEF Quiet
    <3>3. p.issue # k BY <2>2, <3>1, <3>2 DEF Known
    <3> QED BY <1>5, <2>2, <3>1, <3>3
  <2> QED BY <2>1, <2>2
<1>9. ~on => Quiet(t, n, u, s[1], a) BY <1>2, <1>3 DEF Quiet
<1> QED BY <1>4, <1>7, <1>8, <1>9 DEF u

\* The oldest message is lost.
LEMMA PhaseLoses ==
  ASSUME NEW t, NEW n, NEW s \in Seq(Nat), NEW l, NEW a, NEW p, NEW k, NEW on, NEW r,
         s # <<>>, Phase(t, n, s, l, a, p, k, on, r)
  PROVE  Phase(t, n, Tail(s), l, a, p, k, on, r)
<1> DEFINE u == Tail(s)
<1>1. /\ u \in Seq(Nat) /\ Len(u) = Len(s) - 1 /\ Len(s) \in Nat
      /\ \A i \in 1..(Len(s) - 1) : u[i] = s[i + 1]
  BY TailGives
<1> HIDE DEF u
<1>2. \A i \in 1..Len(u) : i + 1 \in 1..Len(s) /\ u[i] = s[i + 1] BY <1>1
<1> USE DEF Phase
<1>3. InOrder(t, n, u, a)
  <2>1. \A i, j \in 1..Len(u) : i < j /\ u[i] = n => u[j] = n
    <3> SUFFICES ASSUME NEW i \in 1..Len(u), NEW j \in 1..Len(u), i < j, u[i] = n PROVE u[j] = n
      OBVIOUS
    <3>1. i + 1 < j + 1 /\ s[i + 1] = n BY <1>2
    <3> QED BY <1>2, <3>1 DEF InOrder
  <2> QED BY <2>1 DEF InOrder
<1>4. Taken(t, n, u, l, a, p, k) BY <1>2 DEF Taken
<1>5. Known(n, u, l, p, k, on, r) BY <1>2 DEF Known
<1>6. ~on => Quiet(t, n, u, l, a) BY <1>2 DEF Quiet
<1> QED BY <1>3, <1>4, <1>5, <1>6 DEF u

\* Answers are taken by the console or lost with the robot's process.
LEMMA PhaseFewerAnswers ==
  ASSUME NEW t, NEW n, NEW s, NEW l, NEW a, NEW p, NEW k, NEW on, NEW r,
         NEW b, NEW d \in Nat,
         Phase(t, n, s, l, a, p, k, on, r),
         \A i \in 1..Len(b) : i + d \in 1..Len(a) /\ b[i] = a[i + d]
  PROVE  Phase(t, n, s, l, b, p, k, on, r)
<1> USE DEF Phase
<1>1. InOrder(t, n, s, b)
  <2>1. \A i, j \in 1..Len(b) :
          i < j /\ Answers(t, n, b[i]) /\ b[j].topic = t => Answers(t, n, b[j])
    <3> SUFFICES ASSUME NEW i \in 1..Len(b), NEW j \in 1..Len(b),
                        i < j, Answers(t, n, b[i]), b[j].topic = t
                 PROVE  Answers(t, n, b[j])
      OBVIOUS
    <3>1. i + d < j + d OBVIOUS
    <3> QED BY <3>1 DEF InOrder
  <2> QED BY <2>1 DEF InOrder
<1>2. Taken(t, n, s, l, b, p, k) BY DEF Taken
<1>3. ~on => Quiet(t, n, s, l, b) BY DEF Quiet
<1> QED BY <1>1, <1>2, <1>3

\* The robot answers its last value of this topic, or something of another one.
LEMMA PhaseAnswers ==
  ASSUME NEW t, NEW n, NEW s, NEW l, NEW S, NEW a \in Seq(S), NEW p, NEW k, NEW on, NEW r,
         NEW b \in Seq(S), NEW m, Phase(t, n, s, l, a, p, k, on, r), Takes(a, m, b),
         m.topic = t => m.data = l /\ l # 0
  PROVE  Phase(t, n, s, l, b, p, k, on, r)
<1> USE DEF Phase
<1>1. \A i \in 1..Len(b) : b[i] = m \/ \E j \in 1..Len(a) : b[i] = a[j]
  BY TakesGives
<1>2. Answers(t, n, m) => l = n BY DEF Answers
<1>3. InOrder(t, n, s, b)
  <2> SUFFICES ASSUME NEW i \in 1..Len(b), NEW j \in 1..Len(b),
                      i < j, Answers(t, n, b[i]), b[j].topic = t
               PROVE  Answers(t, n, b[j])
    BY DEF InOrder
  <2>1. b[j] = m \/ \E e, f \in 1..Len(a) : e < f /\ b[i] = a[e] /\ b[j] = a[f]
    BY TakesGives
  <2>2. CASE b[j] = m
    <3>1. l = n \/ \E e \in 1..Len(a) : Answers(t, n, a[e]) BY <1>1, <1>2
    <3>2. m.topic = t /\ m.data = l /\ l # 0 BY <2>2
    <3>3. l = n BY <3>1, <3>2 DEF Taken
    <3> QED BY <2>2, <3>2, <3>3 DEF Answers
  <2>3. CASE \E e, f \in 1..Len(a) : e < f /\ b[i] = a[e] /\ b[j] = a[f]
    BY <2>3 DEF InOrder
  <2> QED BY <2>1, <2>2, <2>3
<1>4. Taken(t, n, s, l, b, p, k) BY <1>1, <1>2 DEF Taken
<1>5. ~on => Quiet(t, n, s, l, b) BY <1>1, <1>2 DEF Quiet
<1> QED BY <1>3, <1>4, <1>5

\* The console publishes the value once more.
LEMMA PhasePublishes ==
  ASSUME NEW t, NEW n, NEW s \in Seq(Nat), NEW l, NEW a, NEW p, NEW k, NEW r,
         NEW u \in Seq(Nat), Phase(t, n, s, l, a, p, k, TRUE, r), Takes(s, n, u)
  PROVE  Phase(t, n, u, l, a, p, k, TRUE, r)
<1> USE DEF Phase
<1>1. \A i \in 1..Len(u) : u[i] = n \/ \E j \in 1..Len(s) : u[i] = s[j] BY TakesGives
<1>2. \A i, j \in 1..Len(u) : i < j =>
        u[j] = n \/ \E e, f \in 1..Len(s) : e < f /\ u[i] = s[e] /\ u[j] = s[f]
  BY TakesGives
<1>3. InOrder(t, n, u, a)
  <2>1. \A i, j \in 1..Len(u) : i < j /\ u[i] = n => u[j] = n
    <3> SUFFICES ASSUME NEW i \in 1..Len(u), NEW j \in 1..Len(u), i < j, u[i] = n, u[j] # n
                 PROVE  FALSE
      OBVIOUS
    <3>1. PICK e, f \in 1..Len(s) : e < f /\ u[i] = s[e] /\ u[j] = s[f] BY <1>2
    <3> QED BY <3>1 DEF InOrder
  <2> QED BY <2>1 DEF InOrder
<1>4. Taken(t, n, u, l, a, p, k) BY <1>1 DEF Taken
<1>5. Known(n, u, l, p, k, TRUE, r) BY <1>1 DEF Known
<1> QED BY <1>3, <1>4, <1>5

\* The console sets out to send the next value.
LEMMA PhaseStarts ==
  ASSUME NEW t, NEW n, NEW s \in Seq(Nat), NEW l, NEW a, NEW p, NEW k, NEW r,
         NEW u \in Seq(Nat), NEW h, Phase(t, n, s, l, a, p, k, FALSE, r), Takes(s, n, u), p.issue # h
  PROVE  Phase(t, n, u, l, a, p, h, TRUE, r)
<1> USE DEF Phase
<1>1. \A i \in 1..Len(u) : u[i] = n \/ \E j \in 1..Len(s) : u[i] = s[j] BY TakesGives
<1>2. \A i, j \in 1..Len(u) : i < j =>
        u[j] = n \/ \E e, f \in 1..Len(s) : e < f /\ u[i] = s[e] /\ u[j] = s[f]
  BY TakesGives
<1>3. InOrder(t, n, u, a)
  <2>1. \A i, j \in 1..Len(u) : i < j /\ u[i] = n => u[j] = n
    <3> SUFFICES ASSUME NEW i \in 1..Len(u), NEW j \in 1..Len(u), i < j, u[i] = n, u[j] # n
                 PROVE  FALSE
      OBVIOUS
    <3>1. PICK e, f \in 1..Len(s) : e < f /\ u[i] = s[e] /\ u[j] = s[f] BY <1>2
    <3> QED BY <3>1 DEF InOrder, Quiet
  <2> QED BY <2>1 DEF InOrder
<1>4. Taken(t, n, u, l, a, p, h) BY DEF Taken, Quiet
<1>5. Known(n, u, l, p, h, TRUE, r) BY <1>1 DEF Known
<1> QED BY <1>3, <1>4, <1>5

\* The oldest answer is that of this issue: the next value is the other one.
LEMMA PhaseSpends ==
  ASSUME NEW t, NEW n, NEW s, NEW l, NEW a, NEW p, NEW k, NEW r, NEW o, NEW b,
         Phase(t, n, s, l, a, p, k, TRUE, r), o # n, o # 0,
         Len(a) \in Nat, Len(a) >= 1, Len(b) = Len(a) - 1,
         \A i \in 1..Len(b) : b[i] = a[i + 1],
         Answers(t, n, a[1])
  PROVE  Phase(t, o, s, l, b, p, k, FALSE, r)
<1> USE DEF Phase
<1>1. 1 \in 1..Len(a) OBVIOUS
<1>2. (\A i \in 1..Len(s) : s[i] = n) /\ (l = n \/ l = 0) /\ p.issue = k BY <1>1 DEF Taken
<1>3. \A i \in 1..Len(b) : b[i].topic = t => b[i].data = n
  <2> SUFFICES ASSUME NEW i \in 1..Len(b), b[i].topic = t PROVE b[i].data = n
    OBVIOUS
  <2>1. i + 1 \in 1..Len(a) /\ 1 < i + 1 /\ b[i] = a[i + 1] OBVIOUS
  <2> QED BY <1>1, <2>1 DEF InOrder, Answers
<1>4. Quiet(t, o, s, l, b) BY <1>2, <1>3 DEF Quiet, Answers
<1>5. InOrder(t, o, s, b) BY <1>4 DEF InOrder, Quiet
<1>6. Taken(t, o, s, l, b, p, k) BY <1>4 DEF Taken, Quiet
<1>7. Known(o, s, l, p, k, FALSE, r) BY <1>2 DEF Known
<1> QED BY <1>4, <1>5, <1>6, <1>7

\* The robot's process is started again, and with it the subscriber.
LEMMA PhaseRestarts ==
  ASSUME NEW t, NEW n, NEW s, NEW l, NEW a, NEW p, NEW k, NEW on, NEW r, NEW q, NEW u, NEW h,
         Phase(t, n, s, l, a, p, k, on, r), n # 0, Len(u) = 0, q.issue = p.issue, h # 0
  PROVE  Phase(t, n, u, 0, a, q, k, on, h)
<1> USE DEF Phase
<1>1. ~\E i \in 1..Len(u) : TRUE OBVIOUS
<1>2. InOrder(t, n, u, a) BY <1>1 DEF InOrder
<1>3. Taken(t, n, u, 0, a, q, k) BY <1>1 DEF Taken
<1>4. Known(n, u, 0, q, k, on, h) BY DEF Known
<1>5. ~on => Quiet(t, n, u, 0, a) BY <1>1 DEF Quiet
<1> QED BY <1>2, <1>3, <1>4, <1>5

\* After a restart it does not matter how often an issue is carried out.
LEMMA PhaseRecounts ==
  ASSUME NEW t, NEW n, NEW s, NEW l, NEW a, NEW p, NEW k, NEW on, NEW r, NEW q, NEW h,
         Phase(t, n, s, l, a, p, k, on, r), q.issue = p.issue, h # 0
  PROVE  Phase(t, n, s, l, a, q, k, on, h)
<1>1. Known(n, s, l, q, k, on, h) BY DEF Known
<1>2. Taken(t, n, s, l, a, q, k) BY DEF Phase, Taken
<1> QED BY <1>1, <1>2 DEF Phase

\* A callback that forgets the value.
LEMMA PhaseForgets ==
  ASSUME NEW t, NEW n, NEW s, NEW l, NEW a, NEW p, NEW k, NEW on, NEW r,
         Phase(t, n, s, l, a, p, k, on, r), n # 0, r # 0
  PROVE  Phase(t, n, s, 0, a, p, k, on, r)
<1>1. Known(n, s, 0, p, k, on, r) BY DEF Known
<1>2. Taken(t, n, s, 0, a, p, k) BY DEF Phase, Taken
<1>3. ~on => Quiet(t, n, s, 0, a) BY DEF Phase, Quiet
<1> QED BY <1>1, <1>2, <1>3 DEF Phase
-----------------------------------------------------------------------------
(* In every mode: what is being sent is what the current command is about.  *)

\* The second LiDAR is the one being restarted.
AtSecond == mode = 2 \/ (mode = 3 /\ stage = 2)

CourseOK ==
  sending.on =>
    /\ current = "restart_lidar" =>
         /\ sending.pub = IF AtSecond THEN "restart_lidar2" ELSE "restart_lidar"
         /\ mode = 3 => stage \in {1, 2}
    /\ current # "restart_lidar" => sending.pub = current
    /\ sending.value = nextValue[sending.pub]

LEMMA CourseInit == Init => CourseOK
BY DEF Init, Idle, CourseOK

LEMMA CourseGoesOn ==
  ASSUME mode' = mode, Halts \/ Starts(nextValue')
  PROVE  CourseOK'
<1>1. CASE Halts BY <1>1 DEF Halts, Idle, CourseOK
<1>2. CASE Starts(nextValue')
  <2>1. PICK c \in Commands :
          /\ current' = c
          /\ stage' = IF c = "restart_lidar" /\ mode = 3 THEN 1 ELSE 0
          /\ sending' = [on |-> TRUE, pub |-> FirstTopic(c), value |-> nextValue'[FirstTopic(c)]]
    BY <1>2 DEF Starts, Send
  <2>2. sending'.pub = FirstTopic(c) /\ sending'.value = nextValue'[FirstTopic(c)] BY <2>1
  <2>3. FirstTopic(c) = IF c = "restart_lidar" /\ mode = 2 THEN "restart_lidar2" ELSE c
    BY DEF FirstTopic
  <2> QED BY <2>1, <2>2, <2>3 DEF CourseOK, AtSecond
<1> QED BY <1>1, <1>2

LEMMA CourseEnqueue ==
  ASSUME TypeInv, CourseOK, NEW cmd \in Commands, Enqueue(cmd)
  PROVE  CourseOK'
<1>1. UNCHANGED <<mode, nextValue>> BY DEF Enqueue
<1>2. CASE current = None
  <2>1. Append(queue, cmd) \in Seq(Commands) BY AppendGives DEF TypeInv, ConsoleOK
  <2>2. Halts \/ Starts(nextValue') BY <1>1, <1>2, <2>1, ProcessNextGives DEF Enqueue, Shown, TypeInv, ConsoleOK
  <2> QED BY <1>1, <2>2, CourseGoesOn
<1>3. CASE current # None BY <1>1, <1>3 DEF Enqueue, CourseOK, AtSecond
<1> QED BY <1>2, <1>3

LEMMA CourseStatusCallback ==
  ASSUME TypeInv, CourseOK, StatusCallback
  PROVE  CourseOK'
<1>1. mode' = mode BY DEF StatusCallback
<1>2. CASE IgnoreAnswer BY <1>1, <1>2 DEF IgnoreAnswer, console, CourseOK, AtSecond
<1>3. CASE current = "restart_lidar" /\ mode = 3 /\ SecondLidar
  <2>1. "restart_lidar" \in Topics /\ "restart_lidar2" \in Topics BY TopicsAre
  <2>2. nextValue'["restart_lidar2"] = nextValue["restart_lidar2"]
    BY <1>3, <2>1, FlipOK DEF SecondLidar
  <2>3. /\ current' = "restart_lidar" /\ stage' = 2
        /\ sending'.pub = "restart_lidar2" /\ sending'.value = nextValue["restart_lidar2"]
    BY <1>3 DEF SecondLidar, Send
  <2> QED BY <1>1, <1>3, <2>2, <2>3 DEF CourseOK, AtSecond
<1>4. CASE Complete
  <2>1. Halts \/ Starts(nextValue')
    <3>1. ShownAtAnswer(current) \in Shown BY DEF ShownAtAnswer, Shown, TypeInv, ConsoleOK
    <3> QED BY <1>4, <3>1, ProcessNextGives DEF Complete, TypeInv, ConsoleOK
  <2> QED BY <1>1, <2>1, CourseGoesOn
<1> QED BY <1>2, <1>3, <1>4 DEF StatusCallback

\* The steps that leave the console alone.
LEMMA Elsewhere ==
  ASSUME [Next]_vars
  PROVE  \/ \E cmd \in Commands : Enqueue(cmd)
         \/ \E m \in Modes : SetMode(m)
         \/ StatusCallback
         \/ UNCHANGED <<console, issue, issued>>
<1>1. ASSUME NEW t \in FileTopics,
             TakeFile(t) \/ TakeFileEmpty(t) \/ TakeFileAgain(t)
               \/ SendFrame(t) \/ SendDone(t) \/ SendGivenUp(t)
      PROVE  UNCHANGED <<console, issue, issued>>
  BY <1>1 DEF TakeFile, TakeFileEmpty, TakeFileAgain, SendFrame, SendDone, SendGivenUp, history
<1>2. CASE TakeRestart \/ TakeCheckOff \/ AnswerElsewhere
  BY <1>2 DEF TakeRestart, TakeCheckOff, AnswerElsewhere, AnswerAtOnce
<1>3. ASSUME NEW t \in Topics, MessageLost(t) PROVE UNCHANGED <<console, issue, issued>>
  BY <1>3 DEF MessageLost, history
<1>4. CASE Publish \/ Shutdown \/ McuReceive \/ ReceiveAck \/ FrameLost \/ RobotRestart
  BY <1>4 DEF Publish, Shutdown, McuReceive, ReceiveAck, FrameLost, RobotRestart, history
<1>5. CASE UNCHANGED vars BY <1>5 DEF vars, history
<1> QED BY <1>1, <1>2, <1>3, <1>4, <1>5 DEF Next, Callback

LEMMA CourseStep == TypeInv /\ CourseOK /\ [Next]_vars => CourseOK'
<1> SUFFICES ASSUME TypeInv, CourseOK, [Next]_vars PROVE CourseOK'
  OBVIOUS
<1>1. CASE UNCHANGED <<console, issue, issued>> BY <1>1 DEF console, CourseOK, AtSecond
<1>2. ASSUME NEW m \in Modes, SetMode(m) PROVE CourseOK'
  BY <1>2 DEF SetMode, CourseOK
<1> QED BY <1>1, <1>2, Elsewhere, CourseEnqueue, CourseStatusCallback

\* Only status_callback settles what is being sent, and only with its value.
LEMMA SettledGives ==
  ASSUME TypeInv, [Next]_vars, Settled
  PROVE  /\ UNCHANGED mode /\ answers # <<>> /\ Matches(Head(answers))
         /\ \/ current = "restart_lidar" /\ mode = 3 /\ stage = 1 /\ SecondLidar
            \/ ~(current = "restart_lidar" /\ mode = 3 /\ stage = 1) /\ Complete
<1>1. /\ issue' # issue \/ current' # current
      /\ answers # <<>> /\ answers' = Tail(answers)
  BY DEF Settled
<1>2. answers' # answers
  <2>1. Len(answers') = Len(answers) - 1 /\ Len(answers) \in Nat
    BY <1>1, AnswerTaken DEF TypeInv, AnswersOK
  <2> QED BY <2>1
<1>3. ASSUME NEW cmd \in Commands, Enqueue(cmd) PROVE FALSE BY <1>2, <1>3 DEF Enqueue
<1>4. ASSUME NEW m \in Modes, SetMode(m) PROVE FALSE BY <1>1, <1>4 DEF SetMode, history
<1>5. ~UNCHANGED <<console, issue, issued>> BY <1>1 DEF console
<1>6. StatusCallback BY <1>3, <1>4, <1>5, Elsewhere
<1>7. ~IgnoreAnswer BY <1>1 DEF IgnoreAnswer, console
<1> QED BY <1>1, <1>6, <1>7 DEF StatusCallback

(* Whatever the LiDAR mode and whenever it is changed, status_callback flips *)
(* the value of the topic that was sent.                                     *)
THEOREM AnsweredValueIsSpentHolds == Spec => AnsweredValueIsSpent
<1>1. Init => TypeInv /\ CourseOK BY TypeInit, CourseInit
<1>2. TypeInv /\ CourseOK /\ [Next]_vars => (TypeInv /\ CourseOK)' BY TypeStep, CourseStep
<1>3. TypeInv /\ CourseOK /\ [Next]_vars
        => [Settled => nextValue'[sending.pub] # sending.value]_vars
  <2> SUFFICES ASSUME TypeInv, CourseOK, [Next]_vars, Settled
               PROVE  nextValue'[sending.pub] # sending.value
    OBVIOUS
  <2>1. sending.on /\ current # None /\ sending.value = nextValue[sending.pub]
    BY SettledGives DEF Matches, CourseOK
  <2>2. CASE current = "restart_lidar" /\ mode = 3 /\ stage = 1 /\ SecondLidar
    <3>1. sending.pub = "restart_lidar" BY <2>1, <2>2 DEF CourseOK, AtSecond
    <3>2. "restart_lidar" \in Topics BY TopicsAre
    <3>3. nextValue'["restart_lidar"] # nextValue["restart_lidar"]
      BY <2>2, <3>2, FlipOK DEF SecondLidar
    <3> QED BY <2>1, <3>1, <3>3
  <2>3. CASE ~(current = "restart_lidar" /\ mode = 3 /\ stage = 1) /\ Complete
    <3>1. sending.pub = SpentTopic
      <4>1. mode \in {1, 2, 3} BY LinkAssumption DEF LinkAssumption, TypeInv, ConsoleOK
      <4> QED BY <2>1, <2>3, <4>1 DEF CourseOK, AtSecond, SpentTopic
    <3>2. SpentTopic \in Topics BY <2>1, SpentTopicOK
    <3>3. nextValue'[SpentTopic] # nextValue[SpentTopic] BY <2>3, <3>2, FlipOK DEF Complete
    <3> QED BY <2>1, <3>1, <3>3
  <2> QED BY <2>2, <2>3, SettledGives
<1> QED BY <1>1, <1>2, <1>3, PTL DEF Spec, AnsweredValueIsSpent
-----------------------------------------------------------------------------
(* The topics that are alone with their values.  Of a topic that was never  *)
(* sent nothing is on its way, so no answer of another topic has the values *)
(* of one that is alone.                                                    *)

Active(t) == sending.on /\ sending.pub = t

\* The end of the self-checks is carried out with every copy, as if the robot had
\* been restarted in between.
Count(t) == IF t = CheckOff THEN 1 ELSE restarts

PhaseOK(t) ==
  /\ Phase(t, nextValue[t], sub[t], last[t], answers, applied[t], issued[t], Active(t), Count(t))
  /\ Active(t) => issued[t] = issue

\* What was never sent is nowhere.
Silent(t) ==
  issued[t] = 0 =>
    /\ sub[t] = <<>> /\ last[t] = 0 /\ ~Active(t)
    /\ \A i \in 1..Len(answers) : answers[i].topic # t

LinkInv ==
  /\ TypeInv /\ CourseOK
  /\ last[CheckOff] = 0
  /\ \A t \in Topics : Silent(t)
  /\ \A t \in Topics : Alone(t) => PhaseOK(t)

LEMMA LinkInit == Init => LinkInv
<1> SUFFICES ASSUME Init PROVE LinkInv
  OBVIOUS
<1>1. ASSUME NEW t \in Topics PROVE Silent(t) /\ PhaseOK(t)
  <2>1. /\ sub[t] = <<>> /\ last[t] = 0 /\ answers = <<>> /\ restarts = 0
        /\ applied[t] = [issue |-> 0, times |-> 0] /\ issued[t] = 0
        /\ ~Active(t)
    BY DEF Init, Idle, Active
  <2>2. nextValue[t] # 0
    <3>1. nextValue[t] \in Pair[t] BY TypeInit DEF TypeInv, ConsoleOK
    <3> QED BY <3>1, PairPositive
  <2>3. Silent(t) BY <2>1 DEF Silent
  <2>4. PhaseOK(t) BY <2>1, <2>2 DEF PhaseOK, Phase, InOrder, Taken, Known, Quiet
  <2> QED BY <2>3, <2>4
<1>2. last[CheckOff] = 0 BY TopicsAre DEF Init
<1> QED BY <1>1, <1>2, TypeInit, CourseInit DEF LinkInv

\* A topic that is sent is not alone for the others with its values, and one that
\* is alone was so before.
LEMMA AloneBefore ==
  ASSUME \A u \in Topics : issued'[u] = 0 => issued[u] = 0
  PROVE  \A t \in Topics : Alone(t)' => Alone(t)
BY DEF Alone

\* A topic nothing happens to.
LEMMA PhaseRest ==
  ASSUME NEW t \in Topics, PhaseOK(t),
         nextValue'[t] = nextValue[t], sub'[t] = sub[t], last'[t] = last[t], answers' = answers,
         applied'[t] = applied[t], issued'[t] = issued[t], restarts' = restarts,
         UNCHANGED <<sending, issue>>
  PROVE  PhaseOK(t)'
<1>1. Active(t)' = Active(t) /\ Count(t)' = Count(t) BY DEF Active, Count
<1> QED BY <1>1 DEF PhaseOK

\* Fewer messages and answers, but for answers of other topics.
LEMMA SilentStays ==
  ASSUME NEW t \in Topics, Silent(t), issued'[t] = issued[t], sending' = sending,
         sub[t] = <<>> => sub'[t] = <<>> /\ (last[t] = 0 => last'[t] = 0),
         \A i \in 1..Len(answers') :
           answers'[i].topic = t => \E j \in 1..Len(answers) : answers[j].topic = t
  PROVE  Silent(t)'
BY DEF Silent, Active

\* Nothing is being sent any more, with the new values and answers.
AllQuiet ==
  \A t \in Topics :
    Alone(t) => Phase(t, nextValue'[t], sub[t], last[t], answers', applied[t], issued[t],
                      FALSE, Count(t))

\* The answers left are some of those there were.
Fewer(t) ==
  \A i \in 1..Len(answers') :
    answers'[i].topic = t => \E j \in 1..Len(answers) : answers[j].topic = t

\* What the invariant says of each topic.
TopicOK(t) == Silent(t) /\ (Alone(t) => PhaseOK(t))

\* The console sets out to send the next value of f.
LEMMA LinkSends ==
  ASSUME TypeInv, \A t \in Topics : Silent(t), \A t \in Topics : Fewer(t),
         NEW f \in Topics, nextValue'[f] \in Pair[f], Send(f, nextValue'[f]),
         UNCHANGED <<last, applied, restarts>>, AllQuiet
  PROVE  \A t \in Topics : TopicOK(t)'
<1>1. /\ SubOK' /\ Takes(sub[f], nextValue'[f], sub'[f])
      /\ \A u \in Topics : u # f => sub'[u] = sub[u] /\ issued'[u] = issued[u]
      /\ sending'.on /\ sending'.pub = f
      /\ issue' = issue + 1 /\ issued'[f] = issue'
  BY SendGives DEF TypeInv
<1>0. issued'[f] # 0 /\ issue' \in Nat BY <1>1 DEF TypeInv, HistoryOK
<1>2. \A t \in Topics : Alone(t)' => Alone(t) BY <1>0, <1>1, AloneBefore
<1>3. ASSUME NEW t \in Topics, t # f PROVE TopicOK(t)'
  <2>1. Active(t)' = FALSE BY <1>1, <1>3 DEF Active
  <2>2. Count(t)' = Count(t) BY DEF Count
  <2>3. Alone(t)' => PhaseOK(t)' BY <1>1, <1>2, <1>3, <2>1, <2>2 DEF PhaseOK, AllQuiet
  <2>4. Silent(t)' BY <1>1, <1>3, <2>1 DEF Silent, Fewer
  <2> QED BY <2>3, <2>4 DEF TopicOK
<1>4. Alone(f)' => PhaseOK(f)'
  <2> SUFFICES ASSUME Alone(f)' PROVE PhaseOK(f)'
    OBVIOUS
  <2>1. Active(f)' = TRUE /\ Count(f)' = Count(f) BY <1>1 DEF Active, Count
  <2>2. applied[f].issue # issued'[f] BY <1>1 DEF TypeInv, HistoryOK, IssuesOK
  <2>3. sub[f] \in Seq(Nat) /\ sub'[f] \in Seq(Nat) BY <1>1 DEF TypeInv, SubOK
  <2> DEFINE r == Count(f)
  <2>4. Phase(f, nextValue'[f], sub[f], last[f], answers', applied[f], issued[f], FALSE, r)
    BY <1>2 DEF AllQuiet
  <2> HIDE DEF r
  <2>5. Phase(f, nextValue'[f], sub'[f], last[f], answers', applied[f], issued'[f], TRUE, r)
    BY <1>1, <2>2, <2>3, <2>4, PhaseStarts
  <2> QED BY <1>1, <2>1, <2>5 DEF PhaseOK, r
<1> QED BY <1>0, <1>3, <1>4 DEF TopicOK, Silent

\* The console halts or sets out to send, when no value is being sent any more.
LEMMA LinkGoesOn ==
  ASSUME TypeInv, \A t \in Topics : Silent(t), \A t \in Topics : Fewer(t),
         UNCHANGED <<last, applied, restarts>>,
         \A t \in Topics : nextValue'[t] \in Pair[t], AllQuiet,
         Halts \/ Starts(nextValue')
  PROVE  \A t \in Topics : TopicOK(t)'
<1>1. CASE Halts
  <2>1. ASSUME NEW t \in Topics PROVE TopicOK(t)'
    <3>1. Active(t)' = FALSE BY <1>1 DEF Halts, Idle, Active
    <3>2. /\ Count(t)' = Count(t) /\ Alone(t)' = Alone(t)
          /\ UNCHANGED <<sub, issue, issued, last, applied>>
      BY <1>1 DEF Halts, Count, Alone
    <3>3. Alone(t)' => PhaseOK(t)' BY <3>1, <3>2 DEF PhaseOK, AllQuiet
    <3>4. Silent(t)' BY <3>1, <3>2 DEF Silent, Fewer
    <3> QED BY <3>3, <3>4 DEF TopicOK
  <2> QED BY <2>1
<1>2. CASE Starts(nextValue')
  <2>1. PICK c \in Commands : Send(FirstTopic(c), nextValue'[FirstTopic(c)])
    BY <1>2 DEF Starts
  <2>2. FirstTopic(c) \in Topics BY FirstTopicOK
  <2> QED BY <2>1, <2>2, LinkSends
<1> QED BY <1>1, <1>2

\* Where a step leaves the robot's end of the topics and the answers alone.
LEMMA LinkRests ==
  ASSUME \A t \in Topics : TopicOK(t),
         UNCHANGED <<sending, nextValue, sub, last, answers, issue, issued, applied, restarts>>
  PROVE  \A t \in Topics : TopicOK(t)'
<1> SUFFICES ASSUME NEW t \in Topics PROVE TopicOK(t)'
  OBVIOUS
<1>1. Alone(t)' = Alone(t) BY DEF Alone
<1>2. Alone(t)' => PhaseOK(t)' BY <1>1, PhaseRest DEF TopicOK
<1>3. Silent(t)' BY SilentStays DEF TopicOK
<1> QED BY <1>2, <1>3 DEF TopicOK

LEMMA LinkFrom ==
  /\ LinkInv => \A t \in Topics : TopicOK(t)
  /\ TypeInv /\ CourseOK /\ last[CheckOff] = 0 /\ (\A t \in Topics : TopicOK(t)) => LinkInv
BY DEF LinkInv, TopicOK

LEMMA LinkEnqueue ==
  ASSUME LinkInv, TypeInv', CourseOK', NEW cmd \in Commands, Enqueue(cmd)
  PROVE  LinkInv'
<1> USE DEF LinkInv
<1>0. UNCHANGED <<mode, nextValue, last, answers, applied, restarts>> BY DEF Enqueue, robot
<1>1. CASE current = None
  <2>1. Append(queue, cmd) \in Seq(Commands) BY AppendGives DEF TypeInv, ConsoleOK
  <2>2. Halts \/ Starts(nextValue')
    BY <1>0, <1>1, <2>1, ProcessNextGives DEF Enqueue, Shown, TypeInv, ConsoleOK
  <2>3. \A t \in Topics : Active(t) = FALSE BY <1>1 DEF TypeInv, ConsoleOK, Active
  <2>4. AllQuiet BY <1>0, <2>3 DEF PhaseOK, AllQuiet
  <2>5. \A t \in Topics : nextValue'[t] \in Pair[t] BY <1>0 DEF TypeInv, ConsoleOK
  <2>6. \A t \in Topics : Fewer(t) BY <1>0 DEF Fewer
  <2>7. \A t \in Topics : TopicOK(t)' BY <1>0, <2>2, <2>4, <2>5, <2>6, LinkGoesOn
  <2> QED BY <1>0, <2>7 DEF TopicOK
<1>2. CASE current # None
  <2>1. UNCHANGED <<current, sending, sub, issue, issued>> BY <1>2 DEF Enqueue
  <2>2. \A t \in Topics : TopicOK(t)' BY <1>0, <2>1, LinkRests, LinkFrom
  <2> QED BY <1>0, <2>2 DEF TopicOK
<1> QED BY <1>1, <1>2

LEMMA LinkPublish ==
  ASSUME LinkInv, TypeInv', CourseOK', Publish
  PROVE  LinkInv'
<1> USE DEF LinkInv
<1>1. PICK c \in Topics : c = sending.pub
  BY DEF Publish, TypeInv, ConsoleOK
<1>2. sending.on = TRUE /\ sending.value = nextValue[c] BY <1>1 DEF Publish, CourseOK
<1>3. UNCHANGED <<sending, nextValue, last, answers, issue, issued, applied, restarts>>
      /\ sub' = [sub EXCEPT ![c] = Offer(@, nextValue[c], QueueSize(c))]
  BY <1>1, <1>2 DEF Publish, robot, console, history
<1>4. nextValue[c] \in Pair[c] BY DEF TypeInv, ConsoleOK
<1>5. /\ Takes(sub[c], nextValue[c], sub'[c])
      /\ \A u \in Topics : u # c => sub'[u] = sub[u]
  BY <1>3, <1>4, OfferedGives DEF TypeInv
<1>6. \A t \in Topics : Alone(t)' = Alone(t) BY <1>3 DEF Alone
<1>7. ASSUME NEW t \in Topics, t # c PROVE TopicOK(t)'
  <2>1. Alone(t)' => PhaseOK(t)' BY <1>3, <1>5, <1>6, <1>7, PhaseRest
  <2>2. Silent(t)' BY <1>3, <1>5, <1>7, SilentStays
  <2> QED BY <2>1, <2>2 DEF TopicOK
<1>8. Active(c) = TRUE /\ Active(c)' = TRUE BY <1>1, <1>2, <1>3 DEF Active
<1>9. Alone(c)' => PhaseOK(c)'
  <2> SUFFICES ASSUME Alone(c) PROVE PhaseOK(c)'
    BY <1>6
  <2>1. sub[c] \in Seq(Nat) /\ sub'[c] \in Seq(Nat) BY DEF TypeInv, SubOK
  <2> DEFINE r == Count(c)
  <2>3. Phase(c, nextValue[c], sub[c], last[c], answers, applied[c], issued[c], TRUE, r)
    BY <1>8 DEF PhaseOK
  <2>4. r = Count(c) /\ Count(c)' = r BY <1>3 DEF Count
  <2> HIDE DEF r
  <2>5. Phase(c, nextValue[c], sub'[c], last[c], answers, applied[c], issued[c], TRUE, r)
    BY <1>5, <2>1, <2>3, PhasePublishes
  <2>6. issued[c] = issue BY <1>8 DEF PhaseOK
  <2> QED BY <1>3, <1>8, <2>4, <2>5, <2>6 DEF PhaseOK
<1>10. issued'[c] # 0 BY <1>3, <1>8 DEF Silent
<1>11. TopicOK(c)' BY <1>9, <1>10 DEF TopicOK, Silent
<1> QED BY <1>3, <1>7, <1>11 DEF TopicOK

LEMMA AnswerTyped ==
  ASSUME AnswersOK, answers # <<>>
  PROVE  /\ Head(answers) = answers[1] /\ 1 \in 1..Len(answers) /\ Len(answers) \in Nat
         /\ answers[1].topic \in Topics /\ answers[1].data \in Pair[answers[1].topic]
<1> DEFINE S == [data : Nat, topic : Topics]
<1>1. answers \in Seq(S) BY DEF AnswersOK
<1> HIDE DEF S
<1>2. Head(answers) = answers[1] /\ Len(answers) >= 1 /\ Len(answers) \in Nat /\ answers[1] \in S
  BY <1>1, TailGives
<1>3. answers[1] \in [data : Nat, topic : Topics] BY <1>2 DEF S
<1> QED BY <1>2, <1>3 DEF AnswersOK

\* Taking an answer leaves fewer of each topic.
LEMMA TakenFewer ==
  ASSUME AnswersOK, answers # <<>>, answers' = Tail(answers)
  PROVE  /\ \A i \in 1..Len(answers') : i + 1 \in 1..Len(answers) /\ answers'[i] = answers[i + 1]
         /\ \A t \in Topics : Fewer(t)
<1>1. /\ Len(answers) >= 1 /\ Len(answers') = Len(answers) - 1 /\ Len(answers) \in Nat
      /\ \A i \in 1..Len(answers') : answers'[i] = answers[i + 1]
  BY AnswerTaken, AnswerTyped
<1>2. \A i \in 1..Len(answers') : i + 1 \in 1..Len(answers) /\ answers'[i] = answers[i + 1]
  BY <1>1
<1> QED BY <1>2 DEF Fewer

\* The answer that ends the issue of a topic that is alone answers it.
LEMMA AnswerIsItsOwn ==
  ASSUME LinkInv, answers # <<>>, Matches(Head(answers)), Alone(sending.pub)
  PROVE  /\ sending.pub \in Topics /\ Active(sending.pub) = TRUE
         /\ Answers(sending.pub, nextValue[sending.pub], answers[1])
<1> USE DEF LinkInv
<1>1. sending.on /\ sending.pub \in Topics BY DEF Matches, TypeInv, ConsoleOK
<1> DEFINE t == sending.pub
           u == answers[1].topic
<1>2. sending.value = nextValue[t] /\ nextValue[t] \in Pair[t]
  BY <1>1 DEF CourseOK, TypeInv, ConsoleOK
<1>3. /\ Head(answers) = answers[1] /\ 1 \in 1..Len(answers)
      /\ u \in Topics /\ answers[1].data \in Pair[u]
  BY AnswerTyped DEF TypeInv
<1>4. answers[1].data = nextValue[t] BY <1>2, <1>3 DEF Matches
<1>5. issued[u] # 0 BY <1>3 DEF Silent
<1>6. u = t
  <2>1. Pair[u] \cap Pair[t] # {} BY <1>2, <1>3, <1>4
  <2> QED BY <1>3, <1>5, <2>1 DEF Alone
<1> QED BY <1>1, <1>4, <1>6 DEF Active, Answers

\* status_callback flips the value of the topic that was sent.
LEMMA SpentIsSent ==
  ASSUME TypeInv, CourseOK, sending.on,
         \/ current = "restart_lidar" /\ mode = 3 /\ stage = 1 /\ SecondLidar
         \/ ~(current = "restart_lidar" /\ mode = 3 /\ stage = 1) /\ Complete
  PROVE  /\ sending.pub \in Topics
         /\ nextValue' = [nextValue EXCEPT ![sending.pub] = Other(sending.pub, @)]
<1>1. sending.pub \in Topics /\ current # None BY DEF TypeInv, ConsoleOK
<1>2. CASE current = "restart_lidar" /\ mode = 3 /\ stage = 1 /\ SecondLidar
  <2>1. sending.pub = "restart_lidar" BY <1>2 DEF CourseOK, AtSecond
  <2> QED BY <1>1, <1>2, <2>1 DEF SecondLidar
<1>3. CASE ~(current = "restart_lidar" /\ mode = 3 /\ stage = 1) /\ Complete
  <2>1. mode \in {1, 2, 3} BY LinkAssumption DEF LinkAssumption, TypeInv, ConsoleOK
  <2>2. sending.pub = SpentTopic BY <1>1, <1>3, <2>1 DEF CourseOK, AtSecond, SpentTopic
  <2> QED BY <1>1, <1>3, <2>2 DEF Complete
<1> QED BY <1>2, <1>3

\* The console has taken the oldest answer.
LEMMA PhaseAnswerGone ==
  ASSUME NEW t, NEW n, NEW s, NEW l, NEW p, NEW k, NEW on, NEW r,
         Phase(t, n, s, l, answers, p, k, on, r),
         \A i \in 1..Len(answers') : answers'[i] = answers[i + 1] /\ i + 1 \in 1..Len(answers)
  PROVE  Phase(t, n, s, l, answers', p, k, on, r)
<1>1. \A i \in 1..Len(answers') : i + 1 \in 1..Len(answers) /\ answers'[i] = answers[i + 1]
  OBVIOUS
<1>2. 1 \in Nat OBVIOUS
<1> QED BY <1>1, <1>2, PhaseFewerAnswers

\* What an answer that settles the issue leaves behind: nothing is being sent.
LEMMA LinkSettles ==
  ASSUME LinkInv, answers # <<>>, answers' = Tail(answers), Matches(Head(answers)),
         \/ current = "restart_lidar" /\ mode = 3 /\ stage = 1 /\ SecondLidar
         \/ ~(current = "restart_lidar" /\ mode = 3 /\ stage = 1) /\ Complete
  PROVE  AllQuiet /\ \A t \in Topics : nextValue'[t] \in Pair[t]
<1> USE DEF LinkInv
<1>1. /\ Len(answers) >= 1 /\ Len(answers') = Len(answers) - 1 /\ Len(answers) \in Nat
      /\ \A i \in 1..Len(answers') : answers'[i] = answers[i + 1] /\ i + 1 \in 1..Len(answers)
  BY AnswerTaken DEF TypeInv, AnswersOK
<1>2. ASSUME NEW t \in Topics, Alone(t), ~Active(t)
      PROVE  Phase(t, nextValue[t], sub[t], last[t], answers', applied[t], issued[t],
                   FALSE, Count(t))
  <2>1. Active(t) = FALSE BY <1>2 DEF Active
  <2>2. Phase(t, nextValue[t], sub[t], last[t], answers, applied[t], issued[t], FALSE, Count(t))
    BY <1>2, <2>1 DEF PhaseOK
  <2> QED BY <1>1, <2>2, PhaseAnswerGone
<1>3. PICK spent \in Topics :
        /\ spent = sending.pub
        /\ nextValue' = [nextValue EXCEPT ![spent] = Other(spent, @)]
  BY SpentIsSent DEF Matches
<1>4. /\ \A u \in Topics : nextValue'[u] \in Pair[u]
      /\ nextValue'[spent] # nextValue[spent]
      /\ \A u \in Topics : u # spent => nextValue'[u] = nextValue[u]
  BY <1>3, FlipOK
<1>5. ASSUME NEW t \in Topics, Alone(t)
      PROVE  Phase(t, nextValue'[t], sub[t], last[t], answers', applied[t], issued[t],
                   FALSE, Count(t))
  <2>1. CASE t = spent
    <3>2. Active(t) = TRUE /\ Answers(t, nextValue[t], answers[1])
      BY <1>3, <1>5, <2>1, AnswerIsItsOwn
    <3>3. nextValue'[t] # nextValue[t] /\ nextValue'[t] # 0 BY <1>4, <2>1, PairPositive
    <3>4. Phase(t, nextValue[t], sub[t], last[t], answers, applied[t], issued[t], TRUE, Count(t))
      BY <1>5, <3>2 DEF PhaseOK
    <3> QED BY <1>1, <3>2, <3>3, <3>4, PhaseSpends
  <2>2. CASE t # spent
    <3>1. ~Active(t) BY <1>3, <2>2 DEF Active
    <3> QED BY <1>2, <1>4, <1>5, <2>2, <3>1
  <2> QED BY <2>1, <2>2
<1> QED BY <1>4, <1>5 DEF AllQuiet

LEMMA LinkStatusCallback ==
  ASSUME LinkInv, TypeInv', CourseOK', StatusCallback
  PROVE  LinkInv'
<1> USE DEF LinkInv
<1>0. UNCHANGED <<mode, last, applied, restarts>> /\ answers # <<>> /\ answers' = Tail(answers)
  BY DEF StatusCallback, robot
<1>1. /\ \A i \in 1..Len(answers') : i + 1 \in 1..Len(answers) /\ answers'[i] = answers[i + 1]
      /\ \A t \in Topics : Fewer(t)
  BY <1>0, TakenFewer DEF TypeInv
<1>3. CASE IgnoreAnswer
  <2>1. UNCHANGED <<sending, current, nextValue, sub, issue, issued>>
    BY <1>3 DEF IgnoreAnswer, console
  <2>2. ASSUME NEW t \in Topics, Alone(t) PROVE PhaseOK(t)'
    <3> DEFINE on == Active(t)
               r == Count(t)
    <3>1. Phase(t, nextValue[t], sub[t], last[t], answers, applied[t], issued[t], on, r)
      BY <2>2 DEF PhaseOK
    <3>2. Active(t) => issued[t] = issue BY <2>2 DEF PhaseOK
    <3>3. on = Active(t) /\ Active(t)' = on /\ r = Count(t) /\ Count(t)' = r
      BY <1>0, <2>1 DEF Active, Count
    <3> HIDE DEF on, r
    <3>4. 1 \in Nat OBVIOUS
    <3>5. Phase(t, nextValue[t], sub[t], last[t], answers', applied[t], issued[t], on, r)
      BY <1>1, <3>1, <3>4, PhaseFewerAnswers
    <3> QED BY <1>0, <2>1, <3>2, <3>3, <3>5 DEF PhaseOK
  <2>3. \A t \in Topics : Alone(t)' = Alone(t) BY <2>1 DEF Alone
  <2>4. \A t \in Topics : Silent(t)' BY <1>0, <1>1, <2>1, SilentStays DEF Fewer
  <2> QED BY <1>0, <2>2, <2>3, <2>4
<1>4. CASE Matches(Head(answers)) /\ current = "restart_lidar" /\ mode = 3 /\ stage = 1 /\ SecondLidar
  <2>1. AllQuiet /\ \A t \in Topics : nextValue'[t] \in Pair[t] BY <1>0, <1>4, LinkSettles
  <2>2. "restart_lidar" \in Topics /\ "restart_lidar2" \in Topics BY TopicsAre
  <2>3. nextValue'["restart_lidar2"] = nextValue["restart_lidar2"]
    BY <1>4, <2>2, FlipOK DEF SecondLidar
  <2>4. Send("restart_lidar2", nextValue'["restart_lidar2"]) BY <1>4, <2>3 DEF SecondLidar
  <2>5. \A t \in Topics : TopicOK(t)' BY <1>0, <1>1, <2>1, <2>2, <2>4, LinkSends
  <2> QED BY <1>0, <2>5 DEF TopicOK
<1>5. CASE /\ Matches(Head(answers)) /\ Complete
           /\ ~(current = "restart_lidar" /\ mode = 3 /\ stage = 1)
  <2>1. AllQuiet /\ \A t \in Topics : nextValue'[t] \in Pair[t] BY <1>0, <1>5, LinkSettles
  <2>2. Halts \/ Starts(nextValue')
    <3>1. ShownAtAnswer(current) \in Shown BY DEF ShownAtAnswer, Shown, TypeInv, ConsoleOK
    <3> QED BY <1>5, <3>1, ProcessNextGives DEF Complete, TypeInv, ConsoleOK
  <2>3. \A t \in Topics : TopicOK(t)' BY <1>0, <1>1, <2>1, <2>2, LinkGoesOn
  <2> QED BY <1>0, <2>3 DEF TopicOK
<1> QED BY <1>3, <1>4, <1>5 DEF StatusCallback

\* What receiving does to the topic received.
LEMMA LinkReceives ==
  ASSUME LinkInv, NEW t \in Topics, Arrived(t),
         \/ Head(sub[t]) = last[t] /\ applied' = applied
         \/ Head(sub[t]) # last[t] /\ CarryOut(t)
  PROVE  /\ Alone(t) => Phase(t, nextValue[t], sub'[t], Head(sub[t]), answers, applied'[t],
                              issued[t], Active(t), Count(t))
         /\ Head(sub[t]) \in Pair[t] /\ Head(sub[t]) # 0 /\ sub[t] # <<>>
         /\ \A u \in Topics : u # t => sub'[u] = sub[u] /\ applied'[u] = applied[u]
<1> USE DEF LinkInv
<1> DEFINE s == sub[t]
<1>1. /\ Head(s) = s[1] /\ s[1] \in Pair[t]
      /\ \A u \in Topics : u # t => sub'[u] = sub[u]
  BY ArrivedGives DEF TypeInv
<1>2. s[1] # 0 /\ s[1] \in Nat BY <1>1, PairPositive
<1>3. s \in Seq(Nat) /\ s # <<>> /\ sub'[t] = Tail(s) BY DEF TypeInv, SubOK, Arrived
<1>4. applied[t].times \in Nat BY DEF TypeInv, HistoryOK
<1>5. /\ \A u \in Topics : u # t => applied'[u] = applied[u]
      /\ s[1] = last[t] => applied'[t] = applied[t]
      /\ s[1] # last[t] => /\ applied'[t].issue = issued[t]
                           /\ applied'[t].times =
                                IF applied[t].issue = issued[t] THEN applied[t].times + 1 ELSE 1
  BY <1>1, CarryOutGives DEF TypeInv
<1>6. answers \in Seq([data : Nat, topic : Topics]) BY DEF TypeInv, AnswersOK
<1> HIDE DEF s
<1>7. ASSUME Alone(t)
      PROVE  Phase(t, nextValue[t], Tail(s), s[1], answers, applied'[t], issued[t], Active(t), Count(t))
  <2> DEFINE on == Active(t)
             r == Count(t)
  <2>1. Phase(t, nextValue[t], s, last[t], answers, applied[t], issued[t], on, r)
    BY <1>7 DEF PhaseOK, s
  <2> HIDE DEF on, r
  <2>2. Phase(t, nextValue[t], Tail(s), s[1], answers, applied'[t], issued[t], on, r)
    BY <1>2, <1>3, <1>4, <1>5, <1>6, <2>1, PhaseReceives
  <2> QED BY <2>2 DEF on, r
<1> QED BY <1>1, <1>2, <1>3, <1>5, <1>7 DEF s

\* What answering does to any topic.
LEMMA LinkAnswers ==
  ASSUME AnswersOK, AnswersOK', NEW t \in Topics, NEW v, v # 0,
         Takes(answers, [data |-> v, topic |-> t], answers'),
         NEW u \in Topics, NEW n, NEW s, NEW l, NEW p, NEW k, NEW on, NEW r,
         u = t => l = v,
         Phase(u, n, s, l, answers, p, k, on, r)
  PROVE  Phase(u, n, s, l, answers', p, k, on, r)
<1> DEFINE m == [data |-> v, topic |-> t]
           S == [data : Nat, topic : Topics]
<1>1. answers \in Seq(S) /\ answers' \in Seq(S) BY DEF AnswersOK
<1>2. m.topic = u => m.data = l /\ l # 0 OBVIOUS
<1> HIDE DEF m, S
<1>3. Takes(answers, m, answers') BY DEF m
<1> QED BY <1>1, <1>2, <1>3, PhaseAnswers

\* An answer of t is one more of t only.
LEMMA AnswersOthers ==
  ASSUME AnswersOK, AnswersOK', NEW t \in Topics, NEW v,
         Takes(answers, [data |-> v, topic |-> t], answers')
  PROVE  \A u \in Topics : u # t => Fewer(u)
<1> DEFINE m == [data |-> v, topic |-> t]
           S == [data : Nat, topic : Topics]
<1>1. answers \in Seq(S) /\ answers' \in Seq(S) /\ m.topic = t /\ Takes(answers, m, answers')
  BY DEF AnswersOK
<1> HIDE DEF m, S
<1>2. \A i \in 1..Len(answers') : answers'[i] = m \/ \E k \in 1..Len(answers) : answers'[i] = answers[k]
  BY <1>1, TakesGives
<1> QED BY <1>1, <1>2 DEF Fewer

\* A file's callback takes a new value.
LEMMA LinkTakes ==
  ASSUME LinkInv, TypeInv', CourseOK', NEW t \in FileTopics,
         Arrived(t), Head(sub[t]) # last[t], CarryOut(t),
         last' = [last EXCEPT ![t] = Head(sub[t])],
         UNCHANGED <<sending, nextValue, answers, issue, issued, restarts>>
  PROVE  LinkInv'
<1> USE DEF LinkInv
<1>0. t \in Topics /\ t # CheckOff BY TopicsAre
<1>1. \A u : /\ Active(u)' = Active(u) /\ Count(u)' = Count(u) /\ Alone(u)' = Alone(u)
  BY DEF Active, Count, Alone
<1>2. /\ Alone(t) => Phase(t, nextValue[t], sub'[t], Head(sub[t]), answers, applied'[t],
                           issued[t], Active(t), Count(t))
      /\ sub[t] # <<>>
      /\ \A u \in Topics : u # t => sub'[u] = sub[u] /\ applied'[u] = applied[u]
  BY <1>0, LinkReceives
<1>3. last'[t] = Head(sub[t]) /\ \A u \in Topics : u # t => last'[u] = last[u]
  BY <1>0 DEF TypeInv, RobotOK
<1>4. Alone(t)' => PhaseOK(t)' BY <1>0, <1>1, <1>2, <1>3 DEF PhaseOK
<1>5. ASSUME NEW u \in Topics, u # t PROVE Alone(u)' => PhaseOK(u)'
  BY <1>1, <1>2, <1>3, <1>5, PhaseRest
<1>6. \A u \in Topics : Silent(u)' BY <1>2, <1>3, SilentStays
<1>7. last'[CheckOff] = 0 BY <1>0, <1>3, TopicsAre
<1> QED BY <1>4, <1>5, <1>6, <1>7

\* A topic is received and answered in one step.
LEMMA LinkServed ==
  ASSUME LinkInv, TypeInv', CourseOK', NEW t \in Topics \ {CheckOff}, Arrived(t),
         \/ Head(sub[t]) = last[t] /\ applied' = applied
         \/ Head(sub[t]) # last[t] /\ CarryOut(t),
         last' = [last EXCEPT ![t] = Head(sub[t])],
         Respond(t, Head(sub[t])),
         UNCHANGED <<sending, nextValue, issue, issued, restarts>>
  PROVE  LinkInv'
<1> USE DEF LinkInv
<1> DEFINE v == Head(sub[t])
<1>2. \A u : Active(u)' = Active(u) /\ Count(u)' = Count(u) /\ Alone(u)' = Alone(u)
  BY DEF Active, Count, Alone
<1>3. /\ Alone(t) => Phase(t, nextValue[t], sub'[t], v, answers, applied'[t], issued[t],
                           Active(t), Count(t))
      /\ v \in Pair[t] /\ v # 0 /\ sub[t] # <<>>
      /\ \A u \in Topics : u # t => sub'[u] = sub[u] /\ applied'[u] = applied[u]
  BY LinkReceives
<1>4. last'[t] = v /\ \A u \in Topics : u # t => last'[u] = last[u]
  BY DEF TypeInv, RobotOK
<1>5. Takes(answers, [data |-> v, topic |-> t], answers') /\ AnswersOK /\ AnswersOK'
  BY <1>3, RespondGives DEF TypeInv
<1> HIDE DEF v
<1>6. ASSUME Alone(t) PROVE PhaseOK(t)'
  <2> DEFINE on == Active(t)
             r == Count(t)
  <2>1. Phase(t, nextValue[t], sub'[t], v, answers, applied'[t], issued[t], on, r)
    BY <1>3, <1>6
  <2>2. (Active(t) => issued[t] = issue) /\ Active(t)' = on /\ Count(t)' = r
    BY <1>2, <1>6 DEF PhaseOK
  <2>3. on = Active(t) OBVIOUS
  <2> HIDE DEF on, r
  <2>4. Phase(t, nextValue[t], sub'[t], v, answers', applied'[t], issued[t], on, r)
    BY <1>3, <1>5, <2>1, LinkAnswers
  <2> QED BY <1>4, <2>2, <2>3, <2>4 DEF PhaseOK
<1>7. ASSUME NEW u \in Topics, u # t, Alone(u) PROVE PhaseOK(u)'
  <2> DEFINE onu == Active(u)
             r == Count(u)
  <2>1. Phase(u, nextValue[u], sub[u], last[u], answers, applied[u], issued[u], onu, r)
    BY <1>7 DEF PhaseOK
  <2>2. (Active(u) => issued[u] = issue) /\ Active(u)' = onu /\ Count(u)' = r
    BY <1>2, <1>7 DEF PhaseOK
  <2>3. onu = Active(u) OBVIOUS
  <2> HIDE DEF onu, r
  <2>4. Phase(u, nextValue[u], sub[u], last[u], answers', applied[u], issued[u], onu, r)
    BY <1>3, <1>5, <1>7, <2>1, LinkAnswers
  <2> QED BY <1>3, <1>4, <1>7, <2>2, <2>3, <2>4 DEF PhaseOK
<1>8. \A u \in Topics : u # t => Fewer(u) BY <1>5, AnswersOthers
<1>9. issued'[t] # 0 BY <1>3 DEF Silent
<1>10. \A u \in Topics : Silent(u)'
  <2> SUFFICES ASSUME NEW u \in Topics PROVE Silent(u)'
    OBVIOUS
  <2>1. CASE u = t BY <1>9, <2>1 DEF Silent
  <2>2. CASE u # t BY <1>3, <1>4, <1>8, <2>2, SilentStays DEF Fewer
  <2> QED BY <2>1, <2>2
<1>11. last'[CheckOff] = 0 BY <1>4, TopicsAre
<1> QED BY <1>2, <1>6, <1>7, <1>10, <1>11

LEMMA LinkTakeFileAgain ==
  ASSUME LinkInv, TypeInv', CourseOK', NEW t \in FileTopics, TakeFileAgain(t)
  PROVE  LinkInv'
<1>1. t \in Topics \ {CheckOff} BY TopicsAre
<1>2. /\ Arrived(t) /\ Head(sub[t]) = last[t] /\ Respond(t, last[t])
      /\ UNCHANGED <<sending, nextValue, last, issue, issued, applied, restarts>>
  BY DEF TakeFileAgain, console, robot, history
<1>3. last' = [last EXCEPT ![t] = Head(sub[t])] BY <1>1, <1>2 DEF LinkInv, TypeInv, RobotOK
<1> QED BY <1>1, <1>2, <1>3, LinkServed

LEMMA LinkAnswerAtOnce ==
  ASSUME LinkInv, TypeInv', CourseOK', NEW t \in Topics \ {CheckOff}, AnswerAtOnce(t)
  PROVE  LinkInv'
<1>2. /\ Arrived(t) /\ last' = [last EXCEPT ![t] = Head(sub[t])]
      /\ IF Head(sub[t]) # last[t] THEN CarryOut(t) ELSE UNCHANGED applied
      /\ Respond(t, last'[t])
      /\ UNCHANGED <<sending, nextValue, issue, issued, restarts>>
  BY DEF AnswerAtOnce, console
<1>3. last'[t] = Head(sub[t]) BY <1>2 DEF LinkInv, TypeInv, RobotOK
<1> QED BY <1>2, <1>3, LinkServed

LEMMA LinkTakeCheckOff ==
  ASSUME LinkInv, TypeInv', CourseOK', TakeCheckOff
  PROVE  LinkInv'
<1> USE DEF LinkInv
<1> DEFINE t == CheckOff
           s == sub[t]
<1>1. t \in Topics BY TopicsAre
<1>2. /\ Arrived(t) /\ Respond(t, Head(s))
      /\ applied' = [applied EXCEPT ![t] = [issue |-> issued[t], times |-> 1]]
      /\ UNCHANGED <<sending, nextValue, last, issue, issued, restarts>>
  BY DEF TakeCheckOff, console, robot
<1> HIDE DEF t
<1>3. \A u : Active(u)' = Active(u) /\ Count(u)' = Count(u) /\ Alone(u)' = Alone(u)
  BY <1>2 DEF Active, Count, Alone
<1>4. /\ Head(s) = s[1] /\ s[1] \in Pair[t]
      /\ \A u \in Topics : u # t => sub'[u] = sub[u]
  BY <1>1, <1>2, ArrivedGives DEF TypeInv
<1>5. s[1] # 0 /\ s[1] \in Nat BY <1>1, <1>4, PairPositive
<1>6. s \in Seq(Nat) /\ s # <<>> /\ sub'[t] = Tail(s) BY <1>1, <1>2 DEF TypeInv, SubOK, Arrived
<1>7. applied'[t].issue = issued[t] /\ \A u \in Topics : u # t => applied'[u] = applied[u]
  BY <1>1, <1>2 DEF TypeInv, HistoryOK
<1>8. Takes(answers, [data |-> s[1], topic |-> t], answers') /\ AnswersOK /\ AnswersOK'
  BY <1>1, <1>2, <1>4, RespondGives DEF TypeInv
<1>9. Count(t) = 1 /\ last[t] = 0 /\ last'[t] = 0 BY <1>2 DEF t, Count
<1> HIDE DEF s
<1>10. ASSUME Alone(t) PROVE PhaseOK(t)'
  <2> DEFINE on == Active(t)
             n == nextValue[t]
             p == applied[t]
             k == issued[t]
             q == [issue |-> k, times |-> IF p.issue = k THEN p.times + 1 ELSE 1]
  <2>1. Phase(t, n, s, 0, answers, p, k, on, 1) BY <1>1, <1>9, <1>10 DEF PhaseOK, s
  <2>2. (on => k = issue) /\ Active(t)' = on /\ Count(t)' = 1
    BY <1>1, <1>3, <1>9, <1>10 DEF PhaseOK
  <2>3. n # 0 BY <1>1, PairPositive DEF TypeInv, ConsoleOK
  <2>4. p.times \in Nat BY <1>1 DEF TypeInv, HistoryOK
  <2>5. q.issue = k /\ q.times = IF p.issue = k THEN p.times + 1 ELSE 1 OBVIOUS
  <2>6. answers \in Seq([data : Nat, topic : Topics]) BY DEF TypeInv, AnswersOK
  <2>7. applied'[t].issue = k BY <1>7
  <2>8. n = nextValue'[t] /\ k = issued'[t] /\ issue' = issue BY <1>2
  <2>14. 1 # 0 OBVIOUS
  <2> HIDE DEF on, n, p, k, q
  <2>9. Phase(t, n, Tail(s), s[1], answers, q, k, on, 1)
    BY <1>5, <1>6, <2>1, <2>4, <2>5, <2>6, PhaseReceives
  <2>10. Phase(t, n, Tail(s), s[1], answers', q, k, on, 1)
    BY <1>1, <1>5, <1>8, <2>9, LinkAnswers
  <2>11. Phase(t, n, Tail(s), 0, answers', q, k, on, 1) BY <2>3, <2>10, <2>14, PhaseForgets
  <2>12. Phase(t, n, Tail(s), 0, answers', applied'[t], k, on, 1)
    BY <2>5, <2>7, <2>11, <2>14, PhaseRecounts
  <2>13. Phase(t, nextValue'[t], sub'[t], last'[t], answers', applied'[t], issued'[t], on, 1)
    BY <1>6, <1>9, <2>8, <2>12
  <2> QED BY <2>2, <2>8, <2>13 DEF PhaseOK
<1>11. ASSUME NEW u \in Topics, u # t, Alone(u) PROVE PhaseOK(u)'
  <2> DEFINE onu == Active(u)
             r == Count(u)
  <2>1. Phase(u, nextValue[u], sub[u], last[u], answers, applied[u], issued[u], onu, r)
    BY <1>11 DEF PhaseOK
  <2>2. (Active(u) => issued[u] = issue) /\ Active(u)' = onu /\ Count(u)' = r
    BY <1>3, <1>11 DEF PhaseOK
  <2>3. onu = Active(u) OBVIOUS
  <2> HIDE DEF onu, r
  <2>4. Phase(u, nextValue[u], sub[u], last[u], answers', applied[u], issued[u], onu, r)
    BY <1>1, <1>5, <1>8, <1>11, <2>1, LinkAnswers
  <2> QED BY <1>2, <1>4, <1>7, <1>11, <2>2, <2>3, <2>4 DEF PhaseOK
<1>12. \A u \in Topics : u # t => Fewer(u) BY <1>1, <1>8, AnswersOthers
<1>13. issued'[t] # 0 BY <1>1, <1>2, <1>6 DEF Silent, s
<1>14. \A u \in Topics : Silent(u)'
  <2> SUFFICES ASSUME NEW u \in Topics PROVE Silent(u)'
    OBVIOUS
  <2>1. CASE u = t BY <1>13, <2>1 DEF Silent
  <2>2. CASE u # t BY <1>2, <1>4, <1>12, <2>2, SilentStays DEF Fewer
  <2> QED BY <2>1, <2>2
<1>15. \A u \in Topics : Alone(u)' => PhaseOK(u)' BY <1>3, <1>10, <1>11
<1> QED BY <1>9, <1>14, <1>15 DEF t

\* The script thread leaves its loop and answers.
LEMMA LinkLeaves ==
  ASSUME LinkInv, TypeInv', CourseOK', NEW t \in FileTopics, serving = t, Respond(t, last[t]),
         UNCHANGED <<sending, nextValue, sub, last, issue, issued, applied, restarts>>
  PROVE  LinkInv'
<1> USE DEF LinkInv
<1>1. t \in Topics /\ t # None BY LinkAssumption DEF LinkAssumption, Topics
<1>2. \A u : Active(u)' = Active(u) /\ Count(u)' = Count(u) /\ Alone(u)' = Alone(u)
  BY DEF Active, Count, Alone
<1>3. last[t] \in Pair[t] /\ last[t] # 0 BY <1>1 DEF TypeInv, RobotOK
<1>4. Takes(answers, [data |-> last[t], topic |-> t], answers') /\ AnswersOK /\ AnswersOK'
  BY <1>1, <1>3, RespondGives DEF TypeInv
<1>5. ASSUME NEW u \in Topics, Alone(u) PROVE PhaseOK(u)'
  <2> DEFINE onu == Active(u)
             r == Count(u)
  <2>1. Phase(u, nextValue[u], sub[u], last[u], answers, applied[u], issued[u], onu, r)
    BY <1>5 DEF PhaseOK
  <2>2. Active(u) => issued[u] = issue BY <1>5 DEF PhaseOK
  <2>3. onu = Active(u) /\ Active(u)' = onu /\ Count(u)' = r BY <1>2
  <2> HIDE DEF onu, r
  <2>4. Phase(u, nextValue[u], sub[u], last[u], answers', applied[u], issued[u], onu, r)
    BY <1>1, <1>3, <1>4, <2>1, LinkAnswers
  <2> QED BY <2>2, <2>3, <2>4 DEF PhaseOK
<1>6. \A u \in Topics : u # t => Fewer(u) BY <1>1, <1>4, AnswersOthers
<1>7. issued[t] # 0 BY <1>1, <1>3 DEF Silent
<1>8. \A u \in Topics : Silent(u)'
  <2> SUFFICES ASSUME NEW u \in Topics PROVE Silent(u)'
    OBVIOUS
  <2>1. CASE u = t BY <1>7, <2>1 DEF Silent
  <2>2. CASE u # t BY <1>6, <2>2, SilentStays DEF Fewer
  <2> QED BY <2>1, <2>2
<1> QED BY <1>2, <1>5, <1>8

LEMMA LinkMessageLost ==
  ASSUME LinkInv, TypeInv', CourseOK', NEW t \in Topics, MessageLost(t)
  PROVE  LinkInv'
<1> USE DEF LinkInv
<1>1. /\ Arrived(t)
      /\ UNCHANGED <<sending, nextValue, last, answers, issue, issued, applied, restarts>>
  BY DEF MessageLost, console, robot, history
<1>2. sub[t] \in Seq(Nat) /\ sub[t] # <<>> /\ sub'[t] = Tail(sub[t])
      /\ \A u \in Topics : u # t => sub'[u] = sub[u]
  BY <1>1 DEF TypeInv, SubOK, Arrived
<1>3. \A u : Active(u)' = Active(u) /\ Count(u)' = Count(u) /\ Alone(u)' = Alone(u)
  BY <1>1 DEF Active, Count, Alone
<1>4. ASSUME Alone(t) PROVE PhaseOK(t)'
  <2> DEFINE on == Active(t)
             r == Count(t)
  <2>1. Phase(t, nextValue[t], sub[t], last[t], answers, applied[t], issued[t], on, r)
    BY <1>4 DEF PhaseOK
  <2>2. Active(t) => issued[t] = issue BY <1>4 DEF PhaseOK
  <2>3. on = Active(t) /\ Active(t)' = on /\ Count(t)' = r BY <1>3
  <2> HIDE DEF on, r
  <2>4. Phase(t, nextValue[t], Tail(sub[t]), last[t], answers, applied[t], issued[t], on, r)
    BY <1>2, <2>1, PhaseLoses
  <2> QED BY <1>1, <1>2, <2>2, <2>3, <2>4 DEF PhaseOK
<1>5. ASSUME NEW u \in Topics, u # t, Alone(u) PROVE PhaseOK(u)'
  BY <1>1, <1>2, <1>5, PhaseRest
<1>6. \A u \in Topics : Silent(u)' BY <1>1, <1>2, SilentStays
<1> QED BY <1>1, <1>3, <1>4, <1>5, <1>6

LEMMA LinkRobotRestart ==
  ASSUME LinkInv, TypeInv', CourseOK', RobotRestart
  PROVE  LinkInv'
<1> USE DEF LinkInv
<1>1. UNCHANGED <<sending, nextValue, issue, issued>> /\ restarts' = restarts + 1
      /\ restarts \in Nat
  BY DEF RobotRestart, console, TypeInv, HistoryOK
<1>2. \A t \in Topics :
        /\ sub'[t] = (IF t \in ElsewhereTopics THEN sub[t] ELSE <<>>)
        /\ last'[t] = (IF t \in ElsewhereTopics THEN last[t] ELSE 0)
        /\ applied'[t].issue = applied[t].issue
  <2> TAKE t \in Topics
  <2>1. /\ sub'[t] = (IF t \in ElsewhereTopics THEN sub[t] ELSE <<>>)
        /\ last'[t] = (IF t \in ElsewhereTopics THEN last[t] ELSE 0)
        /\ applied'[t] = applied[t] \/ applied'[t] = [applied[t] EXCEPT !.times = 0]
    BY DEF RobotRestart
  <2>2. applied'[t].issue = applied[t].issue BY <2>1 DEF TypeInv, HistoryOK
  <2> QED BY <2>1, <2>2
<1>3. \A i \in 1..Len(answers') : i + 0 \in 1..Len(answers) /\ answers'[i] = answers[i + 0]
  <2> DEFINE S == [data : Nat, topic : Topics]
  <2>1. answers \in Seq(S) /\ Len(answers) \in Nat BY DEF TypeInv, AnswersOK
  <2>2. PICK n \in 0..Len(answers) : answers' = SubSeq(answers, 1, n) BY DEF RobotRestart
  <2>3. 1 \in 1..(Len(answers) + 1) BY <2>1
  <2> HIDE DEF S
  <2>4. /\ Len(answers') = (IF 1 <= n THEN n - 1 + 1 ELSE 0)
        /\ \A i \in 1..Len(answers') : answers'[i] = answers[1 + i - 1]
    BY <2>1, <2>2, <2>3, SubSeqGives
  <2> QED BY <2>1, <2>4
<1>4. \A u : Active(u)' = Active(u) /\ Alone(u)' = Alone(u) BY <1>1 DEF Active, Alone
<1>5. ASSUME NEW t \in Topics, Alone(t) PROVE PhaseOK(t)'
  <2> DEFINE on == Active(t)
             r == Count(t)
             h == IF t = CheckOff THEN 1 ELSE restarts + 1
  <2>1. Phase(t, nextValue[t], sub[t], last[t], answers, applied[t], issued[t], on, r)
    BY <1>5 DEF PhaseOK
  <2>2. Active(t) => issued[t] = issue BY <1>5 DEF PhaseOK
  <2>3. on = Active(t) /\ Active(t)' = on /\ Count(t)' = h BY <1>1, <1>4 DEF Count
  <2>4. nextValue[t] # 0 BY PairPositive DEF TypeInv, ConsoleOK
  <2>5. h # 0 BY <1>1
  <2> HIDE DEF on, r, h
  <2>6. 0 \in Nat OBVIOUS
  <2>7. Phase(t, nextValue[t], sub[t], last[t], answers', applied[t], issued[t], on, r)
    BY <1>3, <2>1, <2>6, PhaseFewerAnswers
  <2>8. Phase(t, nextValue[t], sub'[t], last'[t], answers', applied'[t], issued[t], on, h)
    <3>1. CASE t \in ElsewhereTopics
      <4>1. sub'[t] = sub[t] /\ last'[t] = last[t] BY <1>2, <3>1
      <4>2. Phase(t, nextValue[t], sub[t], last[t], answers', applied'[t], issued[t], on, h)
        BY <1>2, <2>5, <2>7, PhaseRecounts
      <4> QED BY <4>1, <4>2
    <3>2. CASE t \notin ElsewhereTopics
      <4>1. sub'[t] = <<>> /\ last'[t] = 0 BY <1>2, <3>2
      <4>2. Len(sub'[t]) = 0 BY <4>1
      <4>3. Phase(t, nextValue[t], sub'[t], 0, answers', applied'[t], issued[t], on, h)
        BY <1>2, <2>4, <2>5, <2>7, <4>2, PhaseRestarts
      <4> QED BY <4>1, <4>3
    <3> QED BY <3>1, <3>2
  <2> QED BY <1>1, <2>2, <2>3, <2>8 DEF PhaseOK
<1>6. \A t \in Topics : Silent(t)'
  <2>1. \A t \in Topics : Fewer(t) BY <1>3 DEF Fewer
  <2> QED BY <1>1, <1>2, <2>1, SilentStays DEF Fewer
<1>7. last'[CheckOff] = 0 BY <1>2, TopicsAre, ElsewhereIs
<1> QED BY <1>4, <1>5, <1>6, <1>7

LEMMA LinkStep == LinkInv /\ [Next]_vars => LinkInv'
<1> SUFFICES ASSUME LinkInv, [Next]_vars PROVE LinkInv'
  OBVIOUS
<1>0. TypeInv' /\ CourseOK' BY TypeStep, CourseStep DEF LinkInv
<1>1. ASSUME UNCHANGED <<sending, nextValue, sub, last, answers, issue, issued, applied, restarts>>
      PROVE  LinkInv'
  <2>1. \A t \in Topics : TopicOK(t)' BY <1>1, LinkRests, LinkFrom
  <2> QED BY <1>0, <1>1, <2>1 DEF LinkInv, TopicOK
<1>2. ASSUME NEW m \in Modes, SetMode(m) PROVE LinkInv'
  BY <1>1, <1>2 DEF SetMode, robot, history
<1>3. ASSUME NEW t \in FileTopics, TakeFile(t) \/ TakeFileEmpty(t) PROVE LinkInv'
  <2>1. CASE TakeFile(t) BY <1>0, <2>1, LinkTakes DEF TakeFile, console
  <2>2. CASE TakeFileEmpty(t) BY <1>0, <2>2, LinkTakes DEF TakeFileEmpty, console
  <2> QED BY <1>3, <2>1, <2>2
<1>4. ASSUME NEW t \in FileTopics, SendDone(t) \/ SendGivenUp(t) PROVE LinkInv'
  <2>1. CASE SendDone(t) BY <1>0, <2>1, LinkLeaves DEF SendDone, console, history
  <2>2. CASE SendGivenUp(t) BY <1>0, <2>2, LinkLeaves DEF SendGivenUp, console
  <2> QED BY <1>4, <2>1, <2>2
<1>5. ASSUME NEW t \in FileTopics, SendFrame(t) PROVE LinkInv'
  BY <1>1, <1>5 DEF SendFrame, console, robot, history
<1>6. CASE TakeRestart
  <2>1. "restart_lidar" \in Topics \ {CheckOff} BY TopicsAre DEF CheckOff
  <2> QED BY <1>0, <1>6, <2>1, LinkAnswerAtOnce DEF TakeRestart
<1>7. CASE AnswerElsewhere
  <2>1. ElsewhereTopics \subseteq Topics \ {CheckOff} BY ElsewhereIs
  <2> QED BY <1>0, <1>7, <2>1, LinkAnswerAtOnce DEF AnswerElsewhere
<1>8. CASE Shutdown BY <1>1, <1>8 DEF Shutdown, console, history
<1>9. CASE McuReceive BY <1>1, <1>9 DEF McuReceive, console, robot, history
<1>10. CASE ReceiveAck BY <1>1, <1>10 DEF ReceiveAck, console, history
<1>11. CASE FrameLost BY <1>1, <1>11 DEF FrameLost, console, robot, history
<1>12. CASE UNCHANGED vars BY <1>1, <1>12 DEF vars, console, robot, history
<1> QED BY <1>0, <1>2, <1>3, <1>4, <1>5, <1>6, <1>7, <1>8, <1>9, <1>10, <1>11, <1>12,
           LinkEnqueue, LinkPublish, LinkStatusCallback, LinkTakeFileAgain, LinkTakeCheckOff,
           LinkMessageLost, LinkRobotRestart
        DEF Next, Callback

LEMMA LinkAlways == Spec => []LinkInv
BY LinkInit, LinkStep, PTL DEF Spec

\* An answer that ends an issue of a topic that is alone answers it, and the
\* callback of that topic has run for that issue.
LEMMA SettledIsApplied ==
  ASSUME LinkInv, [Next]_vars, Settled, Alone(sending.pub)
  PROVE  /\ applied[sending.pub].issue = issue
         /\ Head(answers).topic = sending.pub
<1> DEFINE t == sending.pub
<1>1. answers # <<>> /\ Matches(Head(answers)) BY SettledGives DEF LinkInv
<1>2. t \in Topics /\ Active(t) = TRUE /\ Answers(t, nextValue[t], answers[1])
  BY <1>1, AnswerIsItsOwn
<1>3. Head(answers) = answers[1] /\ 1 \in 1..Len(answers)
  BY <1>1, AnswerTyped DEF LinkInv, TypeInv
<1> HIDE DEF t
<1>4. applied[t].issue = issued[t] BY <1>2, <1>3 DEF LinkInv, PhaseOK, Phase, Taken, t
<1>5. issued[t] = issue BY <1>2 DEF LinkInv, PhaseOK, t
<1> QED BY <1>2, <1>3, <1>4, <1>5 DEF Answers, t

(* Publishing a value over and over, losing it and answering it late never   *)
(* makes the robot carry out an issue twice, as long as its process lives    *)
(* and no other topic with these values has been sent.                       *)
THEOREM AppliedOnceHolds == Spec => []AppliedOnce
<1>1. LinkInv => AppliedOnce
  BY DEF LinkInv, PhaseOK, Phase, Known, Count, AppliedOnce
<1> QED BY <1>1, LinkAlways, PTL

(* The value a topic will be sent with is never the one the robot takes for  *)
(* a repetition, whatever was lost and restarted before, as long as no other *)
(* topic with these values has been sent.                                    *)
THEOREM NextValueIsNewHolds == Spec => []NextValueIsNew
<1>1. LinkInv => NextValueIsNew
  BY DEF LinkInv, PhaseOK, Phase, Quiet, Active, NextValueIsNew
<1> QED BY <1>1, LinkAlways, PTL

(* When an answer ends an issue of a topic alone with its values, the        *)
(* callback of that topic has run for that very issue.                       *)
THEOREM AnsweredMeansAppliedHolds == Spec => AnsweredMeansApplied
<1>1. LinkInv /\ [Next]_vars
        => [Settled /\ Alone(sending.pub) => applied[sending.pub].issue = issue]_vars
  BY SettledIsApplied
<1> QED BY <1>1, LinkAlways, PTL DEF Spec, AnsweredMeansApplied

(* What the console's comment promises of all answers does hold of a topic   *)
(* alone with its values: the answer that ends its issue is its own.         *)
THEOREM AnswersKeepApart ==
  Spec => [][Settled /\ Alone(sending.pub) => Head(answers).topic = sending.pub]_vars
<1>1. LinkInv /\ [Next]_vars
        => [Settled /\ Alone(sending.pub) => Head(answers).topic = sending.pub]_vars
  BY SettledIsApplied
<1> QED BY <1>1, LinkAlways, PTL DEF Spec
-----------------------------------------------------------------------------
(* What the MCU holds.                                                      *)

\* A prompt MCU is at most one frame behind: the frame on the line is the one the
\* script thread waits for, and once it is acknowledged the MCU holds the contents.
PromptLine ==
  prompt =>
    /\ Len(toMcu) + Len(fromMcu) <= 1
    /\ \A i \in 1..Len(toMcu) :
         serving = toMcu[i].id /\ flag[serving] /\ toMcu[i].data = buffer[serving]
    /\ \A i \in 1..Len(fromMcu) :
         serving = fromMcu[i] /\ flag[serving] /\ mcu[serving] = buffer[serving]
    /\ serving # None => flag[serving] \/ mcu[serving] = buffer[serving]

\* An answer with the next value of t is on its way.
Replied(t) == \E i \in 1..Len(answers) : Answers(t, nextValue[t], answers[i])

\* The robot has done with the next value of t.
Through(t) == (last[t] = nextValue[t] /\ serving # t) \/ Replied(t)

Held(t) ==
  /\ serving = t /\ last[t] = nextValue[t] => buffer[t] = issued[t]
  /\ prompt /\ Through(t) => issued[t] \in {mcu[t], unsent[t]}

DeliverInv == LinkInv /\ PromptLine /\ \A t \in FileTopics : Alone(t) => Held(t)

LEMMA LineEmpty ==
  ASSUME SerialOK
  PROVE  /\ Len(toMcu) \in Nat /\ Len(fromMcu) \in Nat
         /\ toMcu = <<>> <=> Len(toMcu) = 0
         /\ fromMcu = <<>> <=> Len(fromMcu) = 0
<1> DEFINE S == [id : FileTopics, data : Nat]
<1>1. toMcu \in Seq(S) /\ fromMcu \in Seq(FileTopics) BY DEF SerialOK
<1> HIDE DEF S
<1> QED BY <1>1

\* Nothing is on the line while nothing is sent.
LEMMA LineQuiet ==
  ASSUME TypeInv, PromptLine, prompt, serving = None \/ ~flag[serving]
  PROVE  Len(toMcu) = 0 /\ Len(fromMcu) = 0
<1>1. Len(toMcu) \in Nat /\ Len(fromMcu) \in Nat BY LineEmpty DEF TypeInv
<1>2. CASE Len(toMcu) # 0
  <2> DEFINE S == [id : FileTopics, data : Nat]
  <2>1. toMcu \in Seq(S) /\ 1 \in 1..Len(toMcu) BY <1>1, <1>2 DEF TypeInv, SerialOK
  <2> HIDE DEF S
  <2>2. toMcu[1] \in S BY <2>1
  <2>3. toMcu[1].id \in FileTopics /\ None \notin FileTopics
    BY <2>2, LinkAssumption DEF S, LinkAssumption, Topics
  <2> QED BY <2>1, <2>3 DEF PromptLine
<1>3. CASE Len(fromMcu) # 0
  <2>1. fromMcu \in Seq(FileTopics) /\ 1 \in 1..Len(fromMcu) BY <1>1, <1>3 DEF TypeInv, SerialOK
  <2>2. fromMcu[1] \in FileTopics /\ None \notin FileTopics
    BY <2>1, LinkAssumption DEF LinkAssumption, Topics
  <2> QED BY <2>1, <2>2 DEF PromptLine
<1> QED BY <1>2, <1>3

LEMMA PromptTakeFile ==
  ASSUME TypeInv, PromptLine, NEW t \in FileTopics, TakeFile(t)
  PROVE  PromptLine'
<1> SUFFICES ASSUME prompt PROVE PromptLine'
  BY DEF PromptLine, TakeFile, serial
<1>1. Len(toMcu) = 0 /\ Len(fromMcu) = 0 BY LineQuiet DEF TakeFile
<1>2. toMcu' = toMcu /\ fromMcu' = fromMcu /\ serving' = t BY DEF TakeFile, serial
<1>3. flag'[t] = TRUE BY DEF TakeFile, TypeInv, RobotOK
<1> QED BY <1>1, <1>2, <1>3 DEF PromptLine

LEMMA PromptSendFrame ==
  ASSUME TypeInv, PromptLine, NEW t \in FileTopics, SendFrame(t)
  PROVE  PromptLine'
<1> SUFFICES ASSUME prompt PROVE PromptLine'
  BY DEF PromptLine, SendFrame
<1> DEFINE m == [id |-> t, data |-> buffer[t]]
           S == [id : FileTopics, data : Nat]
<1>1. m \in S /\ m.id = t /\ m.data = buffer[t] BY DEF TypeInv, RobotOK
<1>2. /\ toMcu' = Append(toMcu, m) /\ toMcu \in Seq(S)
      /\ fromMcu' = fromMcu /\ toMcu = <<>> /\ fromMcu = <<>>
      /\ serving = t /\ flag[t] /\ UNCHANGED <<serving, flag, buffer, mcu>>
  BY DEF SendFrame, TypeInv, SerialOK, robot
<1> HIDE DEF m, S
<1>3. Len(toMcu) = 0 /\ Len(fromMcu) = 0 BY <1>2
<1>4. Len(toMcu') = 1 /\ toMcu'[1] = m BY <1>1, <1>2, <1>3, AppendGives
<1> QED BY <1>1, <1>2, <1>3, <1>4 DEF PromptLine

LEMMA PromptMcuReceive ==
  ASSUME TypeInv, PromptLine, McuReceive
  PROVE  PromptLine'
<1> SUFFICES ASSUME prompt PROVE PromptLine'
  BY DEF PromptLine, McuReceive
<1> DEFINE S == [id : FileTopics, data : Nat]
<1>1. toMcu \in Seq(S) /\ fromMcu \in Seq(FileTopics) /\ toMcu # <<>> /\ toMcu' = Tail(toMcu)
  BY DEF TypeInv, SerialOK, McuReceive
<1> HIDE DEF S
<1>2. /\ Len(toMcu') = Len(toMcu) - 1 /\ Len(toMcu) >= 1 /\ Len(toMcu) \in Nat
      /\ Len(fromMcu) \in Nat /\ Head(toMcu) = toMcu[1] /\ toMcu[1] \in S
  BY <1>1, TailGives
<1>3. Len(toMcu) = 1 /\ Len(fromMcu) = 0 /\ Len(toMcu') = 0 BY <1>2 DEF PromptLine
<1>4. toMcu[1].id \in FileTopics BY <1>2 DEF S
<1>5. serving = toMcu[1].id /\ flag[serving] /\ toMcu[1].data = buffer[serving]
  BY <1>3 DEF PromptLine
<1>6. fromMcu' = Append(fromMcu, serving) /\ UNCHANGED <<serving, flag, buffer>>
  BY <1>2, <1>5 DEF McuReceive, robot
<1>7. mcu'[serving] = buffer[serving] BY <1>2, <1>4, <1>5 DEF McuReceive, TypeInv, SerialOK
<1>8. Len(fromMcu') = 1 /\ fromMcu'[1] = serving BY <1>1, <1>3, <1>4, <1>5, <1>6, AppendGives
<1> QED BY <1>3, <1>5, <1>6, <1>7, <1>8 DEF PromptLine

LEMMA PromptReceiveAck ==
  ASSUME TypeInv, PromptLine, ReceiveAck
  PROVE  PromptLine'
<1> SUFFICES ASSUME prompt PROVE PromptLine'
  BY DEF PromptLine, ReceiveAck
<1>1. fromMcu \in Seq(FileTopics) /\ fromMcu # <<>> /\ fromMcu' = Tail(fromMcu)
  BY DEF TypeInv, SerialOK, ReceiveAck
<1>2. /\ Len(fromMcu') = Len(fromMcu) - 1 /\ Len(fromMcu) >= 1 /\ Len(fromMcu) \in Nat
      /\ Head(fromMcu) = fromMcu[1]
  BY <1>1, TailGives
<1>3. Len(toMcu) \in Nat BY LineEmpty DEF TypeInv
<1>4. Len(fromMcu) = 1 /\ Len(toMcu) = 0 /\ Len(fromMcu') = 0 BY <1>2, <1>3 DEF PromptLine
<1>5. serving = fromMcu[1] /\ mcu[serving] = buffer[serving] BY <1>4 DEF PromptLine
<1>6. UNCHANGED <<serving, buffer, toMcu, mcu>> BY DEF ReceiveAck
<1> QED BY <1>4, <1>5, <1>6 DEF PromptLine

LEMMA PromptFrameLost ==
  ASSUME TypeInv, PromptLine, FrameLost
  PROVE  PromptLine'
<1> SUFFICES ASSUME prompt PROVE PromptLine'
  BY DEF PromptLine, FrameLost
<1>1. UNCHANGED <<serving, flag, buffer, mcu>> BY DEF FrameLost, robot
<1>2. Len(toMcu) \in Nat /\ Len(fromMcu) \in Nat /\ Len(toMcu) + Len(fromMcu) <= 1
  BY LineEmpty DEF TypeInv, PromptLine
<1>3. CASE toMcu # <<>> /\ toMcu' = Tail(toMcu) /\ UNCHANGED fromMcu
  <2> DEFINE S == [id : FileTopics, data : Nat]
  <2>1. toMcu \in Seq(S) BY DEF TypeInv, SerialOK
  <2> HIDE DEF S
  <2>2. Len(toMcu') = Len(toMcu) - 1 /\ Len(toMcu) >= 1 BY <1>3, <2>1, TailGives
  <2>3. Len(toMcu') = 0 /\ Len(fromMcu') = 0 BY <1>2, <1>3, <2>2
  <2> QED BY <1>1, <2>3 DEF PromptLine
<1>4. CASE fromMcu # <<>> /\ fromMcu' = Tail(fromMcu) /\ UNCHANGED toMcu
  <2>1. fromMcu \in Seq(FileTopics) BY DEF TypeInv, SerialOK
  <2>2. Len(fromMcu') = Len(fromMcu) - 1 /\ Len(fromMcu) >= 1 BY <1>4, <2>1, TailGives
  <2>3. Len(toMcu') = 0 /\ Len(fromMcu') = 0 BY <1>2, <1>4, <2>2
  <2> QED BY <1>1, <2>3 DEF PromptLine
<1> QED BY <1>3, <1>4 DEF FrameLost

LEMMA PromptSendDone ==
  ASSUME TypeInv, PromptLine, NEW t \in FileTopics, SendDone(t)
  PROVE  PromptLine'
<1> SUFFICES ASSUME prompt PROVE PromptLine'
  BY DEF PromptLine, SendDone, serial
<1>1. Len(toMcu) = 0 /\ Len(fromMcu) = 0 BY LineQuiet DEF SendDone
<1>2. serving' = None /\ toMcu' = toMcu /\ fromMcu' = fromMcu BY DEF SendDone, serial
<1> QED BY <1>1, <1>2 DEF PromptLine

LEMMA PromptSendGivenUp ==
  ASSUME TypeInv, PromptLine, NEW t \in FileTopics, SendGivenUp(t)
  PROVE  PromptLine'
<1> SUFFICES ASSUME prompt PROVE PromptLine'
  BY DEF PromptLine, SendGivenUp, serial
<1>1. Len(toMcu) = 0 /\ Len(fromMcu) = 0 BY DEF SendGivenUp
<1>2. serving' = None /\ toMcu' = toMcu /\ fromMcu' = fromMcu BY DEF SendGivenUp, serial
<1> QED BY <1>1, <1>2 DEF PromptLine

LEMMA PromptStep == TypeInv /\ PromptLine /\ [Next]_vars => PromptLine'
<1> SUFFICES ASSUME TypeInv, PromptLine, [Next]_vars PROVE PromptLine'
  OBVIOUS
<1>1. ASSUME UNCHANGED <<serving, buffer, flag, serial>> PROVE PromptLine'
  BY <1>1 DEF serial, PromptLine
<1>2. CASE (\E cmd \in Commands : Enqueue(cmd)) \/ (\E m \in Modes : SetMode(m)) \/ Publish \/ StatusCallback
  BY <1>1, <1>2 DEF Enqueue, SetMode, Publish, StatusCallback, robot
<1>3. ASSUME NEW t \in FileTopics, TakeFileAgain(t) \/ TakeFileEmpty(t) PROVE PromptLine'
  BY <1>1, <1>3 DEF TakeFileAgain, TakeFileEmpty, robot
<1>4. CASE TakeRestart \/ TakeCheckOff \/ AnswerElsewhere \/ Shutdown
  BY <1>1, <1>4 DEF TakeRestart, TakeCheckOff, AnswerElsewhere, AnswerAtOnce, Shutdown, robot
<1>5. ASSUME NEW t \in Topics, MessageLost(t) PROVE PromptLine'
  BY <1>1, <1>5 DEF MessageLost, robot
<1>6. CASE RobotRestart
  <2>1. prompt => Len(toMcu) = 0 /\ Len(fromMcu) = 0 BY <1>6, LineEmpty DEF RobotRestart, TypeInv
  <2> QED BY <1>6, <2>1 DEF RobotRestart, serial, PromptLine
<1>7. CASE UNCHANGED vars BY <1>1, <1>7 DEF vars, robot
<1> QED BY <1>2, <1>3, <1>4, <1>5, <1>6, <1>7, PromptTakeFile, PromptSendFrame, PromptSendDone,
           PromptSendGivenUp, PromptMcuReceive, PromptReceiveAck, PromptFrameLost
        DEF Next, Callback

\* A topic nothing happens to, but that an answer may have been read.
LEMMA HeldRest ==
  ASSUME NEW t \in FileTopics, Held(t), Replied(t)' => Replied(t),
         nextValue'[t] = nextValue[t], last'[t] = last[t], issued'[t] = issued[t],
         buffer'[t] = buffer[t], mcu'[t] = mcu[t], unsent'[t] = unsent[t], prompt' = prompt,
         serving' = t <=> serving = t
  PROVE  Held(t)'
BY DEF Held, Through

\* The console starts with the topic, or has just ended it.
LEMMA HeldQuiet ==
  ASSUME NEW t \in FileTopics,
         Quiet(t, nextValue'[t], sub[t], last[t], answers'), last'[t] = last[t]
  PROVE  Held(t)'
BY DEF Held, Through, Quiet, Replied

\* A callback answers the value v of the topic w.
LEMMA RepliedBy ==
  ASSUME AnswersOK, AnswersOK', NEW t \in FileTopics, NEW w, NEW v, nextValue'[t] = nextValue[t],
         Takes(answers, [data |-> v, topic |-> w], answers')
  PROVE  Replied(t)' => Replied(t) \/ (w = t /\ v = nextValue[t])
<1> DEFINE m == [data |-> v, topic |-> w]
           S == [data : Nat, topic : Topics]
<1>1. answers \in Seq(S) /\ answers' \in Seq(S) BY DEF AnswersOK
<1>2. m.topic = w /\ m.data = v /\ Takes(answers, m, answers') OBVIOUS
<1> HIDE DEF m, S
<1>3. \A i \in 1..Len(answers') : answers'[i] = m \/ \E k \in 1..Len(answers) : answers'[i] = answers[k]
  BY <1>1, <1>2, TakesGives
<1> QED BY <1>2, <1>3 DEF Replied, Answers

LEMMA HeldStatusCallback ==
  ASSUME LinkInv, NEW t \in FileTopics, Alone(t), Held(t), StatusCallback
  PROVE  Held(t)'
<1>1. answers # <<>> /\ answers' = Tail(answers)
      /\ UNCHANGED <<serving, last, buffer, mcu, unsent, prompt>>
  BY DEF StatusCallback, robot, serial
<1>2. CASE IgnoreAnswer
  <2>1. \A i \in 1..Len(answers') : i + 1 \in 1..Len(answers) /\ answers'[i] = answers[i + 1]
    BY <1>1, TakenFewer DEF LinkInv, TypeInv
  <2>2. UNCHANGED <<nextValue, issued>> BY <1>2 DEF IgnoreAnswer, console
  <2>3. Replied(t)' => Replied(t) BY <2>1, <2>2 DEF Replied
  <2> QED BY <1>1, <2>2, <2>3, HeldRest
<1>3. CASE ~IgnoreAnswer
  <2>1. AllQuiet BY <1>1, <1>3, LinkSettles DEF StatusCallback
  <2>2. Quiet(t, nextValue'[t], sub[t], last[t], answers')
    BY <2>1, TopicsAre DEF AllQuiet, Phase
  <2> QED BY <1>1, <2>2, HeldQuiet
<1> QED BY <1>2, <1>3

LEMMA HeldEnqueue ==
  ASSUME LinkInv, NEW t \in FileTopics, Alone(t), Held(t), NEW cmd \in Commands, Enqueue(cmd)
  PROVE  Held(t)'
<1>1. UNCHANGED <<nextValue, serving, last, buffer, mcu, unsent, prompt, answers>>
  BY DEF Enqueue, robot, serial
<1>2. CASE current = None
  <2>1. Active(t) = FALSE BY <1>2 DEF LinkInv, TypeInv, ConsoleOK, Active
  <2>2. Quiet(t, nextValue'[t], sub[t], last[t], answers')
    BY <1>1, <2>1, TopicsAre DEF LinkInv, PhaseOK, Phase
  <2> QED BY <1>1, <2>2, HeldQuiet
<1>3. CASE current # None
  <2>1. issued' = issued BY <1>3 DEF Enqueue
  <2>2. Replied(t)' => Replied(t) BY <1>1 DEF Replied
  <2> QED BY <1>1, <2>1, <2>2, HeldRest
<1> QED BY <1>2, <1>3

LEMMA HeldTakeFile ==
  ASSUME LinkInv, NEW t \in FileTopics, Held(t), NEW f \in FileTopics, TakeFile(f)
  PROVE  Held(t)'
<1>1. /\ serving = None /\ serving' = f
      /\ UNCHANGED <<nextValue, issued, mcu, unsent, prompt, answers>>
  BY DEF TakeFile, console, serial
<1>2. None \notin FileTopics BY LinkAssumption DEF LinkAssumption, Topics
<1>3. Replied(t)' <=> Replied(t) BY <1>1 DEF Replied
<1>4. CASE t = f
  <2>1. buffer'[t] = issued[t] BY <1>4 DEF TakeFile, LinkInv, TypeInv, RobotOK
  <2> QED BY <1>1, <1>3, <1>4, <2>1 DEF Held, Through
<1>5. CASE t # f
  <2>1. last'[t] = last[t] /\ buffer'[t] = buffer[t]
    BY <1>5 DEF TakeFile, LinkInv, TypeInv, RobotOK, Topics
  <2> QED BY <1>1, <1>2, <1>3, <1>5, <2>1, HeldRest
<1> QED BY <1>4, <1>5

LEMMA HeldTakeFileEmpty ==
  ASSUME LinkInv, NEW t \in FileTopics, Held(t), NEW f \in FileTopics, TakeFileEmpty(f)
  PROVE  Held(t)'
<1>1. /\ serving = None /\ serving' = None
      /\ UNCHANGED <<nextValue, issued, buffer, mcu, prompt, answers>>
  BY DEF TakeFileEmpty, console, serial
<1>2. None \notin FileTopics BY LinkAssumption DEF LinkAssumption, Topics
<1>3. Replied(t)' <=> Replied(t) BY <1>1 DEF Replied
<1>4. CASE t = f
  <2>1. unsent'[t] = issued[t] BY <1>4 DEF TakeFileEmpty, LinkInv, TypeInv, HistoryOK
  <2> QED BY <1>1, <1>2, <2>1 DEF Held
<1>5. CASE t # f
  <2>1. last'[t] = last[t] /\ unsent'[t] = unsent[t]
    BY <1>5 DEF TakeFileEmpty, LinkInv, TypeInv, RobotOK, HistoryOK, Topics
  <2> QED BY <1>1, <1>3, <2>1, HeldRest
<1> QED BY <1>4, <1>5

LEMMA HeldTakeFileAgain ==
  ASSUME LinkInv, TypeInv', NEW t \in FileTopics, Held(t), NEW f \in FileTopics, TakeFileAgain(f)
  PROVE  Held(t)'
<1>1. /\ serving = None /\ Head(sub[f]) = last[f] /\ Arrived(f) /\ Respond(f, last[f])
      /\ UNCHANGED <<nextValue, last, serving, buffer, issued, mcu, unsent, prompt>>
  BY DEF TakeFileAgain, console, robot, serial, history
<1>2. None \notin FileTopics /\ f \in Topics BY LinkAssumption DEF LinkAssumption, Topics
<1>3. last[f] \in Pair[f] BY <1>1, <1>2, ArrivedGives DEF LinkInv, TypeInv
<1>4. Replied(t)' => Replied(t) \/ (f = t /\ last[f] = nextValue[t])
  BY <1>1, <1>2, <1>3, RespondGives, RepliedBy DEF LinkInv, TypeInv
<1> QED BY <1>1, <1>2, <1>4 DEF Held, Through

\* Another topic answers.
LEMMA HeldAnswer ==
  ASSUME LinkInv, TypeInv', NEW t \in FileTopics, Held(t), NEW w \in Topics, w # t,
         NEW v \in Pair[w], Respond(w, v), last'[t] = last[t],
         UNCHANGED <<nextValue, serving, buffer, issued, mcu, unsent, prompt>>
  PROVE  Held(t)'
<1>1. Takes(answers, [data |-> v, topic |-> w], answers')
  BY RespondGives DEF LinkInv, TypeInv
<1>2. Replied(t)' => Replied(t) BY <1>1, RepliedBy DEF LinkInv, TypeInv
<1> QED BY <1>2, HeldRest

LEMMA HeldAnswerAtOnce ==
  ASSUME LinkInv, TypeInv', NEW t \in FileTopics, Held(t), NEW w \in Topics \ FileTopics,
         AnswerAtOnce(w)
  PROVE  Held(t)'
<1>1. w # t OBVIOUS
<1>2. /\ Arrived(w) /\ last' = [last EXCEPT ![w] = Head(sub[w])] /\ Respond(w, last'[w])
      /\ UNCHANGED <<nextValue, serving, buffer, issued, mcu, unsent, prompt>>
  BY DEF AnswerAtOnce, console, serial
<1>3. last'[t] = last[t] /\ last'[w] = Head(sub[w])
  BY <1>1, <1>2 DEF LinkInv, TypeInv, RobotOK, Topics
<1>4. last'[w] \in Pair[w] BY <1>2, <1>3, ArrivedGives DEF LinkInv, TypeInv
<1> DEFINE v == last'[w]
<1>5. v \in Pair[w] /\ Respond(w, v) BY <1>2, <1>4
<1> HIDE DEF v
<1> QED BY <1>1, <1>2, <1>3, <1>5, HeldAnswer

LEMMA HeldTakeCheckOff ==
  ASSUME LinkInv, TypeInv', NEW t \in FileTopics, Held(t), TakeCheckOff
  PROVE  Held(t)'
<1>1. CheckOff \in Topics /\ CheckOff # t BY TopicsAre
<1>2. /\ Arrived(CheckOff) /\ Respond(CheckOff, Head(sub[CheckOff]))
      /\ UNCHANGED <<nextValue, last, serving, buffer, issued, mcu, unsent, prompt>>
  BY DEF TakeCheckOff, console, robot, serial
<1>3. Head(sub[CheckOff]) \in Pair[CheckOff] BY <1>1, <1>2, ArrivedGives DEF LinkInv, TypeInv
<1> QED BY <1>1, <1>2, <1>3, HeldAnswer

\* The contents waited for are those of the latest issue, if that was answered.
LEMMA ServedIsLatest ==
  ASSUME LinkInv, NEW t \in FileTopics, Alone(t), Held(t), serving = t,
         last[t] = nextValue[t] \/ Replied(t)
  PROVE  last[t] = nextValue[t] /\ buffer[t] = issued[t]
<1>1. t \in Topics /\ t # None BY LinkAssumption DEF LinkAssumption, Topics
<1>2. last[t] # 0 BY <1>1 DEF LinkInv, TypeInv, RobotOK
<1>3. last[t] = nextValue[t] \/ last[t] = 0
  BY <1>1 DEF Replied, LinkInv, PhaseOK, Phase, Taken
<1> QED BY <1>2, <1>3 DEF Held

LEMMA HeldSendDone ==
  ASSUME LinkInv, PromptLine, TypeInv', NEW t \in FileTopics, Alone(t), Held(t),
         NEW f \in FileTopics, SendDone(f)
  PROVE  Held(t)'
<1>1. /\ serving = f /\ ~flag[f] /\ serving' = None /\ Respond(f, last[f])
      /\ UNCHANGED <<nextValue, last, buffer, issued, mcu, unsent, prompt>>
  BY DEF SendDone, console, serial, history
<1>2. None \notin FileTopics /\ f \in Topics BY LinkAssumption DEF LinkAssumption, Topics
<1>3. last[f] \in Pair[f] BY <1>1, <1>2 DEF LinkInv, TypeInv, RobotOK
<1>4. Replied(t)' => Replied(t) \/ (f = t /\ last[f] = nextValue[t])
  BY <1>1, <1>2, <1>3, RespondGives, RepliedBy DEF LinkInv, TypeInv
<1>5. prompt => mcu[f] = buffer[f] BY <1>1, <1>2 DEF PromptLine
<1>6. CASE t = f BY <1>1, <1>2, <1>4, <1>5, <1>6 DEF Held, Through
<1>7. CASE t # f BY <1>1, <1>2, <1>4, <1>7 DEF Held, Through
<1> QED BY <1>6, <1>7

LEMMA HeldSendGivenUp ==
  ASSUME LinkInv, TypeInv', NEW t \in FileTopics, Alone(t), Held(t),
         NEW f \in FileTopics, SendGivenUp(f)
  PROVE  Held(t)'
<1>1. /\ serving = f /\ serving' = None /\ Respond(f, last[f])
      /\ unsent' = [unsent EXCEPT ![f] = buffer[f]]
      /\ UNCHANGED <<nextValue, last, buffer, issued, mcu, prompt>>
  BY DEF SendGivenUp, console, serial
<1>2. None \notin FileTopics /\ f \in Topics BY LinkAssumption DEF LinkAssumption, Topics
<1>3. last[f] \in Pair[f] BY <1>1, <1>2 DEF LinkInv, TypeInv, RobotOK
<1>4. Replied(t)' => Replied(t) \/ (f = t /\ last[f] = nextValue[t])
  BY <1>1, <1>2, <1>3, RespondGives, RepliedBy DEF LinkInv, TypeInv
<1>5. unsent'[f] = buffer[f] /\ (t # f => unsent'[t] = unsent[t])
  BY <1>1 DEF LinkInv, TypeInv, HistoryOK
<1>6. CASE t = f
  <2>1. ASSUME Through(t)' PROVE issued'[t] = unsent'[t]
    <3>1. last[t] = nextValue[t] \/ Replied(t) BY <1>1, <1>4, <2>1 DEF Through
    <3>2. buffer[t] = issued[t] BY <1>1, <1>6, <3>1, ServedIsLatest
    <3> QED BY <1>1, <1>5, <1>6, <3>2
  <2> QED BY <1>1, <1>2, <2>1 DEF Held
<1>7. CASE t # f BY <1>1, <1>2, <1>4, <1>5, <1>7 DEF Held, Through
<1> QED BY <1>6, <1>7

LEMMA HeldMcuReceive ==
  ASSUME LinkInv, PromptLine, NEW t \in FileTopics, Alone(t), Held(t), McuReceive
  PROVE  Held(t)'
<1>1. UNCHANGED <<nextValue, last, serving, buffer, issued, unsent, prompt, answers>>
  BY DEF McuReceive, console, robot, history
<1>2. Replied(t)' <=> Replied(t) BY <1>1 DEF Replied
<1>3. CASE mcu'[t] = mcu[t] BY <1>1, <1>2, <1>3, HeldRest
<1>4. CASE mcu'[t] # mcu[t] /\ prompt
  <2>1. 1 \in 1..Len(toMcu) /\ Head(toMcu) = toMcu[1]
    <3> DEFINE S == [id : FileTopics, data : Nat]
    <3>1. toMcu \in Seq(S) /\ toMcu # <<>> BY DEF LinkInv, TypeInv, SerialOK, McuReceive
    <3> HIDE DEF S
    <3> QED BY <3>1
  <2>2. t = toMcu[1].id /\ mcu'[t] = toMcu[1].data
    BY <1>4, <2>1 DEF McuReceive, LinkInv, TypeInv, SerialOK
  <2>3. serving = t /\ mcu'[t] = buffer[t] BY <1>4, <2>1, <2>2 DEF PromptLine
  <2>4. ASSUME Through(t)' PROVE mcu'[t] = issued[t]
    <3>1. Replied(t) BY <1>1, <1>2, <2>3, <2>4 DEF Through
    <3> QED BY <2>3, <3>1, ServedIsLatest
  <2> QED BY <1>1, <1>2, <2>4 DEF Held
<1>5. CASE ~prompt BY <1>1, <1>5 DEF Held
<1> QED BY <1>3, <1>4, <1>5

LEMMA HeldRobotRestart ==
  ASSUME LinkInv, NEW t \in FileTopics, Held(t), RobotRestart
  PROVE  Held(t)'
<1>0. t \in Topics /\ t # None /\ t \notin ElsewhereTopics
  BY LinkAssumption, ElsewhereIs DEF LinkAssumption, Topics
<1>1. /\ serving' = None /\ last'[t] = 0
      /\ UNCHANGED <<nextValue, issued, mcu, unsent, prompt>>
  BY <1>0 DEF RobotRestart, console, serial
<1>3. nextValue[t] # 0
  <2>1. nextValue[t] \in Pair[t] BY <1>0 DEF LinkInv, TypeInv, ConsoleOK
  <2> QED BY <1>0, <2>1, PairPositive
<1>4. \A i \in 1..Len(answers') : i \in 1..Len(answers) /\ answers'[i] = answers[i]
  <2> DEFINE S == [data : Nat, topic : Topics]
  <2>1. answers \in Seq(S) /\ Len(answers) \in Nat BY DEF LinkInv, TypeInv, AnswersOK
  <2>2. PICK n \in 0..Len(answers) : answers' = SubSeq(answers, 1, n) BY DEF RobotRestart
  <2>3. 1 \in 1..(Len(answers) + 1) BY <2>1
  <2> HIDE DEF S
  <2>4. /\ Len(answers') = (IF 1 <= n THEN n - 1 + 1 ELSE 0)
        /\ \A i \in 1..Len(answers') : answers'[i] = answers[1 + i - 1]
    BY <2>1, <2>2, <2>3, SubSeqGives
  <2> QED BY <2>1, <2>4
<1>5. Replied(t)' => Replied(t) BY <1>1, <1>4 DEF Replied
<1> QED BY <1>0, <1>1, <1>3, <1>5 DEF Held, Through

LEMMA DeliverInit == Init => DeliverInv
<1> SUFFICES ASSUME Init PROVE DeliverInv
  OBVIOUS
<1>1. Len(toMcu) = 0 /\ Len(fromMcu) = 0 /\ Len(answers) = 0 /\ serving = None BY DEF Init
<1>2. PromptLine BY <1>1 DEF PromptLine
<1>3. ASSUME NEW t \in FileTopics PROVE Held(t)
  <2>1. t # None BY LinkAssumption DEF LinkAssumption, Topics
  <2>2. mcu[t] = 0 /\ issued[t] = 0 BY DEF Init, Topics
  <2> QED BY <1>1, <2>1, <2>2 DEF Held
<1> QED BY <1>2, <1>3, LinkInit DEF DeliverInv

\* A topic that is alone was so before every step.
LEMMA AloneStep ==
  ASSUME TypeInv, [Next]_vars, NEW t \in Topics, Alone(t)'
  PROVE  Alone(t)
<1> SUFFICES \A u \in Topics : issued'[u] = 0 => issued[u] = 0
  BY AloneBefore
<1>1. ASSUME NEW values, Halts \/ Starts(values)
      PROVE  \A u \in Topics : issued'[u] = 0 => issued[u] = 0
  BY <1>1 DEF Halts, Starts, Send, TypeInv, HistoryOK
<1>2. ASSUME NEW cmd \in Commands, Enqueue(cmd)
      PROVE  \A u \in Topics : issued'[u] = 0 => issued[u] = 0
  <2>1. Append(queue, cmd) \in Seq(Commands) /\ check \in Shown
    BY AppendGives DEF TypeInv, ConsoleOK, Shown
  <2>2. CASE current = None BY <1>1, <1>2, <2>1, <2>2, ProcessNextGives DEF Enqueue
  <2>3. CASE current # None BY <1>2, <2>3 DEF Enqueue
  <2> QED BY <2>2, <2>3
<1>3. CASE StatusCallback
  <2>1. CASE IgnoreAnswer BY <2>1 DEF IgnoreAnswer
  <2>2. CASE SecondLidar BY <2>2 DEF SecondLidar, Send, TypeInv, HistoryOK
  <2>3. CASE Complete
    <3>1. ShownAtAnswer(current) \in Shown BY DEF ShownAtAnswer, Shown, TypeInv, ConsoleOK
    <3> QED BY <1>1, <2>3, <3>1, ProcessNextGives DEF Complete, TypeInv, ConsoleOK
  <2> QED BY <1>3, <2>1, <2>2, <2>3 DEF StatusCallback
<1>4. ASSUME NEW m \in Modes, SetMode(m) PROVE issued' = issued BY <1>4 DEF SetMode, history
<1> QED BY <1>2, <1>3, <1>4, Elsewhere

LEMMA DeliverStep == DeliverInv /\ [Next]_vars => DeliverInv'
<1> SUFFICES ASSUME DeliverInv, [Next]_vars PROVE DeliverInv'
  OBVIOUS
<1> USE DEF DeliverInv
<1>1. LinkInv' /\ PromptLine' /\ TypeInv' BY LinkStep, PromptStep DEF LinkInv
<1>2. ASSUME NEW t \in FileTopics, Alone(t)' PROVE Held(t)'
  <2>0. Alone(t) /\ Held(t) BY <1>2, AloneStep, TopicsAre DEF LinkInv
  <2>1. ASSUME UNCHANGED <<nextValue, last, serving, buffer, issued, mcu, unsent, prompt, answers>>
        PROVE  Held(t)'
    <3>1. Replied(t)' <=> Replied(t) BY <2>1 DEF Replied
    <3> QED BY <2>0, <2>1, <3>1, HeldRest
  <2>2. ASSUME NEW m \in Modes, SetMode(m) PROVE Held(t)'
    BY <2>1, <2>2 DEF SetMode, robot, serial, history
  <2>3. CASE Publish BY <2>1, <2>3 DEF Publish, console, robot, serial, history
  <2>4. ASSUME NEW f \in FileTopics, SendFrame(f) PROVE Held(t)'
    BY <2>1, <2>4 DEF SendFrame, console, robot, history
  <2>5. CASE TakeRestart \/ AnswerElsewhere
    <3>1. "restart_lidar" \in Topics \ FileTopics BY TopicsAre DEF FileTopics
    <3>2. ElsewhereTopics \subseteq Topics \ FileTopics BY ElsewhereIs
    <3> QED BY <1>1, <2>0, <2>5, <3>1, <3>2, HeldAnswerAtOnce DEF TakeRestart, AnswerElsewhere
  <2>6. CASE ReceiveAck BY <2>1, <2>6 DEF ReceiveAck, console, history
  <2>7. CASE FrameLost BY <2>1, <2>7 DEF FrameLost, console, robot, history
  <2>8. ASSUME NEW u \in Topics, MessageLost(u) PROVE Held(t)'
    BY <2>1, <2>8 DEF MessageLost, console, robot, serial, history
  <2>9. CASE Shutdown BY <2>1, <2>9 DEF Shutdown, console, serial, history
  <2>10. CASE UNCHANGED vars BY <2>1, <2>10 DEF vars, console, robot, serial, history
  <2> QED BY <1>1, <2>0, <2>2, <2>3, <2>4, <2>5, <2>6, <2>7, <2>8, <2>9, <2>10, HeldEnqueue,
             HeldStatusCallback, HeldTakeFile, HeldTakeFileEmpty, HeldTakeFileAgain,
             HeldTakeCheckOff, HeldSendDone, HeldSendGivenUp, HeldMcuReceive, HeldRobotRestart
          DEF Next, Callback
<1> QED BY <1>1, <1>2

(* With a prompt MCU: when a path or a parameter set, alone with its values,  *)
(* is answered, the MCU holds that very one, or nothing was sent because the *)
(* file was empty or the robot was told to end.                              *)
THEOREM DeliveredWhenAnsweredHolds == Spec => DeliveredWhenAnswered
<1>1. DeliverInv /\ [Next]_vars
        => [prompt /\ Settled /\ sending.pub \in FileTopics /\ Alone(sending.pub) =>
              issue \in {mcu[sending.pub], unsent[sending.pub]}]_vars
  <2> SUFFICES ASSUME DeliverInv, [Next]_vars, prompt, Settled, sending.pub \in FileTopics,
                      Alone(sending.pub)
               PROVE  issue \in {mcu[sending.pub], unsent[sending.pub]}
    OBVIOUS
  <2> DEFINE t == sending.pub
  <2>1. LinkInv /\ answers # <<>> /\ Matches(Head(answers))
    BY SettledGives DEF DeliverInv, LinkInv
  <2>2. t \in Topics /\ Active(t) = TRUE /\ Answers(t, nextValue[t], answers[1])
    BY <2>1, AnswerIsItsOwn
  <2>3. 1 \in 1..Len(answers) BY <2>1, AnswerTyped DEF LinkInv, TypeInv
  <2> HIDE DEF t
  <2>4. Through(t) BY <2>2, <2>3 DEF Through, Replied
  <2>5. issued[t] \in {mcu[t], unsent[t]} BY <2>2, <2>4 DEF DeliverInv, Held, t
  <2>6. issued[t] = issue BY <2>1, <2>2 DEF LinkInv, PhaseOK, t
  <2> QED BY <2>5, <2>6 DEF t
<1> QED BY DeliverInit, DeliverStep, <1>1, PTL DEF Spec, DeliveredWhenAnswered
=============================================================================
