------------------------ MODULE SerialDispatch_proof ------------------------
(***************************************************************************)
(* Proofs about SerialDispatch, for any number of tasks, threads and       *)
(* places in the pool.                                                     *)
(***************************************************************************)
EXTENDS SerialDispatch, FiniteSetTheorems, TLAPS

CopyType == [service : Services, at : {"none", "watch", "report", "send"}, gone : BOOLEAN]
ReceiverType == [at : {"idle", "enqueue", "acknowledge", "gone"}, service : Services]

LEMMA TypeInit == Init => TypeOK
<1> SUFFICES ASSUME Init PROVE TypeOK
  OBVIOUS
<1>1. fate \in [Copies -> Pool!Fates] BY DEF Init, Pool!Init, Pool!Fates
<1>2. copy \in [Copies -> CopyType] BY DEF Init, CopyType, Services
<1>3. receiver \in ReceiverType BY DEF Init, ReceiverType, Services
<1>4. flag \in [Services -> BOOLEAN] /\ request \in [Services -> BOOLEAN] BY DEF Init
<1>5. run \in BOOLEAN /\ patient \in BOOLEAN BY DEF Init
<1> QED BY <1>1, <1>2, <1>3, <1>4, <1>5 DEF TypeOK, CopyType, ReceiverType

\* Setting one field of one copy touches nothing else.
LEMMA Set1 ==
  ASSUME NEW f \in [Copies -> CopyType], NEW c \in Copies,
         NEW where \in {"none", "watch", "report", "send"},
         NEW g, g = [f EXCEPT ![c].at = where]
  PROVE  /\ g \in [Copies -> CopyType]
         /\ \A d \in Copies : g[d].service = f[d].service /\ g[d].gone = f[d].gone
         /\ \A d \in Copies : d # c => g[d] = f[d]
         /\ g[c].at = where
BY DEF CopyType

LEMMA Set2 ==
  ASSUME NEW f \in [Copies -> CopyType], NEW c \in Copies, NEW b \in BOOLEAN
  PROVE  LET g == [f EXCEPT ![c].gone = b] IN
         /\ g \in [Copies -> CopyType]
         /\ \A d \in Copies : g[d].service = f[d].service /\ g[d].at = f[d].at
         /\ \A d \in Copies : d # c => g[d] = f[d]
BY DEF CopyType

LEMMA Set3 ==
  ASSUME NEW f \in [Copies -> CopyType], NEW c \in Copies, NEW s \in Services
  PROVE  LET g == [f EXCEPT ![c].service = s] IN
         /\ g \in [Copies -> CopyType]
         /\ \A d \in Copies : g[d].at = f[d].at /\ g[d].gone = f[d].gone
         /\ \A d \in Copies : d # c => g[d] = f[d]
         /\ g[c].service = s
BY DEF CopyType

LEMMA MoveFate ==
  ASSUME NEW f \in [Copies -> Pool!Fates], NEW c \in Copies, NEW to \in Pool!Fates
  PROVE  LET g == [f EXCEPT ![c] = to] IN
         /\ g \in [Copies -> Pool!Fates] /\ g[c] = to
         /\ \A d \in Copies : d # c => g[d] = f[d]
OBVIOUS
-----------------------------------------------------------------------------
(* What a step of a task changes.                                          *)

Alone(c) ==
  /\ copy' \in [Copies -> CopyType] /\ fate' \in [Copies -> Pool!Fates]
  /\ \A d \in Copies : copy'[d].service = copy[d].service
  /\ \A d \in Copies : d # c => copy'[d] = copy[d] /\ fate'[d] = fate[d]
  /\ UNCHANGED <<run, flag, request, receiver, patient>>

Goes1(c, from, to) ==
  copy[c].at = from /\ copy'[c].at = to /\ copy'[c].gone = copy[c].gone

Begins(c) ==
  /\ fate[c] = "accepted" /\ fate'[c] = "running"
  /\ copy'[c].gone = copy[c].gone
  /\ copy'[c].at = IF copy[c].service = "kfs" THEN "watch" ELSE "report"
Watches(c) ==
  fate[c] = "running" /\ fate'[c] = "running" /\ copy[c].at = "watch" /\ copy'[c].at = "watch"
Leaves(c) ==
  /\ fate[c] = "running" /\ fate'[c] = "running"
  /\ Goes1(c, "watch", "report") /\ (copy[c].gone \/ ~Wanted(c))
Looks(c) ==
  fate[c] = "running" /\ fate'[c] = "running" /\ Goes1(c, "report", "send") /\ Wanted(c)
Ends(c) ==
  fate[c] = "running" /\ fate'[c] = "done" /\ Goes1(c, "report", "none") /\ ~Wanted(c)
Sends(c) ==
  /\ fate[c] = "running" /\ fate'[c] = "running" /\ Goes1(c, "send", "report")

LEMMA WorkDoes ==
  ASSUME TypeOK, NEW c \in Copies, Work(c)
  PROVE  Alone(c) /\ (Begins(c) \/ Watches(c) \/ Leaves(c) \/ Looks(c) \/ Ends(c) \/ Sends(c))
<1>t. copy \in [Copies -> CopyType] /\ fate \in [Copies -> Pool!Fates]
  BY DEF TypeOK, CopyType
<1>m. ASSUME NEW to \in Pool!Fates, fate' = [fate EXCEPT ![c] = to]
      PROVE  /\ fate' \in [Copies -> Pool!Fates] /\ fate'[c] = to
             /\ \A d \in Copies : d # c => fate'[d] = fate[d]
  BY <1>t, <1>m, MoveFate
<1>g. ASSUME NEW to \in {"none", "watch", "report", "send"}, Goes(c, to)
      PROVE  /\ copy' \in [Copies -> CopyType]
             /\ \A d \in Copies : copy'[d].service = copy[d].service /\ copy'[d].gone = copy[d].gone
             /\ \A d \in Copies : d # c => copy'[d] = copy[d]
             /\ copy'[c].at = to
  <2>1. copy' = [copy EXCEPT ![c].at = to] BY <1>g DEF Goes
  <2> QED BY <1>t, <2>1, Set1
<1>1. CASE Begin(c)
  <2>1. fate[c] = "accepted" /\ fate' = [fate EXCEPT ![c] = "running"]
    BY <1>1 DEF Begin, Pool!Start, Pool!Move
  <2>2. Goes(c, IF copy[c].service = "kfs" THEN "watch" ELSE "report") BY <1>1 DEF Begin
  <2>3. "running" \in Pool!Fates BY DEF Pool!Fates
  <2> QED BY <1>1, <2>1, <2>2, <2>3, <1>m, <1>g DEF Begin, Alone, Begins
<1>2. CASE Watch(c) /\ Wanted(c) /\ ~copy[c].gone
  <2>1. PICK g \in BOOLEAN : copy' = [copy EXCEPT ![c].gone = g] BY <1>2 DEF Watch
  <2>2. /\ copy' \in [Copies -> CopyType]
        /\ \A d \in Copies : copy'[d].service = copy[d].service /\ copy'[d].at = copy[d].at
        /\ \A d \in Copies : d # c => copy'[d] = copy[d]
    BY <1>t, <2>1, Set2
  <2> QED BY <1>2, <1>t, <2>2 DEF Watch, Alone, Watches
<1>3. CASE Watch(c) /\ ~(Wanted(c) /\ ~copy[c].gone)
  <2>1. Goes(c, "report") BY <1>3 DEF Watch
  <2> QED BY <1>3, <1>t, <2>1, <1>g DEF Watch, Alone, Leaves, Goes1
<1>4. CASE Look(c) /\ Wanted(c)
  <2>1. Goes(c, "send") BY <1>4 DEF Look
  <2> QED BY <1>4, <1>t, <2>1, <1>g DEF Look, Alone, Looks, Goes1
<1>5. CASE Look(c) /\ ~Wanted(c)
  <2>1. Goes(c, "none") BY <1>5 DEF Look
  <2>2. fate' = [fate EXCEPT ![c] = "done"] BY <1>5 DEF Look, Pool!Finish, Pool!Move
  <2>3. "done" \in Pool!Fates BY DEF Pool!Fates
  <2> QED BY <1>5, <2>1, <2>2, <2>3, <1>g, <1>m DEF Look, Alone, Ends, Goes1
<1>6. CASE Send(c)
  <2>1. Goes(c, "report") BY <1>6 DEF Send
  <2> QED BY <1>6, <1>t, <2>1, <1>g DEF Send, Alone, Sends, Goes1
<1> QED BY <1>1, <1>2, <1>3, <1>4, <1>5, <1>6 DEF Work

LEMMA EnqueueDoes ==
  ASSUME TypeOK, Enqueue
  PROVE  \E c \in Copies :
           /\ fate[c] = "fresh"
           /\ \/ fate'[c] = "accepted" /\ Pool!Accept(c)
              \/ fate'[c] = "dropped" /\ Pool!Drop(c)
           /\ fate' \in [Copies -> Pool!Fates] /\ \A d \in Copies : d # c => fate'[d] = fate[d]
           /\ copy' \in [Copies -> CopyType] /\ \A d \in Copies : d # c => copy'[d] = copy[d]
           /\ copy'[c].service = receiver.service /\ copy'[c].at = copy[c].at
<1>t. /\ copy \in [Copies -> CopyType] /\ fate \in [Copies -> Pool!Fates]
      /\ receiver.service \in Services
  BY DEF TypeOK, CopyType
<1>1. PICK c \in Copies : /\ Pool!Accept(c) \/ Pool!Drop(c)
                          /\ copy' = [copy EXCEPT ![c].service = receiver.service]
  BY DEF Enqueue
<1>2. PICK to \in {"accepted", "dropped"} :
        /\ fate[c] = "fresh" /\ fate' = [fate EXCEPT ![c] = to]
        /\ to = "accepted" => Pool!Accept(c)
        /\ to = "dropped" => Pool!Drop(c)
  BY <1>1 DEF Pool!Accept, Pool!Drop, Pool!Move
<1>3. to \in Pool!Fates BY DEF Pool!Fates
<1>4. fate' \in [Copies -> Pool!Fates] /\ fate'[c] = to /\ \A d \in Copies : d # c => fate'[d] = fate[d]
  BY <1>t, <1>2, <1>3, MoveFate
<1>5. /\ copy' \in [Copies -> CopyType] /\ \A d \in Copies : d # c => copy'[d] = copy[d]
      /\ copy'[c].service = receiver.service /\ copy'[c].at = copy[c].at
  BY <1>t, <1>1, Set3
<1> QED BY <1>2, <1>4, <1>5

LEMMA TypeStep == TypeOK /\ [Next]_vars => TypeOK'
<1> SUFFICES ASSUME TypeOK, [Next]_vars PROVE TypeOK'
  OBVIOUS
<1>t. /\ run \in BOOLEAN /\ patient \in BOOLEAN
      /\ flag \in [Services -> BOOLEAN] /\ request \in [Services -> BOOLEAN]
      /\ receiver \in ReceiverType /\ copy \in [Copies -> CopyType]
      /\ fate \in [Copies -> Pool!Fates]
  BY DEF TypeOK, CopyType, ReceiverType
<1>a. ASSUME NEW where \in {"idle", "enqueue", "acknowledge", "gone"}, NEW s \in Services,
             At(where, s)
      PROVE  receiver' \in ReceiverType
  BY <1>a DEF At, ReceiverType
<1>r. receiver.service \in Services BY <1>t DEF ReceiverType
<1> DEFINE Typed == /\ run \in BOOLEAN /\ patient \in BOOLEAN
                    /\ flag \in [Services -> BOOLEAN] /\ request \in [Services -> BOOLEAN]
                    /\ receiver \in ReceiverType /\ copy \in [Copies -> CopyType]
                    /\ fate \in [Copies -> Pool!Fates]
<1>0. SUFFICES Typed' BY DEF TypeOK, CopyType, ReceiverType
<1>1. ASSUME NEW s \in Services, Start(s) PROVE Typed'
  <2>1. receiver' \in ReceiverType BY <1>1, <1>a DEF Start
  <2> QED BY <1>1, <1>t, <2>1 DEF Start
<1>2. ASSUME NEW s \in Services, Stop(s) PROVE Typed'
  <2>1. receiver' \in ReceiverType BY <1>2, <1>a DEF Stop
  <2> QED BY <1>2, <1>t, <2>1 DEF Stop
<1>3. CASE Enqueue
  <2>1. receiver' \in ReceiverType BY <1>3, <1>a, <1>r DEF Enqueue
  <2>2. fate' \in [Copies -> Pool!Fates] /\ copy' \in [Copies -> CopyType] BY <1>3, EnqueueDoes
  <2>3. request' \in [Services -> BOOLEAN] BY <1>3, <1>t, <1>r DEF Enqueue
  <2> QED BY <1>3, <1>t, <2>1, <2>2, <2>3 DEF Enqueue
<1>4. CASE Acknowledge
  <2>1. receiver' \in ReceiverType BY <1>4, <1>a, <1>r DEF Acknowledge
  <2> QED BY <1>4, <1>t, <2>1, <1>r DEF Acknowledge
<1>5. CASE Leave
  <2>1. receiver' \in ReceiverType BY <1>5, <1>a, <1>r DEF Leave
  <2> QED BY <1>5, <1>t, <2>1 DEF Leave
<1>6. ASSUME NEW c \in Copies, Work(c) PROVE Typed'
  <2> QED BY <1>6, <1>t, WorkDoes DEF Alone
<1>7. CASE Shutdown BY <1>7, <1>t DEF Shutdown
<1>8. CASE UNCHANGED vars BY <1>8, <1>t DEF vars
<1> QED BY <1>1, <1>2, <1>3, <1>4, <1>5, <1>6, <1>7, <1>8 DEF Next, Handle

\* The receiver, the pool and the services' tasks keep their types.
THEOREM TypeCorrect == Spec => []TypeOK
  BY TypeInit, TypeStep, PTL DEF Spec
-----------------------------------------------------------------------------
(* pool_request and the flag differ only while the receiver is between the  *)
(* two assignments.                                                        *)
Served(s) == \E c \in Copies : copy[c].service = s /\ fate[c] \in {"accepted", "running", "dropped"}

RequestInv ==
  \A s \in Services :
    /\ request[s] # flag[s] => receiver.at \in {"enqueue", "acknowledge"} /\ receiver.service = s
    /\ receiver.at = "enqueue" /\ receiver.service = s => flag[s] /\ ~request[s]
    /\ receiver.at = "acknowledge" /\ receiver.service = s => ~flag[s]
    /\ request[s] /\ flag[s] /\ run => Served(s)

LEMMA RequestStep == TypeOK /\ RequestInv /\ [Next]_vars => RequestInv'
<1> SUFFICES ASSUME TypeOK, RequestInv, [Next]_vars PROVE RequestInv'
  OBVIOUS
<1>t. /\ flag \in [Services -> BOOLEAN] /\ request \in [Services -> BOOLEAN]
      /\ receiver.service \in Services
  BY DEF TypeOK
<1>1. ASSUME NEW s \in Services, Start(s) PROVE RequestInv'
  <2>1. receiver' = [at |-> "enqueue", service |-> s] /\ receiver.at = "idle" /\ ~request[s]
        /\ flag' = [flag EXCEPT ![s] = TRUE] /\ UNCHANGED <<run, request, fate, copy>>
    BY <1>1 DEF Start, At, Receives
  <2> QED BY <1>t, <2>1 DEF RequestInv, Served
<1>2. ASSUME NEW s \in Services, Stop(s) PROVE RequestInv'
  <2>1. receiver' = [at |-> "acknowledge", service |-> s] /\ receiver.at = "idle"
        /\ flag' = [flag EXCEPT ![s] = FALSE] /\ UNCHANGED <<run, request, fate, copy>>
    BY <1>2 DEF Stop, At, Receives
  <2> QED BY <1>t, <2>1 DEF RequestInv, Served
<1>3. CASE Enqueue
  <2>1. receiver'.at = "idle" /\ receiver.at = "enqueue"
        /\ request' = [request EXCEPT ![receiver.service] = TRUE] /\ UNCHANGED <<run, flag>>
    BY <1>3 DEF Enqueue, At
  <2>2. \E c \in Copies : copy'[c].service = receiver.service /\ fate'[c] \in {"accepted", "dropped"}
    BY <1>3, EnqueueDoes
  <2>3. \A s \in Services : Served(s) => Served(s)'
    BY <1>3, EnqueueDoes DEF Served
  <2>4. \A s \in Services : request'[s] = IF s = receiver.service THEN TRUE ELSE request[s]
    BY <1>t, <2>1
  <2>5. \A s \in Services : s = receiver.service => Served(s)'
    BY <2>2 DEF Served
  <2>6. flag[receiver.service] BY <1>t, <2>1 DEF RequestInv
  <2>7. \A s \in Services : request'[s] = flag'[s] /\ (request[s] /\ flag[s] /\ run => Served(s)')
    <3>1. flag[receiver.service] = TRUE BY <1>t, <2>6
    <3>2. ASSUME NEW s \in Services, s = receiver.service PROVE request'[s] = flag'[s]
      BY <2>1, <2>4, <3>1, <3>2
    <3>3. ASSUME NEW s \in Services, s # receiver.service PROVE request'[s] = flag'[s]
      BY <2>1, <2>4, <3>3 DEF RequestInv
    <3> QED BY <3>2, <3>3, <2>3 DEF RequestInv
  <2>8. \A s \in Services : request'[s] /\ run => (request[s] /\ flag[s]) \/ s = receiver.service
    BY <1>t, <2>1, <2>4 DEF RequestInv
  <2> QED BY <2>1, <2>5, <2>7, <2>8 DEF RequestInv
<1>4. CASE Acknowledge
  <2>1. receiver'.at = "idle" /\ receiver.at = "acknowledge"
        /\ request' = [request EXCEPT ![receiver.service] = FALSE]
        /\ UNCHANGED <<run, flag, fate, copy>>
    BY <1>4 DEF Acknowledge, At
  <2>2. \A s \in Services : request'[s] = IF s = receiver.service THEN FALSE ELSE request[s]
    BY <1>t, <2>1
  <2> QED BY <1>t, <2>1, <2>2 DEF RequestInv, Served
<1>5. CASE Leave
  <2>1. receiver'.at = "gone" /\ receiver.at = "idle" /\ UNCHANGED <<run, flag, request, fate, copy>>
    BY <1>5 DEF Leave, At
  <2> QED BY <2>1 DEF RequestInv, Served
<1>6. CASE Shutdown \/ UNCHANGED vars
  BY <1>6 DEF Shutdown, vars, RequestInv, Served
<1>7. ASSUME NEW c \in Copies, Work(c) PROVE RequestInv'
  <2>1. Alone(c) BY <1>7, WorkDoes
  <2>2. UNCHANGED <<run, flag, request, receiver>> BY <2>1 DEF Alone
  <2>3. ASSUME NEW s \in Services, Served(s), flag[s], run PROVE Served(s)'
    <3>1. fate'[c] = "running" \/ (fate'[c] = "done" /\ ~Wanted(c))
      BY <1>7, WorkDoes DEF Begins, Watches, Leaves, Looks, Ends, Sends
    <3>2. PICK d \in Copies : copy[d].service = s /\ fate[d] \in {"accepted", "running", "dropped"}
      BY <2>3 DEF Served
    <3>3. CASE d # c BY <2>1, <3>2, <3>3 DEF Alone, Served
    <3>4. CASE d = c BY <2>1, <2>3, <3>1, <3>2, <3>4 DEF Alone, Served, Wanted
    <3> QED BY <3>3, <3>4
  <2> QED BY <2>2, <2>3 DEF RequestInv
<1> QED BY <1>1, <1>2, <1>3, <1>4, <1>5, <1>6, <1>7 DEF Next, Handle

\* Between two frames the receiver's pool_request says what its flags and the pool say.
THEOREM RequestIsTrueHolds == Spec => []RequestIsTrue
<1>1. Init => RequestInv BY DEF Init, RequestInv
<1>2. TypeOK /\ RequestInv => RequestIsTrue BY DEF TypeOK, RequestInv, RequestIsTrue, Served
<1> QED BY TypeInit, TypeStep, <1>1, <1>2, RequestStep, PTL DEF Spec
-----------------------------------------------------------------------------
(* With a patient MCU a copy whose first loop ended without the object gone *)
(* finds its flag lowered for good: it is still active, so no start follows.*)
ReportInv ==
  \A c \in Copies :
    /\ fate[c] # "running" => copy[c].at = "none"
    /\ patient /\ copy[c].service = "kfs" /\ copy[c].at \in {"report", "send"} =>
         copy[c].gone \/ (copy[c].at = "report" /\ ~Wanted(c))

LEMMA ReportStep == TypeOK /\ ReportInv /\ [Next]_vars => ReportInv'
<1> SUFFICES ASSUME TypeOK, ReportInv, [Next]_vars PROVE ReportInv'
  OBVIOUS
<1>t. flag \in [Services -> BOOLEAN] /\ \A c \in Copies : copy[c].service \in Services
  BY DEF TypeOK
<1>1. ASSUME NEW s \in Services, Start(s) PROVE ReportInv'
  <2>1. UNCHANGED <<run, fate, copy, patient>> /\ flag' = [flag EXCEPT ![s] = TRUE]
        /\ (patient => Active(s) = {})
    BY <1>1 DEF Start
  <2>2. ASSUME NEW c \in Copies, patient, copy[c].at \in {"report", "send"}
        PROVE  copy[c].service # s
    BY <2>1, <2>2 DEF ReportInv, Active
  <2> QED BY <1>t, <2>1, <2>2 DEF ReportInv, Wanted
<1>2. ASSUME NEW s \in Services, Stop(s) PROVE ReportInv'
  BY <1>2, <1>t DEF Stop, ReportInv, Wanted
<1>3. CASE Enqueue
  <2>1. UNCHANGED <<run, flag, patient>> BY <1>3 DEF Enqueue
  <2>2. PICK c \in Copies :
          /\ fate[c] = "fresh" /\ fate'[c] \in {"accepted", "dropped"}
          /\ \A d \in Copies : d # c => fate'[d] = fate[d] /\ copy'[d] = copy[d]
          /\ copy'[c].at = copy[c].at
    BY <1>3, EnqueueDoes
  <2>3. copy'[c].at = "none" /\ fate'[c] # "running" BY <2>2 DEF ReportInv
  <2> QED BY <2>1, <2>2, <2>3 DEF ReportInv, Wanted
<1>4. CASE Acknowledge \/ Leave \/ UNCHANGED vars
  BY <1>4 DEF Acknowledge, Leave, vars, ReportInv, Wanted
<1>5. CASE Shutdown BY <1>5 DEF Shutdown, ReportInv, Wanted
<1>6. ASSUME NEW c \in Copies, Work(c) PROVE ReportInv'
  <2>1. Alone(c) BY <1>6, WorkDoes
  <2>2. /\ UNCHANGED <<run, flag, patient>> /\ copy'[c].service = copy[c].service
        /\ \A d \in Copies : d # c => copy'[d] = copy[d] /\ fate'[d] = fate[d]
    BY <2>1 DEF Alone
  <2>3. Wanted(c)' = Wanted(c) BY <2>2 DEF Wanted
  <2> DEFINE Fine == /\ fate[c] # "running" => copy[c].at = "none"
                     /\ patient /\ copy[c].service = "kfs" /\ copy[c].at \in {"report", "send"} =>
                          copy[c].gone \/ (copy[c].at = "report" /\ ~Wanted(c))
  <2>4. Fine BY DEF ReportInv
  <2>5. ASSUME Begins(c) PROVE Fine' BY <2>2, <2>5 DEF Begins
  <2>6. ASSUME Watches(c) PROVE Fine' BY <2>2, <2>6 DEF Watches
  <2>7. ASSUME Leaves(c) PROVE Fine' BY <2>2, <2>3, <2>7 DEF Leaves, Goes1
  <2>8. ASSUME Looks(c) PROVE Fine' BY <2>2, <2>4, <2>8 DEF Looks, Goes1
  <2>9. ASSUME Ends(c) PROVE Fine' BY <2>2, <2>9 DEF Ends, Goes1
  <2>10. ASSUME Sends(c) PROVE Fine' BY <2>2, <2>4, <2>10 DEF Sends, Goes1
  <2>11. Fine' BY <1>6, <2>5, <2>6, <2>7, <2>8, <2>9, <2>10, WorkDoes
  <2>12. ASSUME NEW d \in Copies, d # c
         PROVE  /\ fate'[d] # "running" => copy'[d].at = "none"
                /\ patient' /\ copy'[d].service = "kfs" /\ copy'[d].at \in {"report", "send"} =>
                     copy'[d].gone \/ (copy'[d].at = "report" /\ ~Wanted(d)')
    BY <2>2, <2>12 DEF ReportInv, Wanted
  <2> QED BY <2>11, <2>12 DEF ReportInv
<1> QED BY <1>1, <1>2, <1>3, <1>4, <1>5, <1>6 DEF Next, Handle

\* With a patient MCU kfs_detector_controller reports an object gone only after it saw it go.
THEOREM ReportedWasSeenHolds == Spec => []ReportedWasSeen
<1>1. Init => ReportInv BY DEF Init, Pool!Init, ReportInv
<1>2. ReportInv => ReportedWasSeen BY DEF ReportInv, ReportedWasSeen
<1> QED BY TypeInit, TypeStep, <1>1, <1>2, ReportStep, PTL DEF Spec
-----------------------------------------------------------------------------
(* With a patient MCU at most one copy of a service is active, none while   *)
(* the receiver is about to enqueue it: the pool always has a place.       *)
Busy(c) == fate[c] \in {"accepted", "running"}

OneInv ==
  patient =>
    /\ \A c, d \in Copies : Busy(c) /\ Busy(d) /\ copy[c].service = copy[d].service => c = d
    /\ receiver.at = "enqueue" => \A c \in Copies : Busy(c) => copy[c].service # receiver.service
    /\ \A c \in Copies : fate[c] # "dropped"

LEMMA AtMostOne ==
  ASSUME NEW S, \A x, y \in S : x = y
  PROVE  Cardinality(S) \in Nat /\ Cardinality(S) <= 1
<1>1. CASE S = {} BY <1>1, FS_EmptySet
<1>2. CASE S # {}
  <2>1. PICK x : x \in S BY <1>2
  <2>2. S = {x} BY <2>1
  <2> QED BY <2>2, FS_Singleton
<1> QED BY <1>1, <1>2

\* The pool refuses nothing while one service at most waits in it.
LEMMA NoDrop ==
  ASSUME TypeOK, OneInv, patient, receiver.at = "enqueue", NEW c \in Copies
  PROVE  ~Pool!Drop(c)
<1>1. \A S : Pool!Cardinality(S) = Cardinality(S) BY ZenonT(30) DEF Pool!Cardinality, Cardinality
<1>2. \A x \in Copies : copy[x].service \in {"tag", "kfs"} BY DEF TypeOK, Services
<1>3. receiver.service \in {"tag", "kfs"} BY DEF TypeOK, Services
<1>4. \A x, y \in Pool!WaitingTasks : x = y BY <1>2, <1>3 DEF OneInv, Busy, Pool!WaitingTasks
<1>5. Cardinality(Pool!WaitingTasks) \in Nat /\ Cardinality(Pool!WaitingTasks) <= 1
  BY <1>4, AtMostOne
<1>6. Cardinality(Pool!WaitingTasks) # TasksMax BY <1>5, DispatchAssumption
<1> QED BY <1>1, <1>6 DEF Pool!Drop

LEMMA OneStep == TypeOK /\ OneInv /\ [Next]_vars => OneInv'
<1> SUFFICES ASSUME TypeOK, OneInv, [Next]_vars, patient' PROVE OneInv'
  BY DEF OneInv
<1>p. patient
  BY DEF Next, Handle, Start, Stop, Enqueue, Acknowledge, Leave, Work, Begin, Watch, Look, Send,
         Shutdown, vars
<1>1. ASSUME NEW s \in Services, Start(s) PROVE OneInv'
  <2>1. /\ UNCHANGED <<fate, copy>> /\ receiver'.service = s /\ Active(s) = {}
    BY <1>1, <1>p DEF Start, At
  <2>2. \A c \in Copies : Busy(c) => copy[c].service # s BY <2>1 DEF Active, Busy
  <2> QED BY <1>p, <2>1, <2>2 DEF OneInv, Busy
<1>2. ASSUME NEW s \in Services, Stop(s) PROVE OneInv'
  BY <1>2, <1>p DEF Stop, At, OneInv, Busy
<1>3. CASE Enqueue
  <2>1. receiver.at = "enqueue" /\ receiver'.at = "idle" BY <1>3 DEF Enqueue, At
  <2>2. PICK c \in Copies :
          /\ fate'[c] = "accepted"
          /\ \A d \in Copies : d # c => fate'[d] = fate[d] /\ copy'[d] = copy[d]
          /\ copy'[c].service = receiver.service
    BY <1>3, <1>p, <2>1, EnqueueDoes, NoDrop
  <2>3. \A d \in Copies : fate'[d] # "dropped" BY <1>p, <2>2 DEF OneInv
  <2>4. ASSUME NEW d \in Copies, NEW e \in Copies, Busy(d)', Busy(e)',
               copy'[d].service = copy'[e].service
        PROVE  d = e
    <3>1. CASE d # c /\ e # c BY <1>p, <2>2, <2>4, <3>1 DEF OneInv, Busy
    <3>2. CASE d = c /\ e # c BY <1>p, <2>1, <2>2, <2>4, <3>2 DEF OneInv, Busy
    <3>3. CASE d # c /\ e = c BY <1>p, <2>1, <2>2, <2>4, <3>3 DEF OneInv, Busy
    <3> QED BY <3>1, <3>2, <3>3
  <2> QED BY <2>1, <2>3, <2>4 DEF OneInv
<1>4. CASE Acknowledge \/ Leave
  BY <1>4, <1>p DEF Acknowledge, Leave, At, OneInv, Busy
<1>5. CASE Shutdown \/ UNCHANGED vars BY <1>5, <1>p DEF Shutdown, vars, OneInv, Busy
<1>6. ASSUME NEW c \in Copies, Work(c) PROVE OneInv'
  <2>1. Alone(c) BY <1>6, WorkDoes
  <2>2. receiver' = receiver /\ \A d \in Copies : copy'[d].service = copy[d].service
    BY <2>1 DEF Alone
  <2>3. Busy(c) /\ fate'[c] # "dropped"
    BY <1>6, WorkDoes DEF Begins, Watches, Leaves, Looks, Ends, Sends, Busy
  <2>4. \A d \in Copies : (Busy(d)' => Busy(d)) /\ fate'[d] # "dropped"
    BY <1>p, <2>1, <2>3 DEF Alone, Busy, OneInv
  <2> QED BY <1>p, <2>2, <2>4 DEF OneInv
<1> QED BY <1>1, <1>2, <1>3, <1>4, <1>5, <1>6 DEF Next, Handle

\* With a patient MCU no service is there twice and the receiver's pool refuses none.
THEOREM OneCopyHolds == Spec => []OneCopy
<1>1. Init => OneInv BY DEF Init, Pool!Init, OneInv, Busy
<1>2. ASSUME OneInv PROVE OneCopy
  <2> SUFFICES ASSUME patient
               PROVE  /\ \A s \in Services : Cardinality(Active(s)) <= 1
                      /\ \A c \in Copies : fate[c] # "dropped"
    BY DEF OneCopy
  <2>1. ASSUME NEW s \in Services PROVE Cardinality(Active(s)) <= 1
    <3>1. \A x, y \in Active(s) : x = y BY <1>2 DEF OneInv, Busy, Active
    <3> QED BY <3>1, AtMostOne
  <2> QED BY <1>2, <2>1 DEF OneInv
<1> QED BY TypeInit, TypeStep, <1>1, <1>2, OneStep, PTL DEF Spec
=============================================================================
