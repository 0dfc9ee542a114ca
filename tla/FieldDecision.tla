---------------------------- MODULE FieldDecision ----------------------------
(***************************************************************************)
(* Ten::supper2 (super2.h): which of the cells of the field hold a block,  *)
(* and of which class.  set_roi12_place decides from the presence network  *)
(* where blocks stand, and repeats once when it is unsure; set_cls takes   *)
(* the class network's opinion; set_post_cls reconciles the two under the  *)
(* counts the rules of the game fix.  The networks are the environment.    *)
(*                                                                         *)
(* Probabilities and losses are in hundredths; the rounding of floats at a *)
(* threshold is left out.  Classes 1 to 3 are blocks, 4 is the empty cell, *)
(* 0 is no class.                                                          *)
(***************************************************************************)
EXTENDS Integers, FiniteSetsExt

CONSTANTS Cells,       \* a set 1..n: 12 cells in the code
          BoxNum,      \* _box_num_: blocks set_place insists on
          Limit,       \* _limit_count_1_ .. _limit_count_4_
          CountInfer,  \* is_count_infer
          Detections,  \* bound: answers of the presence network, for all cells
          Confs,       \* bound: confidences of the class network
          Kinds        \* bound: classes the class network answers

Classes == 1..4

ASSUME FieldAssumption ==
  /\ Cells \subseteq Nat /\ IsFiniteSet(Cells)
  /\ BoxNum \in Nat \ {0} /\ Limit \in [Classes -> Nat] /\ CountInfer \in BOOLEAN
  /\ Detections \subseteq [Cells -> 0..100] /\ Confs \subseteq 0..100 /\ Kinds \subseteq Classes

VARIABLES pc,        \* "see", "place", "classify", "first", "fill", "done"
          run,       \* _TREADPOOL_FLAG_
          tries,     \* detections made
          det,       \* valid_exist_ of every cell, of the last detection
          place,     \* cells whose place is 1
          cls, conf, \* classifier_, confidence_
          at,        \* cells the first pass of set_post_cls has yet to visit
          result,    \* final_result
          now,       \* now_count
          tried,     \* cells whose is_process is 0
          inferred   \* history: cells labelled from the counts alone

seen == <<tries, det, place>>
opinion == <<cls, conf>>
labels == <<result, now, tried, inferred>>
vars == <<pc, run, seen, opinion, at, labels>>

Labels == INSTANCE Labelling WITH label <- result

Init ==
  /\ pc = "see" /\ run = TRUE /\ tries = 0
  /\ det = [i \in Cells |-> 0] /\ place = {}
  /\ cls = [i \in Cells |-> 0] /\ conf = [i \in Cells |-> 0]
  /\ at = {} /\ tried = {} /\ inferred = {}
  /\ result = [i \in Cells |-> 0] /\ now = [c \in Classes |-> 0]

\* Mutant: the search keeps its first cell, whatever comes after it.
BestFirst(S, value) == {i \in S : \A j \in S : i <= j}

\* The first cell of S with the largest value, as the code's loops with > find
\* it; none if S is empty.
Best(S, value) ==
  {i \in S : \A j \in S : value[j] <= value[i] /\ (value[j] = value[i] => i <= j)}
-----------------------------------------------------------------------------
(* set_roi12_place.                                                        *)

\* per_los: how far the network is from being certain.
Doubt(i) == IF det[i] > 50 THEN 2 * (100 - det[i]) ELSE 2 * det[i]

\* A detection: the cells certain to hold a block are placed at once.
See ==
  /\ pc = "see"
  /\ det' \in Detections
  /\ place' = {i \in Cells : det'[i] > 80}
  /\ tries' = tries + 1 /\ pc' = "place"
  /\ UNCHANGED <<run, opinion, at, labels>>

Unplaced == {i \in Cells \ place : det[i] > 0}
Enough == Cardinality(place) >= BoxNum

\* While too few are placed, the likeliest of the others is.
Promote ==
  /\ pc = "place" /\ run /\ ~Enough /\ Unplaced # {}
  /\ place' = place \union Best(Unplaced, det)
  /\ UNCHANGED <<pc, run, tries, det, opinion, at, labels>>

\* The loop ends; the first detection is thrown away if the mean doubt of
\* the placed cells exceeds 0.08.
Placed ==
  /\ pc = "place" /\ (run => Enough)
  /\ IF tries = 1 /\ MapThenSumSet(Doubt, place) > 8 * BoxNum
       THEN pc' = "see"
       ELSE pc' = "classify"
  /\ UNCHANGED <<run, seen, opinion, at, labels>>

\* per_loss, from the detection that was kept.
Loss(i) == IF i \in place THEN 100 - det[i] ELSE det[i]

\* set_cls: for each cell the network's class and how sure it is.  The branch
\* for a class outside 1..32 never runs: every entry of mapping_ lies in it.
Classify ==
  /\ pc = "classify"
  /\ cls' \in [Cells -> Kinds] /\ conf' \in [Cells -> Confs]
  /\ at' = Cells /\ pc' = "first"
  /\ UNCHANGED <<run, seen, labels>>
-----------------------------------------------------------------------------
(* set_post_cls.                                                           *)

\* Mutant: a class may be given once too often.
RoomOneMore(c) == now[c] <= Limit[c]

Room(c) == now[c] < Limit[c]

\* abs(confidence - 1) < 0.02
Sure(i) == conf[i] > 98

\* Mutant: the first pass takes any block.
FirstLabelUnsure(i) ==
  IF ~Room(cls[i]) THEN 0
  ELSE IF i \notin place THEN 4
  ELSE IF cls[i] # 4 THEN cls[i] ELSE 0

\* The first pass takes an all but certain block, and an empty cell, where
\* the class the network named has room.
FirstLabel(i) ==
  IF ~Room(cls[i]) THEN 0
  ELSE IF i \notin place THEN 4
  ELSE IF cls[i] # 4 /\ Sure(i) THEN cls[i] ELSE 0

\* Mutant: the class of the empty cell is stored as 5.
GiveFive(i, c) ==
  /\ result' = [result EXCEPT ![i] = IF c = 4 THEN 5 ELSE c]
  /\ now' = [now EXCEPT ![c] = @ + 1]

Give(i, c) ==
  /\ result' = [result EXCEPT ![i] = c]
  /\ now' = [now EXCEPT ![c] = @ + 1]

FirstPass(i) ==
  /\ pc = "first" /\ i \in at /\ \A j \in at : i <= j
  /\ at' = at \ {i}
  /\ IF FirstLabel(i) = 0 THEN UNCHANGED <<result, now>> ELSE Give(i, FirstLabel(i))
  /\ UNCHANGED <<pc, run, seen, opinion, tried, inferred>>

FirstPassEnd ==
  /\ pc = "first" /\ at = {} /\ pc' = "fill"
  /\ UNCHANGED <<run, seen, opinion, at, labels>>

\* The cells a turn of the loop chooses from: those not tried yet, else all.
Unlabelled == {i \in Cells : result[i] = 0}
Eligible(S) == {i \in S : conf[i] > 0}
Open == IF Eligible(Unlabelled \ tried) # {} THEN Eligible(Unlabelled \ tried)
                                             ELSE Eligible(Unlabelled \cap tried)
\* isnt_filled_count: raised each time the search for the maximum advances.
IsntFilledCount == Cardinality({i \in Open : \A j \in Open : j < i => conf[j] < conf[i]})

\* The networks agree, or the presence network is surer that the cell is empty.
Agreed(i) ==
  IF i \in place
    THEN IF cls[i] # 4 /\ Room(cls[i]) THEN cls[i] ELSE 0
    ELSE IF Room(4) /\ (cls[i] = 4 \/ 100 - conf[i] > Loss(i)) THEN 4 ELSE 0

\* Classes with room for one more.
LastOf == {c \in Classes : Limit[c] - now[c] = 1}

Turn(i) == pc = "fill" /\ run /\ now # Limit /\ i \in Best(Open, conf)

Fill(i) ==
  /\ Turn(i) /\ Agreed(i) # 0
  /\ Give(i, Agreed(i))
  /\ UNCHANGED <<pc, run, seen, opinion, at, tried, inferred>>

CanInfer == CountInfer /\ IsntFilledCount = 1 /\ LastOf # {}

\* Every class with room for one more counts the cell; the last one names it.
Infer(i) ==
  /\ Turn(i) /\ Agreed(i) = 0 /\ CanInfer
  /\ result' = [result EXCEPT ![i] = Max(LastOf)]
  /\ now' = [c \in Classes |-> IF c \in LastOf THEN now[c] + 1 ELSE now[c]]
  /\ inferred' = inferred \union {i}
  /\ tried' = tried \union {i}
  /\ UNCHANGED <<pc, run, seen, opinion, at>>

\* Mutants: the first cell that cannot be decided ends the loop; no cell does.
PutOffNever(i) ==
  /\ Turn(i) /\ Agreed(i) = 0 /\ ~CanInfer
  /\ pc' = "done"
  /\ UNCHANGED <<run, seen, opinion, at, labels>>

PutOffAlways(i) ==
  /\ Turn(i) /\ Agreed(i) = 0 /\ ~CanInfer
  /\ tried' = tried \union {i}
  /\ UNCHANGED <<pc, run, seen, opinion, at, result, now, inferred>>

\* Neither: the cell is put off once, and ends the loop the second time.
PutOff(i) ==
  /\ Turn(i) /\ Agreed(i) = 0 /\ ~CanInfer
  /\ IF i \in tried
       THEN pc' = "done" /\ UNCHANGED tried
       ELSE pc' = pc /\ tried' = tried \union {i}
  /\ UNCHANGED <<run, seen, opinion, at, result, now, inferred>>

FillEnd ==
  /\ pc = "fill" /\ (~run \/ now = Limit \/ Open = {})
  /\ pc' = "done"
  /\ UNCHANGED <<run, seen, opinion, at, labels>>
-----------------------------------------------------------------------------
Decide ==
  \/ See \/ Promote \/ Placed \/ Classify
  \/ FirstPassEnd \/ FillEnd
  \/ \E i \in Cells : FirstPass(i) \/ Fill(i) \/ Infer(i) \/ PutOff(i)

\* Another thread ends the program; only the two loops look at the flag.
Shutdown ==
  /\ pc \in {"place", "fill"} /\ run /\ run' = FALSE
  /\ UNCHANGED <<pc, seen, opinion, at, labels>>

Next == Decide \/ Shutdown

Spec == Init /\ [][Next]_vars

\* One thread runs all of it and never waits.
FairSpec == Spec /\ WF_vars(Decide)
-----------------------------------------------------------------------------
(* Properties.                                                             *)

TypeOK ==
  /\ pc \in {"see", "place", "classify", "first", "fill", "done"}
  /\ run \in BOOLEAN /\ tries \in 0..2
  /\ det \in [Cells -> 0..100] /\ place \subseteq Cells
  /\ cls \in [Cells -> 0..4] /\ conf \in [Cells -> 0..100]
  /\ pc \in {"first", "fill", "done"} => cls \in [Cells -> Classes]
  /\ at \subseteq Cells /\ tried \subseteq Cells /\ inferred \subseteq Cells
  /\ result \in [Cells -> 0..4] /\ now \in [Classes -> Nat]

\* Over both passes, the inference and a shutdown at any moment, a cell gets
\* its class once and no class of block is given beyond its limit, although
\* the counts the code keeps drift from what it has given.
KeepsLabelling == Labels!Spec

\* However the loop is interrupted or the detection repeated, the blocks are
\* where the last detection saw them best, and there are enough of them.
PlacesTheBest ==
  pc = "classify" =>
    /\ \A i \in place, j \in Cells \ place : det[i] >= det[j]
    /\ run => Enough

\* The order in which set_post_cls comes to the placed cells: the all but
\* certain ones as they lie on the field, whatever their confidences, and the
\* others by falling confidence.
Before(i, j) ==
  \/ Sure(i) /\ (Sure(j) => i < j)
  \/ ~Sure(i) /\ ~Sure(j) /\ conf[i] > conf[j]

\* Of two placed cells the network names alike, the one that comes first in
\* that order is the first to get the class, although cells are put off and
\* chosen again, and labels inferred, in between.
ServedInOrder ==
  \A i, j \in place \ inferred :
    result[j] \in 1..3 /\ cls[i] = result[j] /\ Before(i, j) => result[i] # 0

Labelled(c) == {i \in Cells : result[i] = c}

\* A cell on which the networks agree is left without its class only if as
\* many cells have that class as the rules allow; once a label was inferred
\* from the counts, which then run ahead of the labels, one less is enough.
LeftOutOnlyWhenTaken ==
  pc = "done" /\ run =>
    \A i \in Eligible(Unlabelled) :
      (cls[i] = 4 <=> i \notin place) =>
        Cardinality(Labelled(cls[i])) + (IF inferred = {} THEN 0 ELSE 1) >= Limit[cls[i]]

\* The decision ends, shutdown or not, whatever the networks answer and
\* however often cells are put off; unless set_place has run out of cells that
\* could hold a block, when it spins until the shutdown.
DecisionEnds == <>(pc = "done" \/ (pc = "place" /\ run /\ ~Enough /\ Unplaced = {}))
==============================================================================
