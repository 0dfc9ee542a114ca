------------------------- MODULE FieldDecision_proof -------------------------
(***************************************************************************)
(* Proofs about FieldDecision, for any field, limits and networks.         *)
(***************************************************************************)
EXTENDS FieldDecision, FiniteSetTheorems, TLAPS

\* Nothing is labelled before the class network was asked.
FreshUntilAsked ==
  pc \in {"see", "place", "classify"} => result = [i \in Cells |-> 0] /\ inferred = {}

\* The first pass has not labelled what it has yet to visit, and tries nothing.
FirstPassAhead ==
  /\ pc = "first" => \A i \in at : result[i] = 0
  /\ pc # "fill" /\ pc # "done" => tried = {}
  /\ pc = "fill" => at = {}

\* There is at most one second detection.
OneRetry == pc = "see" => tries < 2

\* Inductive invariant of the types.
TInv == TypeOK /\ OneRetry

LEMMA TypeInit == Init => TInv
  BY FieldAssumption DEF FieldAssumption, Init, TInv, TypeOK, OneRetry, Classes

LEMMA LastOfMax ==
  ASSUME NEW S \in SUBSET Classes, S # {}
  PROVE  Max(S) \in S
<1> DEFINE top == {c \in S : \A d \in S : c >= d}
<1>1. \E c \in S : \A d \in S : c >= d
  <2>1. CASE 4 \in S BY <2>1 DEF Classes
  <2>2. CASE 4 \notin S /\ 3 \in S BY <2>2 DEF Classes
  <2>3. CASE 4 \notin S /\ 3 \notin S /\ 2 \in S BY <2>3 DEF Classes
  <2>4. CASE 4 \notin S /\ 3 \notin S /\ 2 \notin S
    <3>1. \A c \in S : c = 1 BY <2>4 DEF Classes
    <3> QED BY <3>1
  <2> QED BY <2>1, <2>2, <2>3, <2>4
<1> QED BY <1>1 DEF Max

LEMMA TypeStep == TInv /\ [Next]_vars => TInv'
<1> SUFFICES ASSUME TInv, [Next]_vars PROVE TInv'
  OBVIOUS
<1> USE FieldAssumption DEF FieldAssumption, TInv, TypeOK, OneRetry
<1>1. CASE See
  BY <1>1 DEF See, opinion, labels
<1>2. CASE Promote
  BY <1>2 DEF Promote, opinion, labels, Best, Unplaced
<1>3. CASE Placed
  BY <1>3 DEF Placed, seen, opinion, labels
<1>4. CASE Classify
  <2>1. cls' \in [Cells -> Classes] /\ conf' \in [Cells -> 0..100]
    BY <1>4 DEF Classify
  <2>2. cls' \in [Cells -> 0..4] BY <2>1 DEF Classes
  <2> QED BY <1>4, <2>1, <2>2 DEF Classify, seen, labels
<1>5. CASE FirstPassEnd \/ FillEnd \/ Shutdown \/ UNCHANGED vars
  BY <1>5 DEF FirstPassEnd, FillEnd, Shutdown, vars, seen, opinion, labels
<1>6. ASSUME NEW i \in Cells, FirstPass(i) PROVE TInv'
  BY <1>6 DEF FirstPass, FirstLabel, Give, seen, opinion, Classes
<1>7. ASSUME NEW i \in Cells, Fill(i) PROVE TInv'
  BY <1>7 DEF Fill, Turn, Agreed, Give, seen, opinion, Classes
<1>8. ASSUME NEW i \in Cells, Infer(i) PROVE TInv'
  <2>1. LastOf \in SUBSET Classes /\ LastOf # {} BY <1>8 DEF Infer, CanInfer, LastOf
  <2>2. Max(LastOf) \in Classes BY <2>1, LastOfMax
  <2> QED BY <1>8, <2>2 DEF Infer, Turn, seen, opinion, Classes
<1>9. ASSUME NEW i \in Cells, PutOff(i) PROVE TInv'
  BY <1>9 DEF PutOff, Turn, seen, opinion
<1> QED BY <1>1, <1>2, <1>3, <1>4, <1>5, <1>6, <1>7, <1>8, <1>9 DEF Next, Decide

\* The variables of the decision keep their types, for any field and limits,
\* and the presence network is asked at most twice (set_roi12_place).
THEOREM TypeCorrect == Spec => []TypeOK
<1>1. TInv => TypeOK BY DEF TInv
<1> QED BY TypeInit, TypeStep, <1>1, PTL DEF Spec
-----------------------------------------------------------------------------
(* Labels and their counts.                                                *)

LEMMA LabelledFinite ==
  \A c : IsFiniteSet(Labelled(c)) /\ Cardinality(Labelled(c)) \in Nat
<1> SUFFICES ASSUME NEW c PROVE IsFiniteSet(Labelled(c)) /\ Cardinality(Labelled(c)) \in Nat
  OBVIOUS
<1>1. Labelled(c) \in SUBSET Cells BY DEF Labelled
<1>2. IsFiniteSet(Labelled(c))
  BY <1>1, FieldAssumption, FS_Subset DEF FieldAssumption
<1> QED BY <1>2, FS_CardinalityType

\* A cell without a class that gets one is one more of it, and no other class loses one.
LEMMA OneMore ==
  ASSUME TInv, NEW i \in Cells, NEW c \in Classes, result[i] = 0,
         result' = [result EXCEPT ![i] = c], NEW d \in Classes
  PROVE  Cardinality(Labelled(d)')
           = IF d = c THEN Cardinality(Labelled(d)) + 1 ELSE Cardinality(Labelled(d))
<1> USE DEF TInv, TypeOK
<1>1. CASE d = c
  <2>1. Labelled(d)' = Labelled(d) \cup {i} /\ i \notin Labelled(d)
    BY <1>1 DEF Labelled, Classes
  <2>2. Cardinality(Labelled(d) \cup {i}) = Cardinality(Labelled(d)) + 1
    BY <2>1, LabelledFinite, FS_AddElement
  <2> QED BY <1>1, <2>1, <2>2
<1>2. CASE d # c
  <2>1. Labelled(d)' = Labelled(d) BY <1>2 DEF Labelled, Classes
  <2> QED BY <1>2, <2>1
<1> QED BY <1>1, <1>2

\* What a step does to the labels: it gives a cell that has none the class of
\* the empty cell, or one that has room, and counts it; it infers a class; or it
\* leaves them alone.
Gives ==
  \E i \in Cells, c \in Classes :
    result[i] = 0 /\ (Room(c) \/ c = 4) /\ Give(i, c) /\ UNCHANGED inferred

Infers ==
  \E i \in Cells, c \in LastOf :
    /\ result[i] = 0
    /\ result' = [result EXCEPT ![i] = c]
    /\ now' = [d \in Classes |-> IF d \in LastOf THEN now[d] + 1 ELSE now[d]]
    /\ inferred' = inferred \union {i}

LEMMA ControlInit == Init => FreshUntilAsked /\ FirstPassAhead
  BY DEF Init, FreshUntilAsked, FirstPassAhead

LEMMA LabelStep ==
  ASSUME TInv, FirstPassAhead, [Next]_vars
  PROVE  Gives \/ Infers \/ UNCHANGED <<result, now, inferred>>
<1> USE DEF TInv, TypeOK
<1>1. CASE See \/ Promote \/ Placed \/ Classify \/ FirstPassEnd \/ FillEnd \/ Shutdown
  BY <1>1 DEF See, Promote, Placed, Classify, FirstPassEnd, FillEnd, Shutdown, labels
<1>2. CASE UNCHANGED vars
  BY <1>2 DEF vars, labels
<1>3. ASSUME NEW i \in Cells, FirstPass(i) PROVE Gives \/ UNCHANGED <<result, now, inferred>>
  <2>1. CASE FirstLabel(i) = 0 BY <1>3, <2>1 DEF FirstPass
  <2>2. CASE FirstLabel(i) # 0
    <3>1. result[i] = 0 /\ cls[i] \in Classes BY <1>3 DEF FirstPass, FirstPassAhead
    <3>2. FirstLabel(i) \in Classes /\ (Room(FirstLabel(i)) \/ FirstLabel(i) = 4)
      BY <2>2, <3>1 DEF FirstLabel, Classes
    <3>3. Give(i, FirstLabel(i)) /\ UNCHANGED inferred BY <1>3, <2>2 DEF FirstPass
    <3> QED BY <3>1, <3>2, <3>3 DEF Gives
  <2> QED BY <2>1, <2>2
<1>4. ASSUME NEW i \in Cells, Fill(i) PROVE Gives
  <2>1. result[i] = 0
    BY <1>4 DEF Fill, Turn, Best, Open, Eligible, Unlabelled
  <2>2. Agreed(i) \in Classes /\ Room(Agreed(i))
    BY <1>4 DEF Fill, Turn, Agreed, Classes
  <2> QED BY <1>4, <2>1, <2>2 DEF Fill, Gives
<1>5. ASSUME NEW i \in Cells, Infer(i) PROVE Infers
  <2>1. result[i] = 0
    BY <1>5 DEF Infer, Turn, Best, Open, Eligible, Unlabelled
  <2>2. Max(LastOf) \in LastOf BY <1>5, LastOfMax DEF Infer, CanInfer, LastOf
  <2> QED BY <1>5, <2>1, <2>2 DEF Infer, Infers
<1>6. ASSUME NEW i \in Cells, PutOff(i) PROVE UNCHANGED <<result, now, inferred>>
  BY <1>6 DEF PutOff
<1> QED BY <1>1, <1>2, <1>3, <1>4, <1>5, <1>6 DEF Next, Decide

LEMMA ControlStep ==
  ASSUME TInv, FreshUntilAsked, FirstPassAhead, [Next]_vars
  PROVE  FreshUntilAsked' /\ FirstPassAhead'
<1> USE DEF FreshUntilAsked, FirstPassAhead, TInv, TypeOK
<1>1. CASE See \/ Promote \/ Placed \/ FirstPassEnd \/ FillEnd \/ Shutdown
  BY <1>1 DEF See, Promote, Placed, FirstPassEnd, FillEnd, Shutdown, seen, opinion, labels
<1>2. CASE Classify \/ UNCHANGED vars
  BY <1>2 DEF Classify, vars, seen, opinion, labels
<1>3. ASSUME NEW i \in Cells, FirstPass(i) PROVE FreshUntilAsked' /\ FirstPassAhead'
  <2>1. \A j \in at' : j # i /\ j \in at BY <1>3 DEF FirstPass
  <2> QED BY <1>3, <2>1 DEF FirstPass, Give
<1>4. ASSUME NEW i \in Cells, Fill(i) \/ Infer(i) \/ PutOff(i)
      PROVE  FreshUntilAsked' /\ FirstPassAhead'
  BY <1>4 DEF Fill, Infer, PutOff, Turn, seen, opinion
<1> QED BY <1>1, <1>2, <1>3, <1>4 DEF Next, Decide

\* The count of a class is the number of cells that have it; or one more, once
\* a label has been inferred, and then it has reached the limit.
Drift ==
  \A c \in Classes :
    \/ now[c] = Cardinality(Labelled(c))
    \/ /\ inferred # {}
       /\ now[c] = Cardinality(Labelled(c)) + 1
       /\ now[c] >= Limit[c]

\* Inductive invariant of the labels.
LInv == TInv /\ FreshUntilAsked /\ FirstPassAhead /\ Drift

LEMMA LabelsInit == Init => LInv
<1> SUFFICES ASSUME Init PROVE Drift
  BY TypeInit, ControlInit DEF LInv
<1>1. \A c \in Classes : Labelled(c) = {} BY DEF Init, Labelled, Classes
<1>2. \A c \in Classes : Cardinality(Labelled(c)) = 0 BY <1>1, FS_EmptySet
<1>3. \A c \in Classes : now[c] = 0 BY DEF Init
<1> QED BY <1>2, <1>3 DEF Drift

LEMMA LabelsStep == LInv /\ [Next]_vars => LInv'
<1> SUFFICES ASSUME LInv, [Next]_vars PROVE Drift'
  BY TypeStep, ControlStep DEF LInv
<1>1. TInv /\ now \in [Classes -> Nat] /\ Limit \in [Classes -> Nat]
  BY FieldAssumption DEF FieldAssumption, LInv, TInv, TypeOK
<1>2. \A d \in Classes :
        /\ Cardinality(Labelled(d)) \in Nat
        /\ \/ now[d] = Cardinality(Labelled(d))
           \/ inferred # {} /\ now[d] = Cardinality(Labelled(d)) + 1 /\ now[d] >= Limit[d]
  BY LabelledFinite DEF LInv, Drift
<1>3. CASE Gives
  <2>1. PICK i \in Cells, c \in Classes : result[i] = 0 /\ Give(i, c) /\ UNCHANGED inferred
    BY <1>3 DEF Gives
  <2>2. \A d \in Classes : Cardinality(Labelled(d)')
          = IF d = c THEN Cardinality(Labelled(d)) + 1 ELSE Cardinality(Labelled(d))
    BY <1>1, <2>1, OneMore DEF Give
  <2>3. \A d \in Classes : now'[d] = IF d = c THEN now[d] + 1 ELSE now[d]
    BY <1>1, <2>1 DEF Give
  <2> QED BY <1>1, <1>2, <2>1, <2>2, <2>3 DEF Drift
<1>4. CASE Infers
  <2>1. PICK i \in Cells, c \in LastOf :
          /\ result[i] = 0 /\ result' = [result EXCEPT ![i] = c]
          /\ now' = [d \in Classes |-> IF d \in LastOf THEN now[d] + 1 ELSE now[d]]
          /\ inferred' = inferred \union {i}
    BY <1>4 DEF Infers
  <2>2. c \in Classes BY DEF LastOf
  <2>3. \A d \in Classes : Cardinality(Labelled(d)')
          = IF d = c THEN Cardinality(Labelled(d)) + 1 ELSE Cardinality(Labelled(d))
    BY <1>1, <2>1, <2>2, OneMore
  <2>4. \A d \in Classes : d \in LastOf => /\ now[d] = Cardinality(Labelled(d))
                                          /\ now'[d] = now[d] + 1 /\ now'[d] = Limit[d]
    <3> SUFFICES ASSUME NEW d \in Classes, Limit[d] - now[d] = 1
                 PROVE  now[d] = Cardinality(Labelled(d)) /\ now[d] + 1 = Limit[d]
      BY <2>1 DEF LastOf
    <3> QED BY <1>1, <1>2
  <2>5. \A d \in Classes : d \notin LastOf => d # c /\ now'[d] = now[d]
    BY <2>1
  <2>6. inferred' # {} BY <2>1
  <2> QED BY <1>1, <1>2, <2>3, <2>4, <2>5, <2>6 DEF Drift
<1>5. CASE UNCHANGED <<result, now, inferred>>
  BY <1>5 DEF LInv, Drift, Labelled
<1> QED BY <1>3, <1>4, <1>5, LabelStep DEF LInv

\* The counts are those of the labels until a label is inferred; an inference
\* counts its cell for every class with room for one more.
CountsMatchUntilInferred ==
  inferred = {} => \A c \in Classes : now[c] = Cardinality({i \in Cells : result[i] = c})

\* set_post_cls counts what it gives, as long as it infers nothing from the counts.
THEOREM CountsMatch == Spec => []CountsMatchUntilInferred
<1>1. LInv => CountsMatchUntilInferred
  BY DEF LInv, Drift, CountsMatchUntilInferred, Labelled
<1> QED BY LabelsInit, LabelsStep, <1>1, PTL DEF Spec

LEMMA MapsInit == Init => Labels!Init
  BY DEF Init, Labels!Init

LEMMA MapsStep == LInv /\ [Next]_vars => [Labels!Next]_result
<1> SUFFICES ASSUME LInv, [Next]_vars PROVE [Labels!Next]_result
  OBVIOUS
<1> USE FieldAssumption DEF FieldAssumption, LInv, TInv, TypeOK, Classes
<1>1. \A c \in Classes : /\ Cardinality(Labelled(c)) \in Nat
                         /\ Cardinality(Labelled(c)) <= now[c]
                         /\ Labels!Given(c) = Labelled(c)
  <2>1. \A c \in Classes : Labels!Given(c) = Labelled(c) BY DEF Labelled, Labels!Given
  <2> QED BY <2>1, LabelledFinite DEF Drift
<1>2. ASSUME NEW i \in Cells, NEW c \in Classes, result[i] = 0, Room(c) \/ c = 4,
             result' = [result EXCEPT ![i] = c]
      PROVE  Labels!Next
  <2>1. c \in Labels!Blocks => Cardinality(Labels!Given(c)) < Limit[c]
    BY <1>1, <1>2 DEF Room, Labels!Blocks
  <2>2. \A S : Labels!Cardinality(S) = Cardinality(S)
    BY ZenonT(30) DEF Labels!Cardinality, Cardinality
  <2>3. Labels!Give(i, c) BY <1>2, <2>1, <2>2 DEF Labels!Give
  <2> QED BY <2>3 DEF Labels!Next, Labels!Classes
<1>3. CASE Gives BY <1>2, <1>3 DEF Gives, Give
<1>4. CASE Infers
  <2>1. PICK i \in Cells, c \in LastOf : result[i] = 0 /\ result' = [result EXCEPT ![i] = c]
    BY <1>4 DEF Infers
  <2>2. c \in Classes /\ Room(c) BY DEF LastOf, Room
  <2> QED BY <2>1, <2>2, <1>2
<1>5. CASE UNCHANGED <<result, now, inferred>> BY <1>5
<1> QED BY <1>3, <1>4, <1>5, LabelStep

\* The decision implements the labelling it promises: a class once given
\* stays, and no class of block is given beyond its limit, however the counts
\* drift by inference and whenever the program is shut down.
THEOREM DecisionKeepsLabelling == Spec => KeepsLabelling
<1> QED BY LabelsInit, LabelsStep, MapsInit, MapsStep, PTL DEF Spec, KeepsLabelling, Labels!Spec
-----------------------------------------------------------------------------
(* What the labels follow.                                                 *)

\* Whoever is placed was seen no worse than whoever is not.
BestPlaced ==
  pc \in {"place", "classify"} => \A i \in place, j \in Cells \ place : det[i] >= det[j]

Placement == BestPlaced /\ (pc = "classify" /\ run => Enough)

LEMMA PlacementStep == TInv /\ Placement /\ [Next]_vars => Placement'
<1> SUFFICES ASSUME TInv, Placement, [Next]_vars PROVE Placement'
  OBVIOUS
<1> USE DEF TInv, TypeOK, Placement, BestPlaced, Enough
<1>1. CASE See
  <2>1. det' \in [Cells -> 0..100] BY <1>1, FieldAssumption DEF See, FieldAssumption
  <2> QED BY <1>1, <2>1 DEF See
<1>2. CASE Promote
  <2>1. PICK new : place' = place \union new /\ new = Best(Unplaced, det)
    BY <1>2 DEF Promote
  <2>2. ASSUME NEW i \in place', NEW j \in Cells \ place' PROVE det[i] >= det[j]
    <3>1. CASE i \in place BY <1>2, <2>1, <2>2, <3>1 DEF Promote
    <3>2. CASE i \in new
      <4>1. j \in Unplaced \/ det[j] = 0 BY <2>1, <2>2 DEF Unplaced
      <4> QED BY <2>1, <3>2, <4>1 DEF Best, Unplaced
    <3> QED BY <2>1, <2>2, <3>1, <3>2
  <2> QED BY <1>2, <2>2 DEF Promote
<1>3. CASE Placed
  BY <1>3 DEF Placed, seen
<1>4. CASE Classify \/ FirstPassEnd \/ FillEnd
  BY <1>4 DEF Classify, FirstPassEnd, FillEnd
<1>5. CASE Shutdown \/ UNCHANGED vars
  BY <1>5 DEF Shutdown, vars, seen
<1>6. ASSUME NEW i \in Cells, FirstPass(i) \/ Fill(i) \/ Infer(i) \/ PutOff(i)
      PROVE  Placement'
  BY <1>6 DEF FirstPass, Fill, Infer, PutOff, Turn
<1> QED BY <1>1, <1>2, <1>3, <1>4, <1>5, <1>6 DEF Next, Decide

\* set_place, repeated or interrupted, places the cells seen best, and enough of them.
THEOREM PlacesTheBestHolds == Spec => []PlacesTheBest
<1>1. Init => Placement BY DEF Init, Placement, BestPlaced
<1>2. Placement => PlacesTheBest BY DEF Placement, BestPlaced, PlacesTheBest
<1> QED BY TypeInit, TypeStep, <1>1, <1>2, PlacementStep, PTL DEF Spec

\* A cell put off stands where the networks agree only if its class is full.
TriedFull ==
  \A i \in tried : result[i] = 0 =>
    /\ i \in place /\ cls[i] # 4 => ~Room(cls[i])
    /\ i \notin place /\ cls[i] = 4 => ~Room(4)

\* Only the inference from the counts goes against the networks: any other
\* cell with a block has the class the class network named, and stands where
\* the presence network placed one; any other empty cell was not placed.
OnlyInferenceDeviates ==
  \A i \in Cells \ inferred :
    /\ result[i] \in 1..3 => i \in place /\ result[i] = cls[i]
    /\ result[i] = 4 => i \notin place

\* An all but certain block the first pass came to has a class, or its class
\* was full.
SureFull ==
  pc \in {"first", "fill"} =>
    \A i \in place \ at :
      Sure(i) /\ cls[i] # 4 /\ result[i] = 0 => ~Room(cls[i])

\* What is left out at the end stands where the networks agree only if the
\* count of its class is full.
NoRoomLeft ==
  pc = "done" /\ run =>
    \A i \in Eligible(Unlabelled) :
      /\ i \in place /\ cls[i] # 4 => ~Room(cls[i])
      /\ i \notin place /\ cls[i] = 4 => ~Room(4)

\* Inductive invariant of the decision.
DInv ==
  /\ LInv /\ TriedFull /\ SureFull
  /\ OnlyInferenceDeviates /\ ServedInOrder /\ NoRoomLeft

LEMMA DecisionInit == Init => DInv
<1> SUFFICES ASSUME Init PROVE DInv
  OBVIOUS
<1>1. TInv /\ LInv BY TypeInit, LabelsInit
<1>2. tried = {} /\ pc = "see" /\ \A i \in Cells : result[i] = 0 BY DEF Init
<1>3. place = {} BY DEF Init
<1> QED BY <1>1, <1>2, <1>3
     DEF DInv, TriedFull, SureFull, OnlyInferenceDeviates, ServedInOrder, NoRoomLeft

\* A turn of the loop takes a cell without a class; of those it may take none is surer.
LEMMA TurnTakes ==
  ASSUME TInv, NEW i \in Cells, Turn(i)
  PROVE  /\ pc = "fill" /\ cls \in [Cells -> Classes] /\ result[i] = 0
         /\ \A j \in Cells : result[j] = 0 /\ conf[j] > conf[i] => j \in tried
         /\ i \in tried => \A j \in Eligible(Unlabelled) : j \in tried
<1> USE DEF TInv, TypeOK
<1>1. i \in Open /\ \A j \in Open : conf[j] <= conf[i] BY DEF Turn, Best
<1>2. Open \subseteq Eligible(Unlabelled) BY DEF Open, Eligible
<1>3. pc = "fill" /\ cls \in [Cells -> Classes] BY DEF Turn
<1>4. result[i] = 0 BY <1>1, <1>2 DEF Eligible, Unlabelled
<1>5. ASSUME NEW j \in Cells, result[j] = 0, conf[j] > conf[i] PROVE j \in tried
  <2>1. j \in Eligible(Unlabelled) BY <1>5 DEF Eligible, Unlabelled
  <2>2. j \notin Open BY <1>1, <1>5
  <2> QED BY <2>1, <2>2 DEF Open, Eligible
<1>6. ASSUME i \in tried, NEW j \in Eligible(Unlabelled) PROVE j \in tried
  BY <1>1, <1>6 DEF Open, Eligible
<1> QED BY <1>3, <1>4, <1>5, <1>6

\* A step that changes neither labels, counts nor opinions, and puts no cell off.
LEMMA QuietStep ==
  ASSUME DInv, UNCHANGED <<place, cls, conf, at, result, now, tried, inferred>>, NoRoomLeft',
         pc' \in {"first", "fill"} => pc \in {"first", "fill"}
  PROVE  TriedFull' /\ SureFull' /\ OnlyInferenceDeviates' /\ ServedInOrder'
BY DEF DInv, TriedFull, SureFull, OnlyInferenceDeviates, ServedInOrder, Before, Sure, Room

\* A class that is full stays full: counts only rise.
LEMMA FullStays ==
  ASSUME TInv, \A c \in Classes : now'[c] = now[c] \/ now'[c] = now[c] + 1,
         NEW c \in Classes, ~Room(c)
  PROVE  ~Room(c)'
<1>1. now[c] \in Nat /\ Limit[c] \in Nat
  BY FieldAssumption DEF FieldAssumption, TInv, TypeOK
<1>2. ~(now[c] < Limit[c]) BY DEF Room
<1>3. now'[c] = now[c] \/ now'[c] = now[c] + 1 OBVIOUS
<1> QED BY <1>1, <1>2, <1>3 DEF Room

\* SureFull survives a step of either pass that labels some cells, unlabels none
\* and lets counts rise, unless the cell the first pass comes to is left out.
LEMMA SureStays ==
  ASSUME TInv, SureFull, pc \in {"first", "fill"}, UNCHANGED <<place, cls, conf>>,
         \A c \in Classes : now'[c] = now[c] \/ now'[c] = now[c] + 1,
         \A k \in Cells : result'[k] = 0 => result[k] = 0,
         \A k \in place : k \in at /\ k \notin at' =>
           (Sure(k) /\ cls[k] # 4 /\ result'[k] = 0 => ~Room(cls[k]))
  PROVE  SureFull'
<1> SUFFICES ASSUME NEW k \in place, k \notin at', Sure(k), cls[k] # 4, result'[k] = 0
             PROVE  ~Room(cls[k])'
  BY DEF SureFull, Sure, Room
<1>1. k \in Cells /\ cls[k] \in Classes BY DEF TInv, TypeOK
<1>2. ~Room(cls[k]) BY <1>1 DEF SureFull
<1>3. ~Room(cls[k])' BY <1>1, <1>2, FullStays DEF Room
<1> QED BY <1>3

LEMMA DecisionStep == DInv /\ [Next]_vars => DInv'
<1> SUFFICES ASSUME DInv, [Next]_vars
             PROVE  (TriedFull /\ SureFull /\ OnlyInferenceDeviates /\ ServedInOrder
                       /\ NoRoomLeft)'
  BY LabelsStep DEF DInv
<1> DEFINE Goal == TriedFull /\ SureFull /\ OnlyInferenceDeviates /\ ServedInOrder /\ NoRoomLeft
<1>t. /\ TInv /\ FreshUntilAsked /\ FirstPassAhead
      /\ TriedFull /\ SureFull /\ OnlyInferenceDeviates /\ ServedInOrder /\ NoRoomLeft
  BY DEF DInv, LInv
<1> USE <1>t, FieldAssumption DEF TInv, TypeOK, FieldAssumption
<1>1. CASE See \/ Promote \/ Placed \/ Classify
  <2>1. /\ \A i \in Cells : result'[i] = 0
        /\ tried' = {} /\ pc' # "done"
    BY <1>1 DEF See, Promote, Placed, Classify, labels, FreshUntilAsked, FirstPassAhead
  <2>2. place' \subseteq Cells BY <1>1 DEF See, Promote, Placed, Classify, seen, Best, Unplaced
  <2>3. SureFull' BY <1>1, <2>2 DEF See, Promote, Placed, Classify, SureFull
  <2> QED BY <2>1, <2>2, <2>3
      DEF TriedFull, OnlyInferenceDeviates, ServedInOrder, NoRoomLeft
<1>2. CASE FirstPassEnd \/ Shutdown
  BY <1>2, QuietStep DEF FirstPassEnd, Shutdown, seen, opinion, labels, NoRoomLeft
<1>3. CASE FillEnd
  <2>1. NoRoomLeft'
    <3>1. CASE now = Limit
      BY <1>3, <3>1 DEF FillEnd, NoRoomLeft, Eligible, Unlabelled, Room, seen, opinion, labels, Classes
    <3>2. CASE Open = {}
      <4>1. Eligible(Unlabelled) = {} BY <3>2 DEF Open, Eligible
      <4> QED BY <1>3, <4>1 DEF FillEnd, NoRoomLeft, Eligible, Unlabelled, opinion, labels
    <3>3. CASE ~run BY <1>3, <3>3 DEF FillEnd, NoRoomLeft
    <3> QED BY <1>3, <3>1, <3>2, <3>3 DEF FillEnd
  <2> QED BY <1>3, <2>1, QuietStep DEF FillEnd, seen, opinion, labels
<1>4. CASE UNCHANGED vars
  <2>1. NoRoomLeft'
    BY <1>4 DEF vars, seen, opinion, labels, NoRoomLeft, Eligible, Unlabelled, Room
  <2> QED BY <1>4, <2>1, QuietStep DEF vars, seen, opinion, labels
<1>5. ASSUME NEW i \in Cells, FirstPass(i) PROVE Goal'
  <2>1. /\ UNCHANGED <<place, cls, conf, inferred>> /\ pc = "first" /\ pc' = "first" /\ tried' = {}
        /\ result[i] = 0 /\ cls \in [Cells -> Classes]
        /\ at' = at \ {i} /\ \A j \in at : i <= j
    BY <1>5 DEF FirstPass, FirstPassAhead, seen, opinion
  <2>2. CASE FirstLabel(i) = 0
    <3>1. UNCHANGED <<result, now>> BY <1>5, <2>2 DEF FirstPass
    <3>2. i \in place /\ Sure(i) /\ cls[i] # 4 => ~Room(cls[i])
      BY <2>1, <2>2 DEF FirstLabel, Classes
    <3>3. SureFull' BY <2>1, <3>1, <3>2, SureStays
    <3> QED BY <2>1, <3>1, <3>3
        DEF TriedFull, OnlyInferenceDeviates, ServedInOrder, Before, Sure, NoRoomLeft
  <2>3. CASE FirstLabel(i) # 0
    <3>1. /\ i \in place => /\ FirstLabel(i) = cls[i] /\ cls[i] \in 1..3
                            /\ Sure(i) /\ Room(cls[i])
          /\ i \notin place => FirstLabel(i) = 4
      BY <2>1, <2>3 DEF FirstLabel, Classes
    <3>2. /\ result' = [result EXCEPT ![i] = FirstLabel(i)]
          /\ now' = [now EXCEPT ![FirstLabel(i)] = @ + 1]
      BY <1>5, <2>3 DEF FirstPass, Give
    <3>3. OnlyInferenceDeviates' BY <2>1, <3>1, <3>2 DEF OnlyInferenceDeviates
    <3>4. ServedInOrder'
      <4> SUFFICES ASSUME NEW k \in place \ inferred, NEW j \in place \ inferred,
                          result'[j] \in 1..3, cls[k] = result'[j], Before(k, j)
                   PROVE  result'[k] # 0
        BY <2>1 DEF ServedInOrder, Before, Sure
      <4>1. CASE j = i
        <5>1. cls[k] = cls[i] /\ cls[k] # 4 /\ Room(cls[k]) BY <3>1, <3>2, <4>1
        <5>2. Sure(k) /\ k < i BY <3>1, <4>1 DEF Before
        <5>3. k \notin at /\ k # i
          BY <2>1, <5>2, FieldAssumption DEF FieldAssumption
        <5>4. result[k] # 0 BY <2>1, <5>1, <5>2, <5>3 DEF SureFull
        <5> QED BY <3>2, <5>3, <5>4
      <4>2. CASE j # i
        <5>1. result[k] # 0 BY <3>2, <4>2 DEF ServedInOrder
        <5> QED BY <2>1, <3>2, <5>1
      <4> QED BY <4>1, <4>2
    <3>5. FirstLabel(i) \in Classes BY <3>1 DEF Classes
    <3>6. SureFull'
      <4>1. \A c \in Classes : now'[c] = now[c] \/ now'[c] = now[c] + 1 BY <3>2, <3>5
      <4>2. \A k \in Cells : result'[k] = 0 => result[k] = 0 /\ k # i
        BY <2>1, <2>3, <3>2, <3>5
      <4> QED BY <2>1, <4>1, <4>2, SureStays
    <3> QED BY <2>1, <3>3, <3>4, <3>6 DEF TriedFull, NoRoomLeft
  <2> QED BY <2>2, <2>3
<1>6. ASSUME NEW i \in Cells, Fill(i) PROVE Goal'
  <2>1. /\ pc = "fill" /\ cls \in [Cells -> Classes] /\ result[i] = 0
        /\ \A j \in Cells : result[j] = 0 /\ conf[j] > conf[i] => j \in tried
    BY <1>6, TurnTakes DEF Fill
  <2>2. UNCHANGED <<pc, place, cls, conf, at, tried, inferred>> BY <1>6 DEF Fill, seen, opinion
  <2> DEFINE a == Agreed(i)
  <2>3. /\ i \in place => a = cls[i] /\ a \in 1..3 /\ Room(cls[i])
        /\ i \notin place => a = 4
    BY <1>6, <2>1 DEF Fill, Agreed, Classes
  <2>4. result' = [result EXCEPT ![i] = a] /\ now' = [now EXCEPT ![a] = @ + 1]
    BY <1>6 DEF Fill, Give
  <2> HIDE DEF a
  <2>5. TriedFull'
    <3>1. \A c \in Classes : now'[c] = now[c] \/ now'[c] = now[c] + 1 BY <2>4
    <3>2. \A c \in Classes : ~Room(c) => ~Room(c)'
      <4> SUFFICES ASSUME NEW c \in Classes, ~(now[c] < Limit[c])
                   PROVE  ~(now'[c] < Limit[c])
        BY DEF Room
      <4>1. now[c] \in Nat /\ Limit[c] \in Nat OBVIOUS
      <4> QED BY <3>1, <4>1
    <3>3. \A k \in tried' : k \in tried /\ cls'[k] = cls[k] /\ cls[k] \in Classes BY <2>1, <2>2
    <3>4. \A k \in tried' : result'[k] = 0 => result[k] = 0 BY <2>1, <2>2, <2>4
    <3>5. 4 \in Classes BY DEF Classes
    <3> QED BY <2>2, <3>2, <3>3, <3>4, <3>5 DEF TriedFull, Room
  <2>a. a \in Classes BY <2>3 DEF Classes
  <2>s. SureFull'
    <3>1. \A c \in Classes : now'[c] = now[c] \/ now'[c] = now[c] + 1 BY <2>4, <2>a
    <3>2. \A k \in Cells : result'[k] = 0 => result[k] = 0 BY <2>1, <2>4
    <3> QED BY <2>1, <2>2, <3>1, <3>2, SureStays
  <2>6. OnlyInferenceDeviates' BY <2>1, <2>2, <2>3, <2>4 DEF OnlyInferenceDeviates
  <2>7. ServedInOrder'
    <3> SUFFICES ASSUME NEW k \in place \ inferred, NEW j \in place \ inferred,
                        result'[j] \in 1..3, cls[k] = result'[j], Before(k, j)
                 PROVE  result'[k] # 0
      BY <2>2 DEF ServedInOrder, Before, Sure
    <3>1. CASE j = i
      <4>1. cls[k] = cls[i] /\ cls[k] # 4 /\ Room(cls[k]) BY <2>3, <2>4, <3>1
      <4>2. CASE Sure(k)
        <5>1. k \notin at BY <2>1 DEF FirstPassAhead
        <5>2. result[k] # 0 BY <2>1, <4>1, <4>2, <5>1 DEF SureFull
        <5> QED BY <2>1, <2>4, <5>2
      <4>3. CASE ~Sure(k)
        <5>1. conf[k] > conf[i] BY <3>1, <4>3 DEF Before
        <5>2. result[k] # 0 BY <2>1, <4>1, <5>1 DEF TriedFull
        <5> QED BY <2>1, <2>4, <5>2
      <4> QED BY <4>2, <4>3
    <3>2. CASE j # i
      <4>1. result[k] # 0 BY <2>4, <3>2 DEF ServedInOrder
      <4> QED BY <2>1, <2>4, <4>1
    <3> QED BY <3>1, <3>2
  <2> QED BY <2>1, <2>2, <2>5, <2>s, <2>6, <2>7 DEF NoRoomLeft
<1>7. ASSUME NEW i \in Cells, Infer(i) PROVE Goal'
  <2>1. pc = "fill" /\ cls \in [Cells -> Classes] /\ result[i] = 0
    BY <1>7, TurnTakes DEF Infer
  <2>2. UNCHANGED <<pc, place, cls, conf, at>> BY <1>7 DEF Infer, seen, opinion
  <2>3. Max(LastOf) \in Classes BY <1>7, LastOfMax DEF Infer, CanInfer, LastOf
  <2>4. /\ result' = [result EXCEPT ![i] = Max(LastOf)]
        /\ tried' = tried \union {i} /\ inferred' = inferred \union {i}
        /\ \A c \in Classes : now'[c] >= now[c]
    BY <1>7 DEF Infer
  <2>5. \A k \in Cells : (k # i => result'[k] = result[k]) /\ (k = i => result'[k] # 0)
    BY <2>3, <2>4 DEF Classes
  <2>6. TriedFull'
    <3>1. \A c \in Classes : ~Room(c) => ~Room(c)'
      <4> SUFFICES ASSUME NEW c \in Classes, ~(now[c] < Limit[c])
                   PROVE  ~(now'[c] < Limit[c])
        BY DEF Room
      <4>1. now[c] \in Nat /\ Limit[c] \in Nat OBVIOUS
      <4>2. now'[c] = now[c] \/ now'[c] = now[c] + 1 BY <1>7 DEF Infer
      <4> QED BY <4>1, <4>2
    <3>2. \A k \in tried' : result'[k] = 0 => k \in tried /\ result[k] = 0 BY <2>4, <2>5
    <3>3. \A k \in tried : cls'[k] = cls[k] /\ cls[k] \in Classes BY <2>1, <2>2
    <3>4. 4 \in Classes BY DEF Classes
    <3> QED BY <2>2, <3>1, <3>2, <3>3, <3>4 DEF TriedFull, Room
  <2>7. OnlyInferenceDeviates' BY <2>2, <2>4, <2>5 DEF OnlyInferenceDeviates
  <2>8. ServedInOrder' BY <2>2, <2>4, <2>5 DEF ServedInOrder, Before, Sure
  <2>9. SureFull'
    <3>1. \A c \in Classes : now'[c] = now[c] \/ now'[c] = now[c] + 1 BY <1>7 DEF Infer
    <3>2. \A k \in Cells : result'[k] = 0 => result[k] = 0 BY <2>5
    <3> QED BY <2>1, <2>2, <3>1, <3>2, SureStays
  <2> QED BY <2>1, <2>2, <2>6, <2>7, <2>8, <2>9 DEF NoRoomLeft
<1>8. ASSUME NEW i \in Cells, PutOff(i) PROVE Goal'
  <2>1. /\ pc = "fill" /\ cls \in [Cells -> Classes]
        /\ i \in tried => \A j \in Eligible(Unlabelled) : j \in tried
    BY <1>8, TurnTakes DEF PutOff
  <2>2. UNCHANGED <<run, place, cls, conf, at, result, now, inferred>>
    BY <1>8 DEF PutOff, seen, opinion
  <2>3. Agreed(i) = 0 /\ tried' \subseteq tried \union {i} /\ tried \subseteq tried' BY <1>8 DEF PutOff
  <2>4. /\ i \in place /\ cls[i] # 4 => ~Room(cls[i])
        /\ i \notin place /\ cls[i] = 4 => ~Room(4)
    BY <2>1, <2>3 DEF Agreed, Classes
  <2>5. TriedFull' BY <2>2, <2>3, <2>4 DEF TriedFull, Room
  <2>6. OnlyInferenceDeviates' BY <2>2 DEF OnlyInferenceDeviates
  <2>7. ServedInOrder' BY <2>2 DEF ServedInOrder, Before, Sure
  <2>9. SureFull' BY <2>1, <2>2 DEF SureFull, Sure, Room
  <2>8. NoRoomLeft'
    <3>1. CASE i \in tried
      BY <2>1, <2>2, <3>1 DEF TriedFull, NoRoomLeft, Eligible, Unlabelled, Room
    <3>2. CASE i \notin tried BY <1>8, <2>1, <3>2 DEF PutOff, NoRoomLeft
    <3> QED BY <3>1, <3>2
  <2> QED BY <2>5, <2>6, <2>7, <2>8, <2>9
<1> QED BY <1>1, <1>2, <1>3, <1>4, <1>5, <1>6, <1>7, <1>8 DEF Next, Decide

\* Only the inference from the counts deviates from what the networks said.
THEOREM OnlyInferenceDeviatesHolds == Spec => []OnlyInferenceDeviates
<1>1. DInv => OnlyInferenceDeviates BY DEF DInv
<1> QED BY DecisionInit, DecisionStep, <1>1, PTL DEF Spec

\* Of two placed cells the networks name alike set_post_cls serves first the one
\* it comes to first: the all but certain ones by position, the others by confidence.
THEOREM ServedInOrderHolds == Spec => []ServedInOrder
<1>1. DInv => ServedInOrder BY DEF DInv
<1> QED BY DecisionInit, DecisionStep, <1>1, PTL DEF Spec

\* A cell on which the networks agree is left without a class only when as many
\* cells as the rules allow have it; one less, once a label was inferred.
THEOREM LeftOutOnlyWhenTakenHolds == Spec => []LeftOutOnlyWhenTaken
<1>1. DInv => LeftOutOnlyWhenTaken
  <2> SUFFICES ASSUME DInv, pc = "done", run, NEW i \in Eligible(Unlabelled),
                      cls[i] = 4 <=> i \notin place
               PROVE  Cardinality(Labelled(cls[i])) + (IF inferred = {} THEN 0 ELSE 1)
                        >= Limit[cls[i]]
    BY DEF LeftOutOnlyWhenTaken
  <2> USE FieldAssumption DEF FieldAssumption
  <2>1. i \in Cells BY DEF Eligible, Unlabelled
  <2>2. /\ cls[i] \in Classes /\ now[cls[i]] \in Nat /\ Limit[cls[i]] \in Nat
        /\ Cardinality(Labelled(cls[i])) \in Nat
    BY <2>1, LabelledFinite DEF DInv, LInv, TInv, TypeOK
  <2>3. ~Room(cls[i]) BY DEF DInv, NoRoomLeft
  <2>4. now[cls[i]] >= Limit[cls[i]] BY <2>2, <2>3 DEF Room
  <2>5. \/ now[cls[i]] = Cardinality(Labelled(cls[i]))
        \/ inferred # {} /\ now[cls[i]] = Cardinality(Labelled(cls[i])) + 1
    BY <2>2 DEF DInv, LInv, Drift
  <2> QED BY <2>2, <2>4, <2>5
<1> QED BY DecisionInit, DecisionStep, <1>1, PTL DEF Spec
==============================================================================
