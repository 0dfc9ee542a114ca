---------------------------- MODULE RcuQueue_proof ----------------------------
(***************************************************************************)
(* Proofs about RcuQueue, for a ring of any size and any number of pushes. *)
(***************************************************************************)
EXTENDS RcuQueue, Integers, TLAPS

LEMMA DivMod ==
  \A n \in Nat \ {0} : \A a \in Nat :
    a = n * (a \div n) + (a % n) /\ a \div n \in Nat /\ a % n \in 0..(n - 1)
OBVIOUS

LEMMA ProductGrows == \A n \in Nat : \A k, l \in Int : k <= l => n * k <= n * l
OBVIOUS

LEMMA Remainder ==
  \A n \in Nat \ {0} : \A a \in Nat :
    \E q \in Nat, r \in 0..(n - 1) : a = n * q + r /\ a % n = r
<1> SUFFICES ASSUME NEW n \in Nat \ {0}, NEW a \in Nat
             PROVE  \E q \in Nat, r \in 0..(n - 1) : a = n * q + r /\ a % n = r
  OBVIOUS
<1> QED BY DivMod

LEMMA RemainderIs ==
  \A n \in Nat \ {0} : \A a \in Nat : \A q \in Nat, r \in 0..(n - 1) :
    a = n * q + r => a % n = r
<1> SUFFICES ASSUME NEW n \in Nat \ {0}, NEW a \in Nat, NEW q \in Nat, NEW r \in 0..(n - 1),
                    a = n * q + r
             PROVE  a % n = r
  OBVIOUS
<1>1. PICK p \in Nat, s \in 0..(n - 1) : a = n * p + s /\ a % n = s BY Remainder
<1>2. CASE p < q
  <2>1. n * (p + 1) <= n * q BY <1>2, ProductGrows
  <2>2. n * (p + 1) = n * p + n OBVIOUS
  <2> QED BY <1>1, <2>1, <2>2
<1>3. CASE q < p
  <2>1. n * (q + 1) <= n * p BY <1>3, ProductGrows
  <2>2. n * (q + 1) = n * q + n OBVIOUS
  <2> QED BY <1>1, <2>1, <2>2
<1>4. CASE p = q BY <1>1, <1>4
<1> QED BY <1>2, <1>3, <1>4

\* The successor of an index is the index of the successor.
LEMMA IndexOfNext == \A n \in Nat \ {0} : \A a \in Nat : ((a % n) + 1) % n = (a + 1) % n
<1> SUFFICES ASSUME NEW n \in Nat \ {0}, NEW a \in Nat
             PROVE  ((a % n) + 1) % n = (a + 1) % n
  OBVIOUS
<1>1. PICK q \in Nat, r \in 0..(n - 1) : a = n * q + r /\ a % n = r BY Remainder
<1>2. a + 1 \in Nat OBVIOUS
<1>3. CASE r < n - 1
  <2>1. r + 1 \in 0..(n - 1) /\ a + 1 = n * q + (r + 1) BY <1>1, <1>3
  <2>2. (a + 1) % n = r + 1 BY <1>2, <2>1, RemainderIs
  <2>3. (r + 1) % n = r + 1 BY <2>1
  <2> QED BY <1>1, <2>2, <2>3
<1>4. CASE r = n - 1
  <2>1. n * (q + 1) = n * q + n OBVIOUS
  <2>2. q + 1 \in Nat /\ 0 \in 0..(n - 1) /\ a + 1 = n * (q + 1) + 0 BY <1>1, <1>4, <2>1
  <2>3. (a + 1) % n = 0 BY <1>2, <2>2, RemainderIs
  <2>4. (r + 1) % n = 0 BY <1>4
  <2> QED BY <1>1, <2>3, <2>4
<1> QED BY <1>3, <1>4

\* Less than one round of the ring apart, two elements have different slots.
LEMMA SlotsApart ==
  \A n \in Nat \ {0} : \A a, b \in Nat : a < b /\ b < a + n => a % n # b % n
<1> SUFFICES ASSUME NEW n \in Nat \ {0}, NEW a \in Nat, NEW b \in Nat,
                    a < b, b < a + n, a % n = b % n
             PROVE FALSE
  OBVIOUS
<1>1. PICK p \in Nat, r \in 0..(n - 1) : a = n * p + r /\ a % n = r BY Remainder
<1>2. PICK q \in Nat, s \in 0..(n - 1) : b = n * q + s /\ b % n = s BY Remainder
<1>3. n * p < n * q /\ n * q < n * p + n BY <1>1, <1>2
<1>4. p < q BY <1>3, ProductGrows
<1>5. n * (p + 1) <= n * q BY <1>4, ProductGrows
<1>6. n * (p + 1) = n * p + n OBVIOUS
<1> QED BY <1>3, <1>5, <1>6

\* The slot get_latest reads.
Before(i) == (i + MaxSize - 1) % MaxSize

LEMMA RingIndex ==
  \A i \in Slots : After(i) \in Slots /\ Before(i) \in Slots /\ Before(After(i)) = i
  BY RingAssumption DEF RingAssumption, Slots, After, Before

LEMMA CountDown ==
  \A n \in 0..(CountMod - 1) : Decremented(n) \in 0..(CountMod - 1) /\ (n > 0 => Decremented(n) = n - 1)
  BY RingAssumption DEF RingAssumption, Decremented

LEMMA CountUp ==
  \A n \in 0..(CountMod - 1) :
    (n + 1) % CountMod \in 0..(CountMod - 1) /\ (n + 1 < CountMod => (n + 1) % CountMod = n + 1)
  BY RingAssumption DEF RingAssumption
-----------------------------------------------------------------------------
LEMMA TypeInit == Init => TypeOK
<1>1. 0 \in Slots /\ 0 \in 0..MaxPush /\ 0 \in 0..(CountMod - 1)
  BY RingAssumption DEF RingAssumption, Slots
<1> SUFFICES ASSUME Init PROVE TypeOK
  OBVIOUS
<1>2. storage_ \in [Slots -> 0..MaxPush] BY <1>1 DEF Init
<1>3. /\ popped \in Nat /\ cleared \in 0..MaxPush
      /\ overflowed \in BOOLEAN /\ torn \in BOOLEAN
  BY <1>1 DEF Init
<1> QED BY <1>1, <1>2, <1>3 DEF Init, TypeOK

LEMMA TypeStep == TypeOK /\ [Next]_vars => TypeOK'
<1> SUFFICES ASSUME TypeOK, [Next]_vars PROVE TypeOK'
  OBVIOUS
<1> USE RingAssumption DEF RingAssumption, TypeOK, WriterAt, PopperAt, ring, clears
<1>1. CASE PushBegin
  <2>1. pushed' \in [begun : 0..MaxPush, completed : 0..MaxPush] BY <1>1 DEF PushBegin
  <2>2. writer'.at \in {"load_head", "write"} /\ writer' = [writer EXCEPT !.at = writer'.at]
    BY <1>1 DEF PushBegin
  <2>3. overflowed' \in BOOLEAN BY Zenon, <1>1 DEF PushBegin
  <2> QED BY <1>1, <2>1, <2>2, <2>3 DEF PushBegin
<1>2. CASE PushLoadHead BY <1>2 DEF PushLoadHead
<1>3. CASE PushStoreHead
  <2>1. head_' \in Slots BY <1>3, RingIndex DEF PushStoreHead
  <2> QED BY <1>3, <2>1 DEF PushStoreHead
<1>4. CASE PushDecCount
  <2>1. count_' \in 0..(CountMod - 1) BY <1>4, CountDown DEF PushDecCount
  <2> QED BY <1>4, <2>1 DEF PushDecCount
<1>5. CASE PushWrite BY <1>5 DEF PushWrite
<1>6. CASE PushStoreTail
  <2>1. tail_' \in Slots BY <1>6, RingIndex DEF PushStoreTail
  <2> QED BY <1>6, <2>1 DEF PushStoreTail
<1>7. CASE PushIncCount
  <2>1. count_' \in 0..(CountMod - 1) BY <1>7, CountUp DEF PushIncCount
  <2> QED BY <1>7, <2>1 DEF PushIncCount
<1>t. ASSUME PopBegin \/ LatestBegin \/ Clear PROVE torn' \in BOOLEAN
  BY Zenon, <1>t DEF PopBegin, LatestBegin, Clear, ClearHead, ClearTail, ClearCount, Disturbed
<1>8. CASE PopBegin BY <1>8, <1>t DEF PopBegin
<1>9. CASE PopLoadHead BY <1>9 DEF PopLoadHead
<1>10. CASE PopRead BY <1>10 DEF PopRead
<1>11. CASE PopReloadHead BY <1>11 DEF PopReloadHead
<1>12. CASE PopStoreHead
  <2>1. head_' \in Slots BY <1>12, RingIndex DEF PopStoreHead
  <2> QED BY <1>12, <2>1 DEF PopStoreHead
<1>13. CASE PopDecCount
  <2>1. count_' \in 0..(CountMod - 1) BY <1>13, CountDown DEF PopDecCount
  <2>2. 0 \in Slots BY DEF Slots
  <2> QED BY <1>13, <2>1, <2>2 DEF PopDecCount
<1>14. CASE LatestBegin BY <1>14, <1>t DEF LatestBegin
<1>15. CASE LatestLoadTail
  <2>1. latest'.index \in Slots BY <1>15, RingIndex DEF LatestLoadTail, Before
  <2> QED BY <1>15, <2>1 DEF LatestLoadTail
<1>16. CASE LatestRead BY <1>16 DEF LatestRead
<1>17. CASE LatestReturn
  <2>1. 0 \in Slots BY DEF Slots
  <2> QED BY <1>17, <2>1 DEF LatestReturn
<1>18. CASE UNCHANGED vars BY <1>18 DEF vars
<1>19. CASE Clear
  <2>1. 0 \in Slots /\ 0 \in 0..(CountMod - 1) BY DEF Slots
  <2>2. torn' \in BOOLEAN BY <1>19, <1>t
  <2>3. CASE ClearHead BY <2>1, <2>2, <2>3 DEF ClearHead
  <2>4. CASE ClearTail BY <2>1, <2>2, <2>4 DEF ClearTail
  <2>5. CASE ClearCount
    <3>1. popped' \in Nat /\ cleared' \in 0..MaxPush BY <2>5 DEF ClearCount
    <3>2. overflowed' \in BOOLEAN BY Zenon, <2>5 DEF ClearCount
    <3>3. /\ writer' = [writer EXCEPT !.at = "idle"] /\ count_' = 0
          /\ UNCHANGED <<storage_, head_, tail_, popper, latest, pushed>>
      BY <2>5 DEF ClearCount
    <3> QED BY <2>1, <2>2, <3>1, <3>2, <3>3
  <2> QED BY <1>19, <2>3, <2>4, <2>5 DEF Clear
<1> QED BY <1>1, <1>2, <1>3, <1>4, <1>5, <1>6, <1>7, <1>8, <1>9, <1>10, <1>11, <1>12,
           <1>13, <1>14, <1>15, <1>16, <1>17, <1>18, <1>19 DEF Next, Push, Pop, Latest

(* However push, pop, get_latest and clear interleave, also in a full      *)
(* queue, the indices of RCUQueue stay inside the ring.                    *)
THEOREM TypeCorrect == Spec => []TypeOK
<1>1. Init => TypeOK BY TypeInit
<1>2. TypeOK /\ [Next]_vars => TypeOK' BY TypeStep
<1> QED BY <1>1, <1>2, PTL DEF Spec
-----------------------------------------------------------------------------
(* What a clear that meets no pop and no get_latest leaves: an empty ring  *)
(* whose indices are zero, and which stays empty until a push completes.   *)
ClearInv ==
  /\ cleared <= pushed.completed /\ pushed.completed <= pushed.begun
  /\ pushed.begun = pushed.completed
                     + (IF writer.at \in {"idle", "clear_tail", "clear_count"} THEN 0 ELSE 1)
  /\ ~torn =>
       /\ Clearing => popper.at = "idle" /\ latest.at = "idle" /\ head_ = 0
       /\ writer.at = "clear_count" => tail_ = 0
       /\ ~Clearing /\ pushed.completed = cleared =>
            /\ count_ = 0 /\ popper.at = "idle" /\ latest.at = "idle"
            /\ writer.at \notin {"load_head", "store_head", "dec_count"}

LEMMA ClearInit == Init => ClearInv
  BY DEF Init, ClearInv, Clearing

\* Once a clear has met a pop or a get_latest nothing is said any more.
LEMMA TornStays == TypeOK /\ [Next]_vars /\ ~torn' => ~torn
<1> SUFFICES ASSUME TypeOK, [Next]_vars, torn PROVE torn'
  BY DEF TypeOK
<1>1. CASE PopBegin BY Zenon, <1>1 DEF PopBegin
<1>2. CASE LatestBegin BY Zenon, <1>2 DEF LatestBegin
<1>3. CASE Clear BY Zenon, <1>3 DEF Clear, ClearHead, ClearTail, ClearCount, Disturbed
<1>4. CASE UNCHANGED torn BY <1>4
<1> QED
  BY Zenon, <1>1, <1>2, <1>3, <1>4 DEF Next, Push, Pop, Latest, vars, clears, PushBegin, PushLoadHead,
     PushStoreHead, PushDecCount, PushWrite, PushStoreTail, PushIncCount, PopLoadHead, PopRead,
     PopReloadHead, PopStoreHead, PopDecCount, LatestLoadTail, LatestRead, LatestReturn

LEMMA ClearStep == TypeOK /\ ClearInv /\ [Next]_vars => ClearInv'
<1> SUFFICES ASSUME TypeOK, ClearInv, [Next]_vars PROVE ClearInv'
  OBVIOUS
<1>0. ~torn' => ~torn BY TornStays
<1>n. pushed.begun \in Nat /\ pushed.completed \in Nat /\ cleared \in Nat /\ count_ \in Nat
  BY RingAssumption DEF TypeOK, RingAssumption
<1>t. /\ writer = [at |-> writer.at, head |-> writer.head]
      /\ popper = [at |-> popper.at, index |-> popper.index, msg |-> popper.msg]
      /\ latest = [at |-> latest.at, index |-> latest.index, msg |-> latest.msg,
                   floor |-> latest.floor]
      /\ pushed = [begun |-> pushed.begun, completed |-> pushed.completed]
  BY DEF TypeOK
<1> USE DEF ClearInv, WriterAt, PopperAt, Clearing, ring, clears
<1>1. CASE Push
  <2>1. popper' = popper /\ latest' = latest /\ cleared' = cleared /\ torn' = torn
    BY <1>1 DEF Push, PushBegin, PushLoadHead, PushStoreHead, PushDecCount, PushWrite,
         PushStoreTail, PushIncCount
  <2>2. CASE PushBegin
    <3>1. /\ pushed'.begun = pushed.begun + 1 /\ pushed'.completed = pushed.completed
          /\ count_' = count_ /\ writer.at = "idle"
      BY <1>t, <2>2 DEF PushBegin
    <3>2. writer'.at \in {"load_head", "write"} /\ (count_ = 0 => writer'.at = "write")
      BY <1>t, <2>2, RingAssumption DEF PushBegin, RingAssumption
    <3> QED BY <1>n, <2>1, <3>1, <3>2
  <2>3. CASE PushLoadHead \/ PushStoreHead \/ PushDecCount
    <3>1. /\ pushed' = pushed /\ writer.at \in {"load_head", "store_head", "dec_count"}
          /\ writer'.at \in {"store_head", "dec_count", "write"}
      BY <1>t, <2>3 DEF PushLoadHead, PushStoreHead, PushDecCount
    <3> QED BY <1>n, <2>1, <3>1
  <2>4. CASE PushWrite \/ PushStoreTail
    <3>1. /\ pushed' = pushed /\ count_' = count_ /\ writer.at \in {"write", "store_tail"}
          /\ writer'.at \in {"store_tail", "inc_count"}
      BY <1>t, <2>4 DEF PushWrite, PushStoreTail
    <3> QED BY <1>n, <2>1, <3>1
  <2>5. CASE PushIncCount
    <3>1. /\ pushed'.begun = pushed.begun /\ pushed'.completed = pushed.begun
          /\ writer.at = "inc_count" /\ writer'.at = "idle"
      BY <1>t, <2>5 DEF PushIncCount
    <3> QED BY <1>n, <2>1, <3>1
  <2> QED BY <1>1, <2>2, <2>3, <2>4, <2>5 DEF Push
<1>2. CASE PopBegin
  <2>1. /\ count_ # 0 /\ UNCHANGED <<ring, writer, latest, pushed, cleared>>
        /\ torn' = (torn \/ Clearing)
    BY <1>2 DEF PopBegin
  <2>2. ~torn' => ~Clearing BY Zenon, <2>1
  <2> QED BY <1>0, <1>n, <2>1, <2>2
<1>3. CASE PopLoadHead \/ PopRead \/ PopReloadHead \/ PopStoreHead \/ PopDecCount
  <2>1. popper.at # "idle" /\ UNCHANGED <<tail_, writer, latest, pushed, cleared, torn>>
    BY <1>3 DEF PopLoadHead, PopRead, PopReloadHead, PopStoreHead, PopDecCount
  <2> QED BY <1>n, <2>1
<1>4. CASE LatestBegin
  <2>1. /\ count_ # 0 /\ UNCHANGED <<ring, writer, popper, pushed, cleared>>
        /\ torn' = (torn \/ Clearing)
    BY <1>4 DEF LatestBegin
  <2>2. ~torn' => ~Clearing BY Zenon, <2>1
  <2> QED BY <1>0, <1>n, <2>1, <2>2
<1>5. CASE LatestLoadTail \/ LatestRead \/ LatestReturn
  <2>1. latest.at # "idle" /\ UNCHANGED <<ring, writer, popper, pushed, cleared, torn>>
    BY <1>5 DEF LatestLoadTail, LatestRead, LatestReturn
  <2> QED BY <1>n, <2>1
<1>6. CASE Clear
  <2>1. ~torn' => popper.at = "idle" /\ latest.at = "idle"
    BY Zenon, <1>6 DEF Clear, ClearHead, ClearTail, ClearCount, Disturbed
  <2>2. pushed' = pushed /\ popper' = popper /\ latest' = latest
    BY <1>6 DEF Clear, ClearHead, ClearTail, ClearCount
  <2>3. CASE ClearHead
    <3>1. writer.at = "idle" /\ writer'.at = "clear_tail" /\ head_' = 0 /\ cleared' = cleared
      BY <1>t, <2>3 DEF ClearHead
    <3> QED BY <1>n, <2>1, <2>2, <3>1
  <2>4. CASE ClearTail
    <3>1. /\ writer.at = "clear_tail" /\ writer'.at = "clear_count"
          /\ head_' = head_ /\ tail_' = 0 /\ cleared' = cleared
      BY <1>t, <2>4 DEF ClearTail
    <3> QED BY <1>0, <1>n, <2>1, <2>2, <3>1
  <2>5. CASE ClearCount
    <3>1. /\ writer.at = "clear_count" /\ writer'.at = "idle"
          /\ count_' = 0 /\ cleared' = pushed.begun
      BY <1>t, <2>5 DEF ClearCount
    <3> QED BY <1>n, <2>1, <2>2, <3>1
  <2> QED BY <1>6, <2>3, <2>4, <2>5 DEF Clear
<1>7. CASE UNCHANGED vars BY <1>7 DEF vars
<1> QED BY <1>1, <1>2, <1>3, <1>4, <1>5, <1>6, <1>7 DEF Next, Pop, Latest
-----------------------------------------------------------------------------
(* get_latest.  The slot behind tail_ holds an element at least as new as  *)
(* the last one completed; a slot is only ever overwritten with the newest *)
(* element, so it still does when it is read later.                        *)
FreshInv ==
  /\ writer.at = "store_tail" => storage_[tail_] = pushed.begun
  /\ writer.at = "inc_count" => storage_[Before(tail_)] = pushed.begun
  /\ ~torn =>
       /\ ~Clearing /\ pushed.completed > cleared =>
            storage_[Before(tail_)] >= pushed.completed
       /\ latest.at # "idle" => cleared < latest.floor /\ latest.floor <= pushed.completed
       /\ latest.at = "read" => storage_[latest.index] >= latest.floor
       /\ latest.at = "return" => latest.msg >= latest.floor

LEMMA FreshInit == Init => FreshInv
<1> SUFFICES ASSUME Init PROVE FreshInv
  OBVIOUS
<1> QED BY DEF Init, FreshInv

LEMMA FreshStep == TypeOK /\ ClearInv /\ FreshInv /\ [Next]_vars => FreshInv'
<1> SUFFICES ASSUME TypeOK, ClearInv, FreshInv, [Next]_vars PROVE FreshInv'
  OBVIOUS
<1>0. Before(tail_) \in Slots /\ After(tail_) \in Slots /\ Before(After(tail_)) = tail_
  BY RingIndex DEF TypeOK
<1>b. ~torn' => ~torn BY TornStays
<1>n. /\ latest.index \in Slots /\ tail_ \in Slots /\ pushed.begun \in Nat
      /\ pushed.completed \in Nat /\ latest.floor \in Nat /\ cleared \in Nat
      /\ \A i \in Slots : storage_[i] \in Nat
  BY RingAssumption DEF TypeOK, RingAssumption
<1>t. /\ writer = [at |-> writer.at, head |-> writer.head]
      /\ latest = [at |-> latest.at, index |-> latest.index, msg |-> latest.msg,
                   floor |-> latest.floor]
      /\ pushed = [begun |-> pushed.begun, completed |-> pushed.completed]
  BY DEF TypeOK
<1>c. cleared <= pushed.completed /\ pushed.completed <= pushed.begun BY DEF ClearInv
<1> USE DEF FreshInv, WriterAt, PopperAt, ring, clears
<1>a. ASSUME UNCHANGED <<storage_, tail_, latest, pushed, cleared, torn>>,
             writer'.at # writer.at => ~Clearing /\ writer'.at \notin {"store_tail", "inc_count"}
      PROVE  FreshInv'
  BY <1>a DEF Before, Clearing
<1>1. CASE PushBegin
  <2>1. writer'.at \in {"load_head", "write"} /\ writer.at = "idle" BY <1>1, <1>t DEF PushBegin
  <2>2. pushed'.begun = pushed.begun + 1 /\ pushed'.completed = pushed.completed
        /\ UNCHANGED <<storage_, tail_, latest, cleared, torn>>
    BY <1>1, <1>t DEF PushBegin
  <2> QED BY <2>1, <2>2 DEF Before, Clearing
<1>2. CASE PushLoadHead \/ PushStoreHead \/ PushDecCount
  <2>1. /\ UNCHANGED <<storage_, tail_, latest, pushed, cleared, torn>>
        /\ writer.at \in {"load_head", "store_head", "dec_count"}
        /\ writer'.at \in {"store_head", "dec_count", "write"}
    BY <1>2, <1>t DEF PushLoadHead, PushStoreHead, PushDecCount
  <2> QED BY <1>a, <2>1 DEF Clearing
<1>5. CASE PushWrite
  <2>1. \A i \in Slots : storage_'[i] = IF i = tail_ THEN pushed.begun ELSE storage_[i]
    BY <1>5 DEF PushWrite, TypeOK
  <2>2. writer.at = "write" /\ writer'.at = "store_tail"
        /\ UNCHANGED <<tail_, latest, pushed, cleared, torn>>
    BY <1>5, <1>t DEF PushWrite
  <2>3. Before(tail_)' = Before(tail_) BY <2>2 DEF Before
  <2> QED BY <1>0, <1>n, <1>c, <2>1, <2>2, <2>3 DEF Clearing
<1>6. CASE PushStoreTail
  <2>1. tail_' = After(tail_) /\ UNCHANGED <<storage_, latest, pushed, cleared, torn>>
        /\ writer.at = "store_tail" /\ writer'.at = "inc_count"
    BY <1>6, <1>t DEF PushStoreTail
  <2>2. Before(tail_)' = tail_ BY <1>0, <2>1 DEF Before
  <2> QED BY <1>n, <1>c, <2>1, <2>2 DEF Clearing
<1>7. CASE PushIncCount
  <2>1. pushed'.begun = pushed.begun /\ pushed'.completed = pushed.begun
        /\ UNCHANGED <<storage_, tail_, latest, cleared, torn>>
        /\ writer.at = "inc_count" /\ writer'.at = "idle"
    BY <1>7, <1>t DEF PushIncCount
  <2>2. Before(tail_)' = Before(tail_) BY <2>1 DEF Before
  <2> QED BY <1>n, <1>c, <2>1, <2>2 DEF Clearing
<1>8. CASE Pop
  <2>1. UNCHANGED <<storage_, tail_, latest, pushed, cleared, writer>>
    BY <1>8 DEF Pop, PopBegin, PopLoadHead, PopRead, PopReloadHead, PopStoreHead, PopDecCount
  <2> QED BY <1>b, <2>1 DEF Before, Clearing
<1>14. CASE LatestBegin
  <2>1. /\ latest.at = "idle" /\ latest'.at = "load_tail" /\ latest'.floor = pushed.completed
        /\ count_ # 0 /\ torn' = (torn \/ Clearing)
        /\ UNCHANGED <<storage_, tail_, writer, pushed, cleared>>
    BY <1>14, <1>t DEF LatestBegin
  <2>2. ~torn' => ~Clearing BY Zenon, <2>1
  <2>3. ~torn' => cleared < pushed.completed BY <1>b, <1>n, <1>c, <2>1, <2>2 DEF ClearInv
  <2>4. Before(tail_)' = Before(tail_) BY <2>1 DEF Before
  <2> QED BY <1>b, <1>n, <2>1, <2>2, <2>3, <2>4 DEF Clearing
<1>15. CASE LatestLoadTail
  <2>1. latest'.index = Before(tail_) /\ latest'.at = "read" /\ latest'.floor = latest.floor
        /\ latest.at = "load_tail" /\ UNCHANGED <<storage_, tail_, pushed, writer, cleared, torn>>
    BY <1>15, <1>t DEF LatestLoadTail, Before
  <2>2. Before(tail_)' = Before(tail_) BY <2>1 DEF Before
  <2>3. ~torn => ~Clearing BY <2>1 DEF ClearInv
  <2> QED BY <1>0, <1>n, <1>c, <2>1, <2>2, <2>3 DEF Clearing
<1>16. CASE LatestRead
  <2>1. latest'.msg = storage_[latest.index] /\ latest'.at = "return"
        /\ latest'.floor = latest.floor /\ latest.at = "read"
        /\ UNCHANGED <<storage_, tail_, pushed, writer, cleared, torn>>
    BY <1>16, <1>t DEF LatestRead
  <2>2. Before(tail_)' = Before(tail_) BY <2>1 DEF Before
  <2> QED BY <2>1, <2>2 DEF Clearing
<1>17. CASE LatestReturn
  <2>1. latest'.at = "idle" /\ UNCHANGED <<storage_, tail_, pushed, writer, cleared, torn>>
    BY <1>17 DEF LatestReturn
  <2>2. Before(tail_)' = Before(tail_) BY <2>1 DEF Before
  <2> QED BY <2>1, <2>2 DEF Clearing
<1>19. CASE Clear
  <2>1. ~torn' => latest.at = "idle"
    BY Zenon, <1>19 DEF Clear, ClearHead, ClearTail, ClearCount, Disturbed
  <2>2. pushed' = pushed /\ latest' = latest
    BY <1>19 DEF Clear, ClearHead, ClearTail, ClearCount
  <2>3. writer'.at \in {"idle", "clear_tail", "clear_count"}
        /\ (writer'.at = "idle" => cleared' = pushed.begun)
    BY <1>19, <1>t DEF Clear, ClearHead, ClearTail, ClearCount
  <2> QED BY <1>n, <1>c, <2>1, <2>2, <2>3 DEF Clearing
<1>18. CASE UNCHANGED vars BY <1>18, <1>a DEF vars
<1> QED BY <1>1, <1>2, <1>5, <1>6, <1>7, <1>8, <1>14, <1>15, <1>16, <1>17, <1>18, <1>19
        DEF Next, Push, Latest

(* get_latest never returns an element older than the last one completed   *)
(* when the call began, nor one from before the last clear, also in a      *)
(* queue that overflows, unless a clear ran during a pop or a get_latest.  *)
THEOREM LatestIsFreshHolds == Spec => []LatestIsFresh
<1>1. Init => TypeOK /\ ClearInv /\ FreshInv BY TypeInit, ClearInit, FreshInit
<1>2. TypeOK /\ ClearInv /\ FreshInv /\ [Next]_vars => TypeOK' /\ ClearInv' /\ FreshInv'
  BY TypeStep, ClearStep, FreshStep
<1>3. TypeOK /\ FreshInv => LatestIsFresh
  BY RingAssumption DEF RingAssumption, TypeOK, FreshInv, LatestIsFresh
<1> QED BY <1>1, <1>2, <1>3, PTL DEF Spec
-----------------------------------------------------------------------------
(* pop, until a push finds the queue full.  Counted from the last clear,   *)
(* element k + 1 lives in slot k modulo the size; the indices and the      *)
(* count follow from how many elements were written and popped since, and  *)
(* from where the two threads are.                                         *)
Written == pushed.begun - cleared - (IF writer.at = "write" THEN 1 ELSE 0)
Stored == pushed.begun - cleared - (IF writer.at \in {"write", "store_tail"} THEN 1 ELSE 0)
Popped == popped - cleared
Freed == Popped + (IF popper.at = "dec_count" THEN 1 ELSE 0)

WriterInv ==
  /\ writer.at \in {"idle", "write", "store_tail", "inc_count", "clear_tail", "clear_count"}
  /\ pushed.begun <= popped + MaxSize
  /\ writer.at # "clear_count" => tail_ = Stored % MaxSize
  /\ cleared <= popped /\ popped + count_ = pushed.completed

PopperInv ==
  /\ ~Clearing => head_ = Freed % MaxSize
  /\ popper.at # "idle" => count_ >= 1 /\ ~Clearing
  /\ popper.at \in {"read", "store_head"} => popper.index = Popped % MaxSize
  /\ popper.at \in {"reload_head", "store_head", "dec_count"} => popper.msg = popped + 1

ContentsInv ==
  \A k \in Nat : Popped <= k /\ k < Written => storage_[k % MaxSize] = cleared + k + 1

OrderInv == ~overflowed /\ ~torn => WriterInv /\ PopperInv /\ ContentsInv

LEMMA OrderInit == Init => OrderInv
<1> SUFFICES ASSUME Init PROVE OrderInv
  OBVIOUS
<1>1. 0 % MaxSize = 0 BY RingAssumption DEF RingAssumption
<1>2. Written = 0 /\ Stored = 0 /\ Freed = 0 /\ Popped = 0
  BY DEF Init, Written, Stored, Freed, Popped
<1>3. WriterInv BY <1>1, <1>2, RingAssumption DEF Init, WriterInv, RingAssumption
<1>4. PopperInv BY <1>1, <1>2 DEF Init, PopperInv, Clearing
<1>5. ContentsInv BY <1>2 DEF Init, ContentsInv
<1> QED BY <1>3, <1>4, <1>5 DEF OrderInv

\* What the invariant says about the numbers, for the steps below.
LEMMA Numbers ==
  ASSUME TypeOK, ClearInv, WriterInv
  PROVE  /\ pushed.begun \in Nat /\ pushed.completed \in Nat /\ popped \in Nat /\ count_ \in Nat
         /\ cleared \in Nat /\ Popped \in Nat
         /\ Written \in Nat /\ Stored \in Nat /\ Freed \in Nat
         /\ pushed.completed <= cleared + Written
         /\ pushed.begun = pushed.completed + (IF writer.at = "idle" \/ Clearing THEN 0 ELSE 1)
         /\ count_ + 1 < CountMod
  BY RingAssumption DEF RingAssumption, TypeOK, ClearInv, WriterInv, Written, Stored, Freed,
     Popped, Clearing

\* The steps of push, while the queue has not been found full.
LEMMA PushKeepsOrder ==
  ASSUME TypeOK, ClearInv, WriterInv, PopperInv, ContentsInv, Push, ~overflowed'
  PROVE  WriterInv' /\ PopperInv' /\ ContentsInv'
<1> USE DEF WriterAt, ring, clears, Clearing
<1>0. /\ pushed.begun \in Nat /\ pushed.completed \in Nat /\ popped \in Nat /\ count_ \in Nat
      /\ cleared \in Nat /\ Popped \in Nat
      /\ Written \in Nat /\ Stored \in Nat /\ Freed \in Nat
      /\ pushed.completed <= cleared + Written /\ count_ + 1 < CountMod
      /\ MaxSize \in Nat \ {0}
  BY Numbers, RingAssumption DEF RingAssumption
<1>p. pushed.begun = pushed.completed + (IF writer.at = "idle" \/ Clearing THEN 0 ELSE 1)
  BY Numbers
<1>t. /\ writer = [at |-> writer.at, head |-> writer.head]
      /\ pushed = [begun |-> pushed.begun, completed |-> pushed.completed]
  BY DEF TypeOK
<1>a. writer.at \in {"idle", "write", "store_tail", "inc_count", "clear_tail", "clear_count"}
  BY DEF WriterInv
<1>1. CASE PushBegin
  <2>1. count_ < MaxSize /\ writer.at = "idle" /\ writer'.at = "write"
    BY <1>0, <1>1, <1>t DEF PushBegin
  <2>2. /\ pushed'.begun = pushed.begun + 1 /\ pushed'.completed = pushed.completed
        /\ UNCHANGED <<storage_, head_, tail_, count_, popper, popped, cleared>>
    BY <1>1, <1>t DEF PushBegin
  <2>3. Written' = Written /\ Stored' = Stored /\ Freed' = Freed /\ Popped' = Popped
    BY <1>0, <2>1, <2>2 DEF Written, Stored, Freed, Popped
  <2>4. WriterInv' BY <1>0, <1>p, <2>1, <2>2, <2>3 DEF WriterInv
  <2>5. PopperInv' BY <2>1, <2>2, <2>3 DEF PopperInv
  <2>6. ContentsInv' BY <2>2, <2>3 DEF ContentsInv
  <2> QED BY <2>4, <2>5, <2>6
<1>2. CASE PushWrite
  <2>1. writer.at = "write" /\ writer'.at = "store_tail" BY <1>2, <1>t DEF PushWrite
  <2>2. UNCHANGED <<head_, tail_, count_, popper, pushed, popped, cleared>> BY <1>2 DEF PushWrite
  <2>3. Written' = pushed.begun - cleared /\ Stored' = Stored /\ Freed' = Freed /\ Popped' = Popped
        /\ Stored = pushed.begun - cleared - 1 /\ Written = pushed.begun - cleared - 1
    BY <1>0, <2>1, <2>2 DEF Written, Stored, Freed, Popped
  <2>4. WriterInv' BY <1>0, <1>p, <2>1, <2>2, <2>3 DEF WriterInv
  <2>5. PopperInv' BY <2>1, <2>2, <2>3 DEF PopperInv
  <2>6. ASSUME NEW k \in Nat, Popped <= k, k < Written'
        PROVE  storage_'[k % MaxSize] = cleared' + k + 1
    <3>1. k % MaxSize \in Slots BY <1>0 DEF Slots
    <3>2. storage_'[k % MaxSize] =
            IF k % MaxSize = tail_ THEN pushed.begun ELSE storage_[k % MaxSize]
      BY <1>2, <3>1 DEF PushWrite, TypeOK
    <3>3. CASE k = Stored BY <1>0, <2>1, <2>2, <2>3, <3>2, <3>3 DEF WriterInv
    <3>4. CASE k # Stored
      <4>1. k < Stored /\ Stored < k + MaxSize
        BY <1>0, <2>3, <2>6, <3>4 DEF WriterInv, Popped
      <4>2. k % MaxSize # Stored % MaxSize BY <1>0, <4>1, SlotsApart
      <4>3. storage_[k % MaxSize] = cleared + k + 1 BY <1>0, <2>3, <2>6, <4>1 DEF ContentsInv
      <4>4. tail_ = Stored % MaxSize BY <2>1 DEF WriterInv
      <4>5. storage_'[k % MaxSize] = storage_[k % MaxSize] BY <3>2, <4>2, <4>4
      <4>6. cleared' = cleared BY <2>2
      <4> QED BY Zenon, <4>3, <4>5, <4>6
    <3> QED BY <3>3, <3>4
  <2>7. ContentsInv' BY <2>2, <2>3, <2>6 DEF ContentsInv
  <2> QED BY <2>4, <2>5, <2>7
<1>3. CASE PushStoreTail
  <2>1. writer.at = "store_tail" /\ writer'.at = "inc_count" BY <1>3, <1>t DEF PushStoreTail
  <2>2. tail_' = After(tail_) /\ UNCHANGED <<storage_, head_, count_, popper, pushed, popped, cleared>>
    BY <1>3 DEF PushStoreTail
  <2>3. Written' = Written /\ Stored' = Stored + 1 /\ Freed' = Freed /\ Popped' = Popped
    BY <1>0, <2>1, <2>2 DEF Written, Stored, Freed, Popped
  <2>4. tail_' = (Stored + 1) % MaxSize BY <1>0, <2>1, <2>2, IndexOfNext DEF WriterInv, After
  <2>5. WriterInv' BY <1>0, <1>p, <2>1, <2>2, <2>3, <2>4 DEF WriterInv
  <2>6. PopperInv' BY <2>1, <2>2, <2>3 DEF PopperInv
  <2>7. ContentsInv' BY <2>2, <2>3 DEF ContentsInv
  <2> QED BY <2>5, <2>6, <2>7
<1>4. CASE PushIncCount
  <2>1. writer.at = "inc_count" /\ writer'.at = "idle" BY <1>4, <1>t DEF PushIncCount
  <2>2. /\ pushed'.begun = pushed.begun /\ pushed'.completed = pushed.begun
        /\ UNCHANGED <<storage_, head_, tail_, popper, popped, cleared>>
    BY <1>4, <1>t DEF PushIncCount
  <2>3. count_' = count_ + 1
    <3>1. count_ \in 0..(CountMod - 1) BY DEF TypeOK
    <3> QED BY <1>0, <1>4, <3>1, CountUp DEF PushIncCount
  <2>4. Written' = Written /\ Stored' = Stored /\ Freed' = Freed /\ Popped' = Popped
    BY <1>0, <2>1, <2>2 DEF Written, Stored, Freed, Popped
  <2>5. WriterInv' BY <1>0, <1>p, <2>1, <2>2, <2>3, <2>4 DEF WriterInv
  <2>6. PopperInv' BY <1>0, <2>1, <2>2, <2>3, <2>4 DEF PopperInv
  <2>7. ContentsInv' BY <2>2, <2>4 DEF ContentsInv
  <2> QED BY <2>5, <2>6, <2>7
<1>5. ~PushLoadHead /\ ~PushStoreHead /\ ~PushDecCount
  BY <1>a DEF PushLoadHead, PushStoreHead, PushDecCount
<1> QED BY <1>1, <1>2, <1>3, <1>4, <1>5 DEF Push

\* The steps of pop.
LEMMA PopKeepsOrder ==
  ASSUME TypeOK, ClearInv, WriterInv, PopperInv, ContentsInv, Pop, ~Clearing
  PROVE  WriterInv' /\ PopperInv' /\ ContentsInv'
<1> USE DEF PopperAt, ring, clears, Clearing
<1>0. /\ pushed.begun \in Nat /\ pushed.completed \in Nat /\ popped \in Nat /\ count_ \in Nat
      /\ cleared \in Nat /\ Popped \in Nat
      /\ Written \in Nat /\ Stored \in Nat /\ Freed \in Nat
      /\ pushed.completed <= cleared + Written /\ count_ + 1 < CountMod
      /\ MaxSize \in Nat \ {0}
  BY Numbers, RingAssumption DEF RingAssumption
<1>p. pushed.begun = pushed.completed + (IF writer.at = "idle" \/ Clearing THEN 0 ELSE 1)
  BY Numbers
<1>t. popper = [at |-> popper.at, index |-> popper.index, msg |-> popper.msg]
  BY DEF TypeOK
<1>a. ASSUME UNCHANGED <<ring, writer, pushed, popped, cleared>>, Freed' = Freed /\ Popped' = Popped
      PROVE  WriterInv' /\ ContentsInv' /\ head_' = Freed' % MaxSize
  <2>1. Written' = Written /\ Stored' = Stored BY <1>a DEF Written, Stored
  <2>2. WriterInv' BY <1>a, <2>1 DEF WriterInv
  <2>3. ContentsInv' BY <1>a, <2>1 DEF ContentsInv
  <2> QED BY <1>a, <2>2, <2>3 DEF PopperInv
<1>1. CASE PopBegin
  <2>1. popper.at = "idle" /\ popper'.at = "load_head" /\ count_ # 0
        /\ UNCHANGED <<ring, writer, pushed, popped, cleared>>
    BY <1>1, <1>t DEF PopBegin
  <2>2. Freed' = Freed /\ Popped' = Popped BY <2>1 DEF Freed, Popped
  <2> QED BY <1>0, <1>a, <2>1, <2>2 DEF PopperInv
<1>2. CASE PopLoadHead
  <2>1. popper.at = "load_head" /\ popper'.at = "read" /\ popper'.index = head_
        /\ UNCHANGED <<ring, writer, pushed, popped, cleared>>
    BY <1>2, <1>t DEF PopLoadHead
  <2>2. Freed' = Freed /\ Popped' = Popped /\ Freed = Popped BY <1>0, <2>1 DEF Freed, Popped
  <2> QED BY <1>a, <2>1, <2>2 DEF PopperInv
<1>3. CASE PopRead
  <2>1. popper.at = "read" /\ popper'.at = "reload_head" /\ popper'.msg = storage_[popper.index]
        /\ UNCHANGED <<ring, writer, pushed, popped, cleared>>
    BY <1>3, <1>t DEF PopRead
  <2>2. Freed' = Freed /\ Popped' = Popped BY <2>1 DEF Freed, Popped
  <2>3. Popped < Written BY <1>0, <2>1 DEF PopperInv, WriterInv, Popped
  <2>4. storage_[Popped % MaxSize] = popped + 1
    <3>1. Popped \in Nat /\ Popped <= Popped BY <1>0
    <3>2. storage_[Popped % MaxSize] = cleared + Popped + 1 BY Zenon, <3>1, <2>3 DEF ContentsInv
    <3>3. cleared + Popped + 1 = popped + 1 BY <1>0 DEF Popped
    <3> QED BY <3>2, <3>3
  <2>5. popper'.msg = popped + 1 BY <2>1, <2>4 DEF PopperInv
  <2> QED BY <1>a, <2>1, <2>2, <2>5 DEF PopperInv
<1>4. CASE PopReloadHead
  <2>1. popper.at = "reload_head" /\ popper'.at = "store_head" /\ popper'.index = head_
        /\ popper'.msg = popper.msg /\ UNCHANGED <<ring, writer, pushed, popped, cleared>>
    BY <1>4, <1>t DEF PopReloadHead
  <2>2. Freed' = Freed /\ Popped' = Popped /\ Freed = Popped BY <1>0, <2>1 DEF Freed, Popped
  <2> QED BY <1>a, <2>1, <2>2 DEF PopperInv
<1>5. CASE PopStoreHead
  <2>1. popper.at = "store_head" /\ popper'.at = "dec_count" /\ popper'.msg = popper.msg
        /\ head_' = After(popper.index)
        /\ UNCHANGED <<storage_, tail_, count_, writer, pushed, popped, cleared>>
    BY <1>5, <1>t DEF PopStoreHead
  <2>2. Freed' = Popped + 1 /\ Popped' = Popped /\ Written' = Written /\ Stored' = Stored
    BY <2>1 DEF Freed, Popped, Written, Stored
  <2>3. head_' = (Popped + 1) % MaxSize
    BY <1>0, <2>1, IndexOfNext DEF PopperInv, After
  <2>4. WriterInv' BY <2>1, <2>2 DEF WriterInv
  <2>5. PopperInv' BY <2>1, <2>2, <2>3 DEF PopperInv
  <2>6. ContentsInv' BY <2>1, <2>2 DEF ContentsInv
  <2> QED BY <2>4, <2>5, <2>6
<1>6. CASE PopDecCount
  <2>1. popper.at = "dec_count" /\ popper'.at = "idle" /\ popped' = popped + 1
        /\ UNCHANGED <<storage_, head_, tail_, writer, pushed, cleared>>
    BY <1>6 DEF PopDecCount
  <2>2. count_ >= 1 /\ count_' = count_ - 1
    <3>1. count_ \in 0..(CountMod - 1) BY DEF TypeOK
    <3>2. count_ >= 1 BY <2>1 DEF PopperInv
    <3> QED BY <1>6, <3>1, <3>2, CountDown DEF PopDecCount
  <2>3. Freed' = Freed /\ Popped' = Popped + 1 /\ Written' = Written /\ Stored' = Stored
    BY <1>0, <2>1 DEF Freed, Popped, Written, Stored
  <2>4. WriterInv' BY <1>0, <1>p, <2>1, <2>2, <2>3 DEF WriterInv
  <2>5. PopperInv' BY <2>1, <2>3 DEF PopperInv
  <2>6. ASSUME NEW k \in Nat, Popped' <= k, k < Written'
        PROVE  storage_'[k % MaxSize] = cleared' + k + 1
    <3>1. Popped <= k /\ k < Written BY <1>0, <2>1, <2>3, <2>6
    <3> QED BY <2>1, <3>1 DEF ContentsInv
  <2>7. ContentsInv' BY <2>6 DEF ContentsInv
  <2> QED BY <2>4, <2>5, <2>7
<1> QED BY <1>1, <1>2, <1>3, <1>4, <1>5, <1>6 DEF Pop

\* A clear that meets no pop empties the ring, whatever was in it.
LEMMA ClearMakesOrder ==
  ASSUME TypeOK, ClearInv, OrderInv, Clear, ~overflowed', ~torn, ~torn'
  PROVE  WriterInv' /\ PopperInv' /\ ContentsInv'
<1> USE DEF WriterAt, ring, Clearing
<1>1. popper.at = "idle"
  BY Zenon DEF Clear, ClearHead, ClearTail, ClearCount, Disturbed
<1>n. /\ pushed.begun \in Nat /\ pushed.completed \in Nat /\ cleared \in Nat
      /\ pushed = [begun |-> pushed.begun, completed |-> pushed.completed]
      /\ writer = [at |-> writer.at, head |-> writer.head]
      /\ MaxSize \in Nat \ {0}
  BY RingAssumption DEF RingAssumption, TypeOK
<1>2. CASE ClearHead \/ ClearTail
  <2>1. /\ UNCHANGED <<storage_, count_, popper, pushed, popped, cleared, overflowed>>
        /\ writer.at \in {"idle", "clear_tail"} /\ writer'.at \in {"clear_tail", "clear_count"}
        /\ (writer'.at = "clear_tail" => tail_' = tail_)
    BY <1>2, <1>n DEF ClearHead, ClearTail
  <2>2. WriterInv /\ PopperInv /\ ContentsInv BY <2>1 DEF OrderInv
  <2>3. Written' = Written /\ Stored' = Stored /\ Freed' = Freed /\ Popped' = Popped
    BY <2>1 DEF Written, Stored, Freed, Popped
  <2>4. WriterInv' BY <2>1, <2>2, <2>3 DEF WriterInv
  <2>5. PopperInv' BY <1>1, <2>1, <2>2, <2>3 DEF PopperInv
  <2>6. ContentsInv' BY <2>1, <2>2, <2>3 DEF ContentsInv
  <2> QED BY <2>4, <2>5, <2>6
<1>3. CASE ClearCount
  <2>1. /\ writer.at = "clear_count" /\ writer'.at = "idle"
        /\ head_' = 0 /\ tail_' = 0 /\ count_' = 0
        /\ popper' = popper /\ pushed' = pushed
        /\ popped' = pushed.begun /\ cleared' = pushed.begun
    BY <1>3, <1>n DEF ClearCount, ClearInv
  <2>2. pushed.completed = pushed.begun BY <2>1, <1>n DEF ClearInv
  <2>3. Written' = 0 /\ Stored' = 0 /\ Freed' = 0 /\ Popped' = 0
    BY <1>1, <1>n, <2>1 DEF Written, Stored, Freed, Popped
  <2>4. 0 % MaxSize = 0 BY <1>n
  <2>5. WriterInv' BY <1>n, <2>1, <2>2, <2>3, <2>4 DEF WriterInv
  <2>6. PopperInv' BY <1>1, <2>1, <2>3, <2>4 DEF PopperInv
  <2>7. ContentsInv' BY <2>3 DEF ContentsInv
  <2> QED BY <2>5, <2>6, <2>7
<1> QED BY <1>2, <1>3 DEF Clear

LEMMA OrderStep == TypeOK /\ ClearInv /\ OrderInv /\ [Next]_vars => OrderInv'
<1> SUFFICES ASSUME TypeOK, ClearInv, OrderInv, [Next]_vars, ~overflowed', ~torn'
             PROVE  WriterInv' /\ PopperInv' /\ ContentsInv'
  BY DEF OrderInv
<1>0. ~torn BY TornStays
<1>1. ~Clear => ~overflowed
  BY DEF Next, Push, Pop, Latest, vars, TypeOK, PushBegin, PushLoadHead, PushStoreHead,
         PushDecCount, PushWrite, PushStoreTail, PushIncCount, PopBegin, PopLoadHead, PopRead,
         PopReloadHead, PopStoreHead, PopDecCount, LatestBegin, LatestLoadTail, LatestRead,
         LatestReturn
<1>2. CASE Clear BY <1>0, <1>2, ClearMakesOrder
<1>b. CASE ~Clear
  <2>0. WriterInv /\ PopperInv /\ ContentsInv BY <1>0, <1>1, <1>b DEF OrderInv
  <2>3. CASE Push BY <2>0, <2>3, PushKeepsOrder
  <2>4. CASE Pop
    <3>1. ~Clearing
      <4>1. PopBegin => ~Clearing
        <5>1. PopBegin => torn' = (torn \/ Clearing) BY DEF PopBegin
        <5> QED BY Zenon, <5>1
      <4>2. ~PopBegin => popper.at # "idle"
        BY <2>4 DEF Pop, PopLoadHead, PopRead, PopReloadHead, PopStoreHead, PopDecCount, PopperAt
      <4> QED BY <2>0, <4>1, <4>2 DEF PopperInv
    <3> QED BY <2>0, <2>4, <3>1, PopKeepsOrder
  <2>5. ASSUME UNCHANGED <<ring, writer, popper, pushed, popped, cleared>>
        PROVE  WriterInv' /\ PopperInv' /\ ContentsInv'
    <3>1. Written' = Written /\ Stored' = Stored /\ Freed' = Freed /\ Popped' = Popped
      BY <2>5 DEF Written, Stored, Freed, Popped
    <3> QED BY <2>0, <2>5, <3>1 DEF ring, WriterInv, PopperInv, ContentsInv, Clearing
  <2>6. CASE Latest
    BY <2>5, <2>6 DEF Latest, LatestBegin, LatestLoadTail, LatestRead, LatestReturn, clears
  <2>7. CASE UNCHANGED vars BY <2>5, <2>7 DEF vars, clears
  <2> QED BY <1>b, <2>3, <2>4, <2>6, <2>7 DEF Next
<1> QED BY <1>2, <1>b

(* As long as no push found the queue full since the last clear, and no    *)
(* clear ran during a pop or a get_latest, the lock-free pop returns every *)
(* element once and in order, nothing from before the clear, and count_    *)
(* never wraps around.                                                     *)
THEOREM InOrderUntilFullHolds == Spec => []InOrderUntilFull
<1>1. Init => TypeOK /\ ClearInv /\ OrderInv BY TypeInit, ClearInit, OrderInit
<1>2. TypeOK /\ ClearInv /\ OrderInv /\ [Next]_vars => TypeOK' /\ ClearInv' /\ OrderInv'
  BY TypeStep, ClearStep, OrderStep
<1>3. TypeOK /\ ClearInv /\ OrderInv => InOrderUntilFull
  <2> SUFFICES ASSUME TypeOK, ClearInv, OrderInv, ~overflowed, ~torn
               PROVE  /\ popper.at \in {"reload_head", "store_head", "dec_count"}
                           => popper.msg = popped + 1
                      /\ popped + count_ <= pushed.begun
                      /\ count_ <= MaxSize
    BY DEF InOrderUntilFull
  <2>1. WriterInv /\ PopperInv BY DEF OrderInv
  <2> QED BY <2>1, RingAssumption DEF RingAssumption, TypeOK, ClearInv, WriterInv, PopperInv
<1> QED BY <1>1, <1>2, <1>3, PTL DEF Spec
=============================================================================
