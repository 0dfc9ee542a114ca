------------------------------- MODULE RcuQueue -------------------------------
(***************************************************************************)
(* Ten::RCUQueue (lidar.h): the ring through which the LiDAR driver and the *)
(* odometry thread hand IMU samples, point clouds and poses to the threads  *)
(* that use them.  One call of push or clear at a time, which take the      *)
(* mutex; one thread pops without it, one asks for the latest element.      *)
(*                                                                         *)
(* A step is one access to one of the atomics head_, tail_, count_ or to a  *)
(* slot: a slot is replaced as a whole (Ten_one_write_multiple_read), but   *)
(* "head_ = (head_.load() + 1) % max_size_" is a load and a store.          *)
(*                                                                         *)
(* Element k is the k-th one pushed; 0 is the element slots are born with.  *)
(***************************************************************************)
EXTENDS Naturals

CONSTANTS MaxSize,    \* max_size_
          CountMod,   \* size_t counts modulo this, 2^64 in the code
          MaxPush     \* bound: elements pushed

ASSUME RingAssumption ==
  MaxSize \in Nat \ {0} /\ CountMod \in Nat /\ CountMod > MaxSize + 1 /\ MaxPush \in Nat

VARIABLES storage_, head_, tail_, count_,
          writer,    \* push or clear: where it is, the head it loaded
          popper,    \* pop: where it is, the index it loaded, the element it read
          latest,    \* get_latest: likewise
          pushed,    \* history: pushes begun and completed
          popped,    \* history: the elements popped or cleared away
          cleared,   \* history: the elements pushed before the last clear
          overflowed, \* history: since then a push found the queue full
          torn       \* history: a clear and a pop or get_latest overlapped

ring == <<storage_, head_, tail_, count_>>
clears == <<cleared, torn>>
vars == <<ring, writer, popper, latest, pushed, popped, overflowed, clears>>

Slots == 0..(MaxSize - 1)
After(i) == (i + 1) % MaxSize
Clearing == writer.at \in {"clear_tail", "clear_count"}
Decremented(n) == (n + CountMod - 1) % CountMod

Init ==
  /\ storage_ = [i \in Slots |-> 0]
  /\ head_ = 0 /\ tail_ = 0 /\ count_ = 0
  /\ writer = [at |-> "idle", head |-> 0]
  /\ popper = [at |-> "idle", index |-> 0, msg |-> 0]
  /\ latest = [at |-> "idle", index |-> 0, msg |-> 0, floor |-> 0]
  /\ pushed = [begun |-> 0, completed |-> 0]
  /\ popped = 0 /\ cleared = 0
  /\ overflowed = FALSE /\ torn = FALSE
-----------------------------------------------------------------------------
(* push.                                                                   *)

WriterAt(p, q) == writer.at = p /\ writer' = [writer EXCEPT !.at = q]

PushBegin ==
  /\ pushed.begun < MaxPush
  /\ pushed' = [pushed EXCEPT !.begun = @ + 1]
  /\ IF count_ >= MaxSize
       THEN WriterAt("idle", "load_head") /\ overflowed' = TRUE
       ELSE WriterAt("idle", "write") /\ UNCHANGED overflowed
  /\ UNCHANGED <<ring, popper, latest, popped, clears>>

PushLoadHead ==
  /\ writer.at = "load_head"
  /\ writer' = [at |-> "store_head", head |-> head_]
  /\ UNCHANGED <<ring, popper, latest, pushed, popped, overflowed, clears>>

PushStoreHead ==
  /\ WriterAt("store_head", "dec_count")
  /\ head_' = After(writer.head)
  /\ UNCHANGED <<storage_, tail_, count_, popper, latest, pushed, popped, overflowed, clears>>

PushDecCount ==
  /\ WriterAt("dec_count", "write")
  /\ count_' = Decremented(count_)
  /\ UNCHANGED <<storage_, head_, tail_, popper, latest, pushed, popped, overflowed, clears>>

PushWrite ==
  /\ WriterAt("write", "store_tail")
  /\ storage_' = [storage_ EXCEPT ![tail_] = pushed.begun]
  /\ UNCHANGED <<head_, tail_, count_, popper, latest, pushed, popped, overflowed, clears>>

PushStoreTailNoWrap ==
  /\ WriterAt("store_tail", "inc_count")
  /\ tail_' = tail_ + 1
  /\ UNCHANGED <<storage_, head_, count_, popper, latest, pushed, popped, overflowed, clears>>

\* Only the writer stores tail_, so its load and store are one step.
PushStoreTail ==
  /\ WriterAt("store_tail", "inc_count")
  /\ tail_' = After(tail_)
  /\ UNCHANGED <<storage_, head_, count_, popper, latest, pushed, popped, overflowed, clears>>

PushIncCountNot ==
  /\ WriterAt("inc_count", "idle")
  /\ pushed' = [pushed EXCEPT !.completed = pushed.begun]
  /\ UNCHANGED <<ring, popper, latest, popped, overflowed, clears>>

PushIncCount ==
  /\ WriterAt("inc_count", "idle")
  /\ count_' = (count_ + 1) % CountMod
  /\ pushed' = [pushed EXCEPT !.completed = pushed.begun]
  /\ UNCHANGED <<storage_, head_, tail_, popper, latest, popped, overflowed, clears>>
-----------------------------------------------------------------------------
(* pop: no lock.                                                           *)

PopperAt(p, q) == popper.at = p /\ popper' = [popper EXCEPT !.at = q]

PopBeginUnchecked ==
  /\ PopperAt("idle", "load_head")
  /\ UNCHANGED <<ring, writer, latest, pushed, popped, overflowed, cleared>>
  /\ torn' = (torn \/ Clearing)

\* An empty queue ends the call; it has no effect.
PopBegin ==
  /\ count_ # 0
  /\ PopperAt("idle", "load_head")
  /\ UNCHANGED <<ring, writer, latest, pushed, popped, overflowed, cleared>>
  /\ torn' = (torn \/ Clearing)

PopLoadHead ==
  /\ popper.at = "load_head"
  /\ popper' = [popper EXCEPT !.at = "read", !.index = head_]
  /\ UNCHANGED <<ring, writer, latest, pushed, popped, overflowed, clears>>

PopRead ==
  /\ popper.at = "read"
  /\ popper' = [popper EXCEPT !.at = "reload_head", !.msg = storage_[popper.index]]
  /\ UNCHANGED <<ring, writer, latest, pushed, popped, overflowed, clears>>

PopReloadHead ==
  /\ popper.at = "reload_head"
  /\ popper' = [popper EXCEPT !.at = "store_head", !.index = head_]
  /\ UNCHANGED <<ring, writer, latest, pushed, popped, overflowed, clears>>

PopStoreHead ==
  /\ PopperAt("store_head", "dec_count")
  /\ head_' = After(popper.index)
  /\ UNCHANGED <<storage_, tail_, count_, writer, latest, pushed, popped, overflowed, clears>>

PopDecCount ==
  /\ popper.at = "dec_count"
  /\ popper' = [at |-> "idle", index |-> 0, msg |-> 0]
  /\ count_' = Decremented(count_)
  /\ popped' = popped + 1
  /\ UNCHANGED <<storage_, head_, tail_, writer, latest, pushed, overflowed, clears>>
-----------------------------------------------------------------------------
(* get_latest: no lock.                                                    *)

LatestBegin ==
  /\ latest.at = "idle"
  /\ count_ # 0
  /\ latest' = [latest EXCEPT !.at = "load_tail", !.floor = pushed.completed]
  /\ UNCHANGED <<ring, writer, popper, pushed, popped, overflowed, cleared>>
  /\ torn' = (torn \/ Clearing)

LatestLoadTailOldest ==
  /\ latest.at = "load_tail"
  /\ latest' = [latest EXCEPT !.at = "read", !.index = tail_]
  /\ UNCHANGED <<ring, writer, popper, pushed, popped, overflowed, clears>>

LatestLoadTail ==
  /\ latest.at = "load_tail"
  /\ latest' = [latest EXCEPT !.at = "read", !.index = (tail_ + MaxSize - 1) % MaxSize]
  /\ UNCHANGED <<ring, writer, popper, pushed, popped, overflowed, clears>>

LatestRead ==
  /\ latest.at = "read"
  /\ latest' = [latest EXCEPT !.at = "return", !.msg = storage_[latest.index]]
  /\ UNCHANGED <<ring, writer, popper, pushed, popped, overflowed, clears>>

LatestReturn ==
  /\ latest.at = "return"
  /\ latest' = [at |-> "idle", index |-> 0, msg |-> 0, floor |-> 0]
  /\ UNCHANGED <<ring, writer, popper, pushed, popped, overflowed, clears>>
-----------------------------------------------------------------------------
(* clear: under the mutex, so never during a push.                         *)

Disturbed == torn' = (torn \/ popper.at # "idle" \/ latest.at # "idle")

\* Mutant: head_ is forgotten.
ClearHeadNot ==
  /\ WriterAt("idle", "clear_tail")
  /\ Disturbed
  /\ UNCHANGED <<ring, popper, latest, pushed, popped, cleared, overflowed>>

ClearHead ==
  /\ WriterAt("idle", "clear_tail")
  /\ head_' = 0
  /\ Disturbed
  /\ UNCHANGED <<storage_, tail_, count_, popper, latest, pushed, popped, cleared, overflowed>>

ClearTail ==
  /\ WriterAt("clear_tail", "clear_count")
  /\ tail_' = 0
  /\ Disturbed
  /\ UNCHANGED <<storage_, head_, count_, popper, latest, pushed, popped, cleared, overflowed>>

ClearCount ==
  /\ WriterAt("clear_count", "idle")
  /\ count_' = 0
  /\ popped' = pushed.begun /\ cleared' = pushed.begun /\ overflowed' = FALSE
  /\ Disturbed
  /\ UNCHANGED <<storage_, head_, tail_, popper, latest, pushed>>

Push == PushBegin \/ PushLoadHead \/ PushStoreHead \/ PushDecCount \/ PushWrite
          \/ PushStoreTail \/ PushIncCount
Pop == PopBegin \/ PopLoadHead \/ PopRead \/ PopReloadHead \/ PopStoreHead \/ PopDecCount
Latest == LatestBegin \/ LatestLoadTail \/ LatestRead \/ LatestReturn
Clear == ClearHead \/ ClearTail \/ ClearCount

Next == Push \/ Pop \/ Latest \/ Clear

Spec == Init /\ [][Next]_vars

(* A push or clear that was begun completes, and the consumer polls for ever. *)
FairSpec == Spec /\ WF_vars(Push \/ ClearTail \/ ClearCount) /\ WF_vars(Pop)
-----------------------------------------------------------------------------
TypeOK ==
  /\ storage_ \in [Slots -> 0..MaxPush]
  /\ head_ \in Slots /\ tail_ \in Slots /\ count_ \in 0..(CountMod - 1)
  /\ writer \in [at : {"idle", "load_head", "store_head", "dec_count", "write",
                       "store_tail", "inc_count", "clear_tail", "clear_count"},
                 head : Slots]
  /\ popper \in [at : {"idle", "load_head", "read", "reload_head", "store_head", "dec_count"},
                 index : Slots, msg : 0..MaxPush]
  /\ latest \in [at : {"idle", "load_tail", "read", "return"}, index : Slots,
                 msg : 0..MaxPush, floor : 0..MaxPush]
  /\ pushed \in [begun : 0..MaxPush, completed : 0..MaxPush]
  /\ popped \in Nat /\ cleared \in 0..MaxPush
  /\ overflowed \in BOOLEAN /\ torn \in BOOLEAN

(* As long as no push found the queue full since the last clear, the        *)
(* lock-free pop returns every element exactly once and in order, nothing   *)
(* from before that clear, and the count never wraps below zero, however    *)
(* push, pop, get_latest and clear follow each other and push and pop       *)
(* interleave; only a clear during a call of pop or get_latest is excepted. *)
InOrderUntilFull ==
  ~overflowed /\ ~torn =>
    /\ popper.at \in {"reload_head", "store_head", "dec_count"} => popper.msg = popped + 1
    /\ popped + count_ <= pushed.begun
    /\ count_ <= MaxSize

(* get_latest never returns an element older than the last one whose push   *)
(* was complete when the call began, nor one from before the last clear,    *)
(* even while the ring wraps around it; with the same exception.            *)
LatestIsFresh ==
  latest.at = "return" /\ ~torn => latest.msg >= latest.floor /\ latest.msg > cleared

(* What is pushed is popped, unless it was cleared, the queue overflowed or *)
(* a clear met a pop.                                                      *)
PushedIsPopped ==
  \A k \in 1..MaxPush : pushed.completed >= k ~> (popped >= k \/ overflowed \/ torn)

(* The comment in clear says that its lock keeps the writing operations of  *)
(* the queue apart.  pop writes head_ and count_ without the lock: its      *)
(* decrement after a clear wraps the count around.                          *)
ClearExcludesWriters == ~overflowed => count_ <= MaxSize
=============================================================================
