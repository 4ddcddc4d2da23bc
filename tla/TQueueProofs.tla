---------------------------- MODULE TQueueProofs ----------------------------
(***************************************************************************)
(* Proofs about tqueue for any number of threads and items: no wakeup is   *)
(* lost, and it is a first-in first-out queue.                             *)
(***************************************************************************)
EXTENDS TQueue, FiniteSetTheorems, SequenceTheorems, TLAPS

(* The inductive invariant.  WakeupsSuffice counts threads, so it needs    *)
(* that nobody is waiting and woken at once, which TypeOK says.            *)
IInv == TypeOK /\ WakeupsSuffice /\ NoSleeperInNonblock

(* Only finitely many threads are on their way. *)
LEMMA Finite ==
  ASSUME TypeOK
  PROVE  /\ IsFiniteSet(waiting) /\ IsFiniteSet(woken) /\ IsFiniteSet(signalling)
         /\ Cardinality(woken) \in Nat /\ Cardinality(signalling) \in Nat
BY TQueueAssumption, FS_Subset, FS_CardinalityType DEF TypeOK

(* The thread that a signal or a spurious wakeup moves is counted once. *)
LEMMA WakeOne ==
  ASSUME TypeOK, NEW t \in waiting
  PROVE  Cardinality(woken \cup {t}) = Cardinality(woken) + 1
<1>1. IsFiniteSet(woken)
  BY Finite
<1>2. t \notin woken
  BY DEF TypeOK
<1> QED
  BY <1>1, <1>2, FS_AddElement

LEMMA InitIInv == Init => IInv
<1> SUFFICES ASSUME Init PROVE IInv
  OBVIOUS
<1>1. TypeOK
  BY TQueueAssumption DEF Init, TypeOK
<1>2. WakeupsSuffice /\ NoSleeperInNonblock
  BY DEF Init, WakeupsSuffice, NoSleeperInNonblock
<1> QED
  BY <1>1, <1>2 DEF IInv

LEMMA NextTypeOK == TypeOK /\ [Next]_vars => TypeOK'
<1> SUFFICES ASSUME TypeOK, [Next]_vars PROVE TypeOK'
  OBVIOUS
<1> USE TQueueAssumption DEF TypeOK
<1>1. ASSUME NEW p \in Pushers, NEW x \in Items, Push(p, x) PROVE TypeOK'
  BY <1>1 DEF Push
<1>2. ASSUME NEW p \in Pushers, Signal(p) PROVE TypeOK'
  BY <1>2 DEF Signal
<1>3. ASSUME NEW t \in Poppers, Take(t) PROVE TypeOK'
  <2>1. Head(q) \in Items /\ Tail(q) \in Seq(Items)
    BY <1>3, HeadTailProperties DEF Take
  <2> QED
    BY <1>3, <2>1 DEF Take
<1>4. ASSUME NEW t \in Poppers, Wait(t) PROVE TypeOK'
  BY <1>4 DEF Wait
<1>5. ASSUME NEW t \in Poppers, GiveUp(t) PROVE TypeOK'
  BY <1>5 DEF GiveUp
<1>6. ASSUME NEW t \in Poppers, SpuriousWakeup(t) PROVE TypeOK'
  BY <1>6 DEF SpuriousWakeup
<1>7. ASSUME NEW m \in Switchers, NEW mode \in BOOLEAN, Switch(m, mode) PROVE TypeOK'
  BY <1>7 DEF Switch
<1>8. ASSUME NEW m \in Switchers, Broadcast(m) PROVE TypeOK'
  BY <1>8 DEF Broadcast
<1>9. CASE UNCHANGED vars
  BY <1>9 DEF vars
<1> QED
  BY <1>1, <1>2, <1>3, <1>4, <1>5, <1>6, <1>7, <1>8, <1>9 DEF Next, PopStep

LEMMA NextWakeups == TypeOK /\ WakeupsSuffice /\ [Next]_vars => WakeupsSuffice'
<1> SUFFICES ASSUME TypeOK, WakeupsSuffice, [Next]_vars, waiting' # {}
             PROVE  Len(q') <= Cardinality(signalling') + Cardinality(woken')
  BY DEF WakeupsSuffice
<1> DEFINE Goal == Len(q') <= Cardinality(signalling') + Cardinality(woken')
<1>0. /\ Cardinality(woken) \in Nat /\ Cardinality(signalling) \in Nat
      /\ IsFiniteSet(woken) /\ IsFiniteSet(signalling)
      /\ q \in Seq(Items) /\ Len(q) \in Nat
  BY Finite, LenProperties DEF TypeOK
<1>1. ASSUME NEW p \in Pushers, NEW x \in Items, Push(p, x) PROVE Goal
  <2>1. Cardinality(signalling') = Cardinality(signalling) + 1
    BY <1>0, <1>1, FS_AddElement DEF Push
  <2>2. Len(q') = Len(q) + 1
    BY <1>0, <1>1, AppendProperties DEF Push
  <2>3. Len(q) <= Cardinality(signalling) + Cardinality(woken) /\ woken' = woken
    BY <1>1 DEF Push, WakeupsSuffice
  <2> QED
    BY <1>0, <2>1, <2>2, <2>3
<1>2. ASSUME NEW p \in Pushers, Signal(p) PROVE Goal
  <2>1. PICK t \in waiting : woken' = woken \cup {t}
    BY <1>2 DEF Signal
  <2>2. Cardinality(woken') = Cardinality(woken) + 1
    BY <2>1, WakeOne
  <2>3. Cardinality(signalling') = Cardinality(signalling) - 1
    BY <1>0, <1>2, FS_RemoveElement DEF Signal
  <2>4. Len(q) <= Cardinality(signalling) + Cardinality(woken) /\ q' = q
    BY <1>2 DEF Signal, WakeupsSuffice
  <2> QED
    BY <1>0, <2>2, <2>3, <2>4
<1>3. ASSUME NEW t \in Poppers, Take(t) PROVE Goal
  <2>1. Len(q') = Len(q) - 1
    BY <1>0, <1>3, HeadTailProperties DEF Take
  <2>2. /\ Cardinality(woken') \in Nat
        /\ Cardinality(woken') >= Cardinality(woken) - 1
    <3>1. IsFiniteSet(woken \ {t})
      BY <1>0, FS_RemoveElement
    <3>2. Cardinality(woken \ {t}) \in Nat
      BY <3>1, FS_CardinalityType
    <3>3. Cardinality(woken \ {t}) =
            IF t \in woken THEN Cardinality(woken) - 1 ELSE Cardinality(woken)
      BY <1>0, FS_RemoveElement
    <3>4. Cardinality(woken \ {t}) >= Cardinality(woken) - 1
      BY <1>0, <3>2, <3>3
    <3> QED
      BY <1>3, <3>2, <3>4 DEF Take
  <2>3. /\ Len(q) <= Cardinality(signalling) + Cardinality(woken)
        /\ signalling' = signalling
    BY <1>3 DEF Take, WakeupsSuffice
  <2> QED
    BY <1>0, <2>1, <2>2, <2>3
<1>4. ASSUME q' = <<>>, UNCHANGED signalling, IsFiniteSet(woken') PROVE Goal
  <2>1. Cardinality(woken') \in Nat
    BY <1>4, FS_CardinalityType
  <2> QED
    BY <1>0, <1>4, <2>1, EmptySeq
<1>5. ASSUME NEW t \in Poppers, Wait(t) \/ GiveUp(t) PROVE Goal
  <2>1. IsFiniteSet(woken')
    BY <1>0, <1>5, FS_RemoveElement DEF Wait, GiveUp
  <2> QED
    BY <1>4, <1>5, <2>1 DEF Wait, GiveUp
<1>6. ASSUME NEW t \in Poppers, SpuriousWakeup(t) PROVE Goal
  <2>1. Cardinality(woken') = Cardinality(woken) + 1
    BY <1>6, WakeOne DEF SpuriousWakeup
  <2>2. /\ Len(q) <= Cardinality(signalling) + Cardinality(woken)
        /\ signalling' = signalling /\ q' = q
    BY <1>6 DEF SpuriousWakeup, WakeupsSuffice
  <2> QED
    BY <1>0, <2>1, <2>2
<1>7. ASSUME UNCHANGED <<q, waiting, woken, signalling>> PROVE Goal
  BY <1>7 DEF WakeupsSuffice
<1>8. ASSUME NEW m \in Switchers, Broadcast(m) PROVE Goal
  BY <1>8 DEF Broadcast
<1> QED
  BY <1>1, <1>2, <1>3, <1>5, <1>6, <1>7, <1>8 DEF Next, PopStep, Switch, vars

LEMMA NextNoSleeper ==
  TypeOK /\ NoSleeperInNonblock /\ [Next]_vars => NoSleeperInNonblock'
BY DEF TypeOK, NoSleeperInNonblock, Next, PopStep, Push, Signal, Take, Wait, GiveUp,
       SpuriousWakeup, Switch, Broadcast, vars

(* The invariant holds in every reachable state. *)
THEOREM Invariance == Spec => []IInv
<1>1. IInv /\ [Next]_vars => IInv'
  BY NextTypeOK, NextWakeups, NextNoSleeper DEF IInv
<1> QED
  BY InitIInv, <1>1, PTL DEF Spec

(* tqueue's state stays well formed: a thread is not asleep and awake. *)
THEOREM TypeCorrect == Spec => []TypeOK
<1>1. IInv => TypeOK
  BY DEF IInv
<1> QED
  BY Invariance, <1>1, PTL

(* tqueue::push may signal after the unlock: for any number of threads,    *)
(* an item never lies in the queue with too few threads on their way.      *)
THEOREM NoWakeupLost == Spec => []WakeupsSuffice
<1>1. IInv => WakeupsSuffice
  BY DEF IInv
<1> QED
  BY Invariance, <1>1, PTL

(* nonblock reaches every sleeper, though it broadcasts after the unlock. *)
THEOREM NonblockReachesAll == Spec => []NoSleeperInNonblock
<1>1. IInv => NoSleeperInNonblock
  BY DEF IInv
<1> QED
  BY Invariance, <1>1, PTL

-----------------------------------------------------------------------------
(* What is in q and delivered are the abstract queue's, so Fresh is what   *)
(* the abstract push asks for.                                             *)
LEMMA StepRefines == TypeOK /\ [Next]_vars => [Fifo!Next]_<<q, delivered>>
<1> SUFFICES ASSUME TypeOK, [Next]_vars PROVE [Fifo!Next]_<<q, delivered>>
  OBVIOUS
<1>1. ASSUME NEW p \in Pushers, NEW x \in Items, Push(p, x) PROVE Fifo!Next
  <2>1. ~Fifo!InQueue(x) /\ ~Fifo!Delivered(x)
    BY <1>1 DEF Push, Fresh, Fifo!InQueue, Fifo!Delivered
  <2>2. Fifo!Push(x)
    BY <1>1, <2>1 DEF Push, Fifo!Push
  <2> QED
    BY <2>2 DEF Fifo!Next
<1>2. ASSUME NEW t \in Poppers, Take(t) PROVE Fifo!Next
  BY <1>2 DEF Take, Fifo!Next, Fifo!Pop
<1>3. ASSUME UNCHANGED <<q, delivered>> PROVE [Fifo!Next]_<<q, delivered>>
  BY <1>3
<1> QED
  BY <1>1, <1>2, <1>3
  DEF Next, PopStep, Signal, Wait, GiveUp, SpuriousWakeup, Switch, Broadcast, vars

(* Whatever the threads do, tqueue is a first-in first-out queue that      *)
(* loses and repeats nothing.                                              *)
THEOREM Refinement == Spec => ImplementsFifo
<1>1. Init => Fifo!Init
  BY DEF Init, Fifo!Init
<1> QED
  BY <1>1, StepRefines, TypeCorrect, PTL DEF Spec, ImplementsFifo, Fifo!Spec
=============================================================================
