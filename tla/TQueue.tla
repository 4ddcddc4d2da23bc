------------------------------- MODULE TQueue -------------------------------
(***************************************************************************)
(* template class tqueue (tqueue.h): a queue under a mutex, with one       *)
(* condition variable for the threads that wait in pop.  Everything a call *)
(* does while it holds the mutex is one step, for nobody else looks at the *)
(* queue meanwhile; pthread_cond_wait, which gives the mutex up, and the   *)
(* signal or broadcast, which push, block and nonblock send AFTER the      *)
(* mutex is free, are steps of their own.  A thread in pop is either       *)
(* waiting on the condition variable or woken and on its way back to the   *)
(* mutex; a call of pop that does not wait is a single step.               *)
(***************************************************************************)
EXTENDS Sequences, FiniteSets, Naturals

CONSTANTS
  Items,       \* what is pushed, each item once
  Poppers,     \* threads in a loop around pop(), like searchRunner
  Pushers,     \* threads that call push
  Switchers,   \* threads that call block and nonblock
  MaxSwitches  \* bound: how often they do

ASSUME TQueueAssumption ==
  /\ IsFiniteSet(Poppers) /\ IsFiniteSet(Pushers) /\ IsFiniteSet(Switchers)
  /\ MaxSwitches \in Nat

VARIABLES
  q,          \* the queue
  blck,       \* should pop() block by default
  waiting,    \* poppers in pthread_cond_wait
  woken,      \* poppers that left it and have not looked at the queue yet
  signalling, \* pushers between the unlock and the signal of push
  casting,    \* switchers between the unlock and the broadcast
  delivered,  \* what pop returned so far, in order
  switches    \* calls of block and nonblock so far

vars == <<q, blck, waiting, woken, signalling, casting, delivered, switches>>

(* The constructor. *)
Init ==
  /\ q = <<>> /\ delivered = <<>>
  /\ blck = TRUE
  /\ waiting = {} /\ woken = {}
  /\ signalling = {} /\ casting = {}
  /\ switches = 0

Fresh(x) ==
  /\ \A n \in DOMAIN q : q[n] # x
  /\ \A n \in DOMAIN delivered : delivered[n] # x

(* Mutant of Push: push does not signal. *)
PushSilent(p, x) ==
  /\ p \notin signalling
  /\ Fresh(x)
  /\ q' = Append(q, x)
  /\ UNCHANGED <<blck, waiting, woken, signalling, casting, delivered, switches>>

(* Mutant of Push: push signals only when the queue was empty. *)
PushQuiet(p, x) ==
  /\ p \notin signalling
  /\ Fresh(x)
  /\ q' = Append(q, x)
  /\ signalling' = IF q = <<>> THEN signalling \cup {p} ELSE signalling
  /\ UNCHANGED <<blck, waiting, woken, casting, delivered, switches>>

(* push, up to the unlock. *)
Push(p, x) ==
  /\ p \notin signalling
  /\ Fresh(x)
  /\ q' = Append(q, x)
  /\ signalling' = signalling \cup {p}
  /\ UNCHANGED <<blck, waiting, woken, casting, delivered, switches>>

(* The pthread_cond_signal of push: it wakes a waiter, if there is one. *)
Signal(p) ==
  /\ p \in signalling
  /\ signalling' = signalling \ {p}
  /\ \/ waiting = {} /\ UNCHANGED <<waiting, woken>>
     \/ \E t \in waiting : waiting' = waiting \ {t} /\ woken' = woken \cup {t}
  /\ UNCHANGED <<q, blck, casting, delivered, switches>>

(* Mutant of Take: `if' for `while' in pop, so that a woken thread does    *)
(* not look at the queue again before it takes the front.                  *)
TakeUnchecked(t) ==
  /\ t \notin waiting
  /\ q # <<>> \/ t \in woken
  /\ delivered' = Append(delivered, IF q = <<>> THEN "no item" ELSE Head(q))
  /\ q' = IF q = <<>> THEN q ELSE Tail(q)
  /\ woken' = woken \ {t}
  /\ UNCHANGED <<blck, waiting, signalling, casting, switches>>

(* Mutant of Take: it takes from the wrong end. *)
TakeNewest(t) ==
  /\ t \notin waiting
  /\ q # <<>>
  /\ delivered' = Append(delivered, q[Len(q)])
  /\ q' = SubSeq(q, 1, Len(q) - 1)
  /\ woken' = woken \ {t}
  /\ UNCHANGED <<blck, waiting, signalling, casting, switches>>

(* pop finds an item, at the first look or after waking up. *)
Take(t) ==
  /\ t \notin waiting
  /\ q # <<>>
  /\ delivered' = Append(delivered, Head(q))
  /\ q' = Tail(q)
  /\ woken' = woken \ {t}
  /\ UNCHANGED <<blck, waiting, signalling, casting, switches>>

(* pop finds nothing and waits, again if it was woken. *)
Wait(t) ==
  /\ t \notin waiting
  /\ q = <<>> /\ blck
  /\ waiting' = waiting \cup {t}
  /\ woken' = woken \ {t}
  /\ UNCHANGED <<q, blck, signalling, casting, delivered, switches>>

(* pop finds nothing in non-blocking mode and returns NULL. *)
GiveUp(t) ==
  /\ t \in woken
  /\ q = <<>> /\ ~blck
  /\ woken' = woken \ {t}
  /\ UNCHANGED <<q, blck, waiting, signalling, casting, delivered, switches>>

(* pthread_cond_wait may return unasked. *)
SpuriousWakeup(t) ==
  /\ t \in waiting
  /\ waiting' = waiting \ {t} /\ woken' = woken \cup {t}
  /\ UNCHANGED <<q, blck, signalling, casting, delivered, switches>>

(* block() and nonblock(), up to the unlock. *)
Switch(m, mode) ==
  /\ m \notin casting
  /\ switches < MaxSwitches
  /\ switches' = switches + 1
  /\ blck' = mode
  /\ casting' = casting \cup {m}
  /\ UNCHANGED <<q, waiting, woken, signalling, delivered>>

(* Mutant of Broadcast: a signal, which wakes one thread. *)
BroadcastToOne(m) ==
  /\ m \in casting
  /\ casting' = casting \ {m}
  /\ \/ waiting = {} /\ UNCHANGED <<waiting, woken>>
     \/ \E t \in waiting : waiting' = waiting \ {t} /\ woken' = woken \cup {t}
  /\ UNCHANGED <<q, blck, signalling, delivered, switches>>

(* Their pthread_cond_broadcast. *)
Broadcast(m) ==
  /\ m \in casting
  /\ casting' = casting \ {m}
  /\ waiting' = {} /\ woken' = woken \cup waiting
  /\ UNCHANGED <<q, blck, signalling, delivered, switches>>

PopStep(t) == Take(t) \/ Wait(t) \/ GiveUp(t)

Next ==
  \/ \E p \in Pushers : Signal(p) \/ \E x \in Items : Push(p, x)
  \/ \E t \in Poppers : PopStep(t) \/ SpuriousWakeup(t)
  \/ \E m \in Switchers : Broadcast(m) \/ \E mode \in BOOLEAN : Switch(m, mode)

Spec == Init /\ [][Next]_vars

(* A thread that is running goes on: no call waits for anything but the    *)
(* mutex, which nobody holds for ever, and the condition variable.  That   *)
(* wakes whom it likes, nobody is forced to push, and no spurious wakeup   *)
(* is counted on.                                                          *)
Fairness ==
  /\ \A t \in Poppers : WF_vars(PopStep(t))
  /\ \A p \in Pushers : WF_vars(Signal(p))
  /\ \A m \in Switchers : WF_vars(Broadcast(m))

FairSpec == Spec /\ Fairness

-----------------------------------------------------------------------------
TypeOK ==
  /\ q \in Seq(Items) /\ delivered \in Seq(Items)
  /\ blck \in BOOLEAN
  /\ waiting \subseteq Poppers /\ woken \subseteq Poppers /\ waiting \cap woken = {}
  /\ signalling \subseteq Pushers /\ casting \subseteq Switchers
  /\ switches \in 0..MaxSwitches

(* "The condition gets triggered [...] when something is added"            *)
(* (tqueue.h:46-48): while anybody waits, every item in the queue has      *)
(* somebody on the way to it, a signal still to be sent or a thread        *)
(* already woken.  Signalling after the unlock, threads that take an item  *)
(* without having waited and spurious wakeups move both sides of this.     *)
WakeupsSuffice ==
  waiting # {} => Len(q) <= Cardinality(signalling) + Cardinality(woken)

(* "[...] or the queue is changed into non-blocking mode" (tqueue.h:48):   *)
(* no thread sleeps on in non-blocking mode unless a broadcast is still to *)
(* come, although the mode is changed and broadcast in two steps.          *)
NoSleeperInNonblock == ~blck /\ waiting # {} => casting # {}

(* Each item is popped once and in order, whichever thread gets it. *)
Fifo == INSTANCE FifoQueue WITH queue <- q
ImplementsFifo == Fifo!Spec

(* What is pushed is popped in the end, by threads that wait or not. *)
EveryItemDelivered ==
  \A x \in Items :
    (\E n \in DOMAIN q : q[n] = x) ~> (\E n \in DOMAIN delivered : delivered[n] = x)

(* "tells all currently blocking pop calls to return immediately"          *)
(* (tqueue.h:102): in non-blocking mode nobody keeps sleeping, unless the  *)
(* queue is set to blocking again.                                         *)
NonblockReleases == \A t \in Poppers : (~blck /\ t \in waiting) ~> (t \notin waiting \/ blck)
=============================================================================
