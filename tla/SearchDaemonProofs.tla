------------------------- MODULE SearchDaemonProofs -------------------------
(***************************************************************************)
(* Proofs about the daemon for any number of threads and requests: every   *)
(* search has one owner, no response is forgotten, and the daemon          *)
(* implements SearchService.                                               *)
(***************************************************************************)
EXTENDS SearchDaemon, FiniteSetTheorems, SequenceTheorems, TLAPS

(* What is in a queue, and that it is there once. *)
Occ(queue) == {queue[n] : n \in DOMAIN queue}
Once(queue) == \A m, n \in DOMAIN queue : queue[m] = queue[n] => m = n

Held == {srch[t] : t \in Threads} \ {NoSearch}

(* OneOwner by sets: the places are disjoint, hold each search once, and   *)
(* together hold the searches asked.                                       *)
Apart ==
  /\ Occ(request) \cap Held = {} /\ Occ(request) \cap Occ(response) = {}
  /\ Held \cap Occ(response) = {}

NoneTwice ==
  /\ Once(request) /\ Once(response)
  /\ \A t, u \in Threads : srch[t] = srch[u] /\ srch[t] # NoSearch => t = u

AllThere == asked = Occ(request) \cup Held \cup Occ(response)

(* A search has begun once a thread has it, and has read the users once    *)
(* the thread is past the lock.                                            *)
SeenInTime ==
  /\ DOMAIN begun \subseteq asked /\ DOMAIN begun \cap Occ(request) = {}
  /\ DOMAIN seen \subseteq DOMAIN begun
  /\ \A t \in Threads : srch[t] # NoSearch =>
       srch[t] \in DOMAIN begun /\ (srch[t] \in DOMAIN seen <=> pc[t] \in {"scan", "push"})
  /\ Occ(response) \subseteq DOMAIN seen

IInv == TypeOK /\ Apart /\ NoneTwice /\ AllThere /\ SeenInTime

-----------------------------------------------------------------------------
(* Queues. *)
LEMMA OccAppend ==
  ASSUME NEW S, NEW queue \in Seq(S), NEW x \in S
  PROVE  /\ Occ(Append(queue, x)) = Occ(queue) \cup {x}
         /\ Once(queue) /\ x \notin Occ(queue) => Once(Append(queue, x))
<1> DEFINE new == Append(queue, x)
<1>1. /\ Len(queue) \in Nat /\ DOMAIN queue = 1..Len(queue)
      /\ DOMAIN new = 1..(Len(queue) + 1)
      /\ new[Len(queue) + 1] = x
      /\ \A n \in 1..Len(queue) : new[n] = queue[n]
  BY AppendProperties, LenProperties
<1> HIDE DEF new
<1>2. Occ(new) = Occ(queue) \cup {x}
  <2>1. \A y \in Occ(new) : y \in Occ(queue) \cup {x}
    BY <1>1 DEF Occ
  <2>2. \A y \in Occ(queue) : y \in Occ(new)
    BY <1>1 DEF Occ
  <2>3. x \in Occ(new)
    BY <1>1 DEF Occ
  <2> QED
    BY <2>1, <2>2, <2>3
<1>3. ASSUME Once(queue), x \notin Occ(queue) PROVE Once(new)
  BY <1>1, <1>3 DEF Once, Occ
<1> QED
  BY <1>2, <1>3 DEF new

LEMMA OccTail ==
  ASSUME NEW S, NEW queue \in Seq(S), queue # <<>>
  PROVE  /\ Head(queue) \in S /\ Tail(queue) \in Seq(S) /\ Head(queue) \in Occ(queue)
         /\ Occ(queue) = Occ(Tail(queue)) \cup {Head(queue)}
         /\ Once(queue) => Once(Tail(queue)) /\ Head(queue) \notin Occ(Tail(queue))
<1> DEFINE h == Head(queue)
           tl == Tail(queue)
<1>1. /\ Len(queue) \in Nat \ {0} /\ DOMAIN queue = 1..Len(queue)
      /\ DOMAIN tl = 1..(Len(queue) - 1)
      /\ h = queue[1]
      /\ \A n \in 1..(Len(queue) - 1) : tl[n] = queue[n + 1]
      /\ h \in S /\ tl \in Seq(S)
  BY HeadTailProperties, LenProperties, EmptySeq
<1> HIDE DEF h, tl
<1>2. h \in Occ(queue)
  BY <1>1 DEF Occ
<1>3. ASSUME NEW y \in Occ(queue) PROVE y \in Occ(tl) \cup {h}
  <2>1. PICK n \in 1..Len(queue) : y = queue[n]
    BY <1>1 DEF Occ
  <2>2. CASE n = 1
    BY <1>1, <2>1, <2>2
  <2>3. CASE n # 1
    <3>1. n - 1 \in 1..(Len(queue) - 1) /\ tl[n - 1] = queue[n]
      BY <1>1, <2>3
    <3> QED
      BY <1>1, <2>1, <3>1 DEF Occ
  <2> QED
    BY <2>2, <2>3
<1>4. ASSUME NEW y \in Occ(tl) PROVE y \in Occ(queue)
  <2>1. PICK n \in 1..(Len(queue) - 1) : y = tl[n]
    BY <1>1 DEF Occ
  <2> QED
    BY <1>1, <2>1 DEF Occ
<1>5. ASSUME Once(queue) PROVE Once(tl) /\ h \notin Occ(tl)
  <2>1. ASSUME NEW m \in 1..(Len(queue) - 1), NEW n \in 1..(Len(queue) - 1), tl[m] = tl[n]
        PROVE  m = n
    <3>1. queue[m + 1] = queue[n + 1] /\ m + 1 \in DOMAIN queue /\ n + 1 \in DOMAIN queue
      BY <1>1, <2>1
    <3>2. m + 1 = n + 1
      BY <1>5, <3>1 DEF Once
    <3> QED
      BY <3>2
  <2>2. ASSUME NEW n \in 1..(Len(queue) - 1) PROVE tl[n] # h
    <3>1. n + 1 \in DOMAIN queue /\ 1 \in DOMAIN queue /\ n + 1 # 1 /\ tl[n] = queue[n + 1]
      BY <1>1
    <3> QED
      BY <1>1, <1>5, <3>1 DEF Once
  <2> QED
    BY <1>1, <2>1, <2>2 DEF Once, Occ
<1>6. Occ(queue) = Occ(tl) \cup {h}
  BY <1>2, <1>3, <1>4
<1> QED
  BY <1>1, <1>2, <1>5, <1>6 DEF h, tl

-----------------------------------------------------------------------------
(* Noting and forgetting a search. *)
LEMMA NoteForget ==
  ASSUME NEW f, f \in [DOMAIN f -> Nat], DOMAIN f \subseteq Searches,
         NEW x \in Searches, NEW n \in Nat
  PROVE  /\ Note(f, x, n) \in [DOMAIN Note(f, x, n) -> Nat]
         /\ DOMAIN Note(f, x, n) = DOMAIN f \cup {x}
         /\ Forget(f, x) \in [DOMAIN Forget(f, x) -> Nat]
         /\ DOMAIN Forget(f, x) = DOMAIN f \ {x}
BY DEF Note, Forget

LEMMA InitIInv == Init => IInv
<1> SUFFICES ASSUME Init PROVE IInv
  OBVIOUS
<1>1. TypeOK
  BY DaemonAssumption DEF Init, TypeOK, LoopStates
<1>2. Occ(<<>>) = {} /\ Once(<<>>)
  BY DEF Occ, Once
<1>3. Held = {}
  BY DEF Init, Held
<1>4. Apart /\ NoneTwice /\ AllThere
  BY <1>2, <1>3 DEF Init, Apart, NoneTwice, AllThere
<1>5. SeenInTime
  BY <1>2 DEF Init, SeenInTime
<1> QED
  BY <1>1, <1>4, <1>5 DEF IInv

LEMMA NextTypeOK == TypeOK /\ [Next]_vars => TypeOK'
<1> SUFFICES ASSUME TypeOK, [Next]_vars PROVE TypeOK'
  OBVIOUS
<1> USE DaemonAssumption
    DEF TypeOK, LoopStates, loopVars, updateVars, resultVars, otherVars
<1>0. Len(applied) \in Nat
  BY LenProperties
<1>1. ASSUME NEW s \in Searches, Search(s) PROVE TypeOK'
  <2>1. request' \in Seq(Searches)
    BY <1>1, AppendProperties DEF Search
  <2> QED
    BY <1>1, <2>1 DEF Search
<1>2. ASSUME NEW r \in Requests, Update(r) PROVE TypeOK'
  BY <1>2 DEF Update
<1>3. CASE Push
  <2>1. Head(ops) \in Updates /\ Tail(ops) \in Seq(Updates)
    BY <1>3, OccTail DEF Push
  <2>2. updates' \in Seq(Updates)
    BY <1>3, <2>1, AppendProperties DEF Push
  <2> QED
    BY <1>3, <2>1, <2>2 DEF Push
<1>4. CASE Acknowledge
  BY <1>4 DEF Acknowledge
<1>5. CASE Readable
  BY <1>5 DEF Readable
<1>6. CASE Drain
  <2>1. response # <<>> => Head(response) \in Searches /\ Tail(response) \in Seq(Searches)
    BY OccTail
  <2>2. CASE response = <<>>
    BY <1>6, <2>2 DEF Drain
  <2>3. CASE response # <<>>
    <3> DEFINE s == Head(response)
    <3>1. /\ begun' = Forget(begun, s) /\ seen' = Forget(seen, s) /\ asked' = asked \ {s}
          /\ response' = Tail(response) /\ s \in Searches
      BY <1>6, <2>1, <2>3 DEF Drain, Reply
    <3> HIDE DEF s
    <3>2. /\ begun' \in [DOMAIN begun' -> Nat] /\ DOMAIN begun' \subseteq Searches
          /\ seen' \in [DOMAIN seen' -> Nat] /\ DOMAIN seen' \subseteq Searches
      BY <3>1 DEF Forget
    <3> QED
      BY <1>6, <2>1, <2>3, <3>1, <3>2 DEF Drain
  <2> QED
    BY <2>2, <2>3
<1>7. CASE Shutdown \/ DispatchReturns
  BY <1>7 DEF Shutdown, DispatchReturns
<1>8. ASSUME NEW t \in Threads, PopRequest(t) PROVE TypeOK'
  <2>1. Head(request) \in Searches /\ Tail(request) \in Seq(Searches)
    BY <1>8, OccTail DEF PopRequest
  <2>2. begun' \in [DOMAIN begun' -> Nat] /\ DOMAIN begun' \subseteq Searches
    BY <1>0, <1>8, <2>1 DEF PopRequest, Note
  <2>3. /\ pc' \in [Threads -> {"pop", "gather", "scan", "push", "signal"}]
        /\ srch' \in [Threads -> Searches \cup {NoSearch}]
        /\ \A u \in Threads : srch'[u] = NoSearch <=> pc'[u] \in {"pop", "signal"}
    BY <1>8, <2>1 DEF PopRequest
  <2> QED
    BY <1>8, <2>1, <2>2, <2>3 DEF PopRequest
<1>9. ASSUME NEW t \in Threads, ReadLock(t) PROVE TypeOK'
  <2>1. srch[t] \in Searches
    BY <1>9 DEF ReadLock
  <2>2. seen' \in [DOMAIN seen' -> Nat] /\ DOMAIN seen' \subseteq Searches
    BY <1>0, <1>9, <2>1 DEF ReadLock, Note
  <2>3. /\ pc' \in [Threads -> {"pop", "gather", "scan", "push", "signal"}]
        /\ \A u \in Threads : srch'[u] = NoSearch <=> pc'[u] \in {"pop", "signal"}
    BY <1>9 DEF ReadLock
  <2> QED
    BY <1>9, <2>2, <2>3 DEF ReadLock
<1>10. ASSUME NEW t \in Threads, Unlock(t) PROVE TypeOK'
  BY <1>10 DEF Unlock
<1>11. ASSUME NEW t \in Threads, PushResponse(t) PROVE TypeOK'
  <2>1. srch[t] \in Searches
    BY <1>11 DEF PushResponse
  <2>2. response' \in Seq(Searches)
    BY <1>11, <2>1, AppendProperties DEF PushResponse
  <2>3. /\ pc' \in [Threads -> {"pop", "gather", "scan", "push", "signal"}]
        /\ srch' \in [Threads -> Searches \cup {NoSearch}]
        /\ \A u \in Threads : srch'[u] = NoSearch <=> pc'[u] \in {"pop", "signal"}
    BY <1>11 DEF PushResponse
  <2> QED
    BY <1>11, <2>2, <2>3 DEF PushResponse
<1>12. ASSUME NEW t \in Threads, Signalfd(t) PROVE TypeOK'
  BY <1>12 DEF Signalfd
<1>13. CASE PopUpdate
  <2>1. Head(updates) \in Updates /\ Tail(updates) \in Seq(Updates)
    BY <1>13, OccTail DEF PopUpdate
  <2>2. upc' \in {"lock", "nobody"}
    BY <1>13 DEF PopUpdate, Ways
  <2> QED
    BY <1>13, <2>1, <2>2 DEF PopUpdate
<1>14. CASE NobodyThere \/ WriteUnlock
  <2>1. upd \in Updates
    BY <1>14 DEF NobodyThere, WriteUnlock
  <2>2. applied' = Append(applied, upd)
    BY <1>14 DEF NobodyThere, WriteUnlock
  <2>3. applied' \in Seq(Updates)
    BY <2>1, <2>2, AppendProperties
  <2> QED
    BY <1>14, <2>3 DEF NobodyThere, WriteUnlock
<1>15. CASE WriteLock \/ DropBirthday
  BY <1>15 DEF WriteLock, DropBirthday
<1>16. CASE UNCHANGED vars
  BY <1>16 DEF vars
<1> QED
  BY <1>1, <1>2, <1>3, <1>4, <1>5, <1>6, <1>7, <1>8, <1>9, <1>10, <1>11, <1>12, <1>13,
     <1>14, <1>15, <1>16
  DEF Next, searchRunner, updateRunner

Owned == Apart /\ NoneTwice /\ AllThere /\ SeenInTime

(* What a step that touches one queue or one thread does to the places. *)
LEMMA NextOwned == IInv /\ [Next]_vars => Owned'
<1> SUFFICES ASSUME TypeOK, Apart, NoneTwice, AllThere, SeenInTime, [Next]_vars
             PROVE  Owned'
  BY DEF IInv
<1> DEFINE Rq == Occ(request)
           Rs == Occ(response)
<1> USE DEF loopVars, updateVars, resultVars, otherVars
<1>0. Len(applied) \in Nat
  BY LenProperties DEF TypeOK
<1>1. ASSUME NEW s \in Searches, Search(s) PROVE Owned'
  <2>1. s \notin Rq /\ s \notin Held /\ s \notin Rs /\ s \notin DOMAIN begun
    BY <1>1 DEF Search, AllThere, SeenInTime
  <2>2. Occ(request') = Rq \cup {s} /\ Once(request')
    BY <1>1, <2>1, OccAppend DEF Search, TypeOK, NoneTwice
  <2>3. Held' = Held /\ UNCHANGED <<pc, srch, response, begun, seen>> /\ asked' = asked \cup {s}
    BY <1>1 DEF Search, Held
  <2>4. Apart' /\ AllThere'
    BY <2>1, <2>2, <2>3 DEF Apart, AllThere
  <2>5. NoneTwice'
    BY <2>2, <2>3 DEF NoneTwice
  <2>6. SeenInTime'
    BY <2>1, <2>2, <2>3 DEF SeenInTime
  <2> QED
    BY <2>4, <2>5, <2>6 DEF Owned
<1>2. CASE Drain
  <2>1. CASE response = <<>>
    BY <1>2, <2>1 DEF Drain, Owned, Apart, NoneTwice, AllThere, SeenInTime, Held
  <2>2. CASE response # <<>>
    <3> DEFINE s == Head(response)
    <3>0. response' = Tail(response) /\ response \in Seq(Searches) /\ Once(response)
      BY <1>2, <2>2 DEF Drain, TypeOK, NoneTwice
    <3>1. /\ Rs = Occ(response') \cup {s} /\ Once(response') /\ s \notin Occ(response')
          /\ s \in Searches /\ s \in Rs
      BY <2>2, <3>0, OccTail
    <3>2. /\ Held' = Held /\ UNCHANGED <<pc, srch, request>>
          /\ begun' = Forget(begun, s) /\ seen' = Forget(seen, s) /\ asked' = asked \ {s}
      BY <1>2, <2>2 DEF Drain, Reply, Held
    <3> HIDE DEF s
    <3>3. DOMAIN begun' = DOMAIN begun \ {s} /\ DOMAIN seen' = DOMAIN seen \ {s}
      BY <1>0, <3>1, <3>2, NoteForget DEF TypeOK
    <3>4. s \notin Rq /\ s \notin Held
      BY <3>1 DEF Apart
    <3>5. Apart' /\ AllThere'
      BY <3>1, <3>2, <3>4 DEF Apart, AllThere
    <3>6. NoneTwice'
      BY <3>1, <3>2 DEF NoneTwice
    <3>7. SeenInTime'
      <4>1. \A t \in Threads : srch[t] # NoSearch => srch[t] # s
        BY <3>4 DEF Held
      <4> QED
        BY <3>1, <3>2, <3>3, <4>1 DEF SeenInTime
    <3> QED
      BY <3>5, <3>6, <3>7 DEF Owned
  <2> QED
    BY <2>1, <2>2
<1>3. ASSUME NEW t \in Threads, PopRequest(t) PROVE Owned'
  <2> DEFINE s == Head(request)
  <2>1. /\ Rq = Occ(request') \cup {s} /\ Once(request') /\ s \notin Occ(request')
        /\ s \in Searches /\ s # NoSearch
    BY <1>3, OccTail, DaemonAssumption DEF PopRequest, TypeOK, NoneTwice
  <2>2. /\ srch' = [srch EXCEPT ![t] = s] /\ pc' = [pc EXCEPT ![t] = "gather"]
        /\ srch[t] = NoSearch /\ begun' = Note(begun, s, Len(applied))
        /\ UNCHANGED <<response, seen, asked>>
    BY <1>3 DEF PopRequest, TypeOK
  <2>3. s \in Rq /\ s \notin Held /\ s \notin DOMAIN begun /\ s \in asked
    BY <2>1 DEF Apart, SeenInTime, AllThere
  <2> HIDE DEF s
  <2>4. DOMAIN begun' = DOMAIN begun \cup {s}
    BY <1>0, <2>1, <2>2, NoteForget DEF TypeOK
  <2>5. \A u \in Threads : /\ srch'[u] = (IF u = t THEN s ELSE srch[u])
                            /\ pc'[u] = IF u = t THEN "gather" ELSE pc[u]
    BY <2>2 DEF TypeOK
  <2>6. Held' = Held \cup {s}
    BY <2>1, <2>2, <2>5 DEF Held
  <2>7. Apart' /\ AllThere'
    BY <2>1, <2>2, <2>3, <2>6 DEF Apart, AllThere
  <2>8. NoneTwice'
    <3>1. \A u \in Threads : srch[u] # s
      BY <2>1, <2>3 DEF Held
    <3>2. \A u, v \in Threads : srch'[u] = srch'[v] /\ srch'[u] # NoSearch => u = v
      BY <2>5, <3>1 DEF NoneTwice
    <3> QED
      BY <2>1, <2>2, <3>2 DEF NoneTwice
  <2>9. SeenInTime'
    BY <2>1, <2>2, <2>3, <2>4, <2>5 DEF SeenInTime
  <2> QED
    BY <2>7, <2>8, <2>9 DEF Owned
<1>4. ASSUME NEW t \in Threads, ReadLock(t) PROVE Owned'
  <2>1. /\ seen' = Note(seen, srch[t], Len(applied)) /\ pc' = [pc EXCEPT ![t] = "scan"]
        /\ srch[t] # NoSearch /\ srch[t] \in Searches
        /\ UNCHANGED <<request, response, srch, asked, begun>>
    BY <1>4 DEF ReadLock, TypeOK
  <2>2. DOMAIN seen' = DOMAIN seen \cup {srch[t]}
    BY <1>0, <2>1, NoteForget DEF TypeOK
  <2>3. Apart' /\ AllThere' /\ NoneTwice'
    BY <2>1 DEF Apart, AllThere, NoneTwice, Held
  <2>4. \A u \in Threads : pc'[u] = IF u = t THEN "scan" ELSE pc[u]
    BY <2>1 DEF TypeOK
  <2>5. \A u \in Threads : srch[u] = srch[t] => u = t
    BY <2>1 DEF NoneTwice
  <2>6. SeenInTime'
    BY <2>1, <2>2, <2>4, <2>5 DEF SeenInTime
  <2> QED
    BY <2>3, <2>6 DEF Owned
<1>5. ASSUME NEW t \in Threads, PushResponse(t) PROVE Owned'
  <2> DEFINE s == srch[t]
  <2>1. /\ s \in Searches /\ s # NoSearch /\ pc[t] = "push"
        /\ srch' = [srch EXCEPT ![t] = NoSearch] /\ pc' = [pc EXCEPT ![t] = "signal"]
        /\ response' = Append(response, s)
        /\ UNCHANGED <<request, begun, seen, asked>>
    BY <1>5 DEF PushResponse, TypeOK
  <2>2. s \in Held /\ s \notin Rs /\ s \in DOMAIN seen
    <3>1. s \in Held
      BY <2>1 DEF Held
    <3> QED
      BY <2>1, <3>1 DEF Apart, SeenInTime
  <2>3. Occ(response') = Rs \cup {s} /\ Once(response')
    BY <2>1, <2>2, OccAppend DEF TypeOK, NoneTwice
  <2>4. \A u \in Threads : /\ srch'[u] = (IF u = t THEN NoSearch ELSE srch[u])
                            /\ pc'[u] = IF u = t THEN "signal" ELSE pc[u]
    BY <2>1 DEF TypeOK
  <2>5. \A u \in Threads : srch[u] = s => u = t
    BY <2>1 DEF NoneTwice
  <2> HIDE DEF s
  <2>6. Held' = Held \ {s}
    <3>1. \A x \in Held' : x \in Held /\ x # s
      BY <2>4, <2>5 DEF Held
    <3>2. \A x \in Held : x # s => x \in Held'
      BY <2>4 DEF Held, s
    <3> QED
      BY <3>1, <3>2
  <2>7. Apart' /\ AllThere'
    BY <2>1, <2>2, <2>3, <2>6 DEF Apart, AllThere
  <2>8. NoneTwice' /\ SeenInTime'
    BY <2>1, <2>2, <2>3, <2>4 DEF NoneTwice, SeenInTime
  <2> QED
    BY <2>7, <2>8 DEF Owned
<1>6. ASSUME NEW t \in Threads, Signalfd(t) \/ Unlock(t) PROVE Owned'
  <2>1. UNCHANGED <<request, response, srch, asked, begun, seen>>
    BY <1>6 DEF Signalfd, Unlock
  <2>2. \A u \in Threads : srch[u] # NoSearch =>
          (pc'[u] \in {"scan", "push"} <=> pc[u] \in {"scan", "push"})
    BY <1>6 DEF Signalfd, Unlock, TypeOK
  <2>3. Apart' /\ AllThere' /\ NoneTwice'
    BY <2>1 DEF Apart, AllThere, NoneTwice, Held
  <2>4. SeenInTime'
    BY <2>1, <2>2 DEF SeenInTime
  <2> QED
    BY <2>3, <2>4 DEF Owned
<1>7. ASSUME UNCHANGED <<request, response, srch, asked, begun, seen, pc>> PROVE Owned'
  BY <1>7 DEF Owned, Apart, AllThere, NoneTwice, SeenInTime, Held
<1> QED
  BY <1>1, <1>2, <1>3, <1>4, <1>5, <1>6, <1>7
  DEF Next, searchRunner, updateRunner, Update, Push, Acknowledge, Readable, Shutdown,
      DispatchReturns, PopUpdate, NobodyThere, WriteLock, WriteUnlock, DropBirthday, vars

(* The invariant holds in every reachable state. *)
THEOREM Invariance == Spec => []IInv
<1>1. IInv /\ [Next]_vars => IInv'
  BY NextTypeOK, NextOwned DEF IInv, Owned
<1> QED
  BY InitIInv, <1>1, PTL DEF Spec

(* The daemon's state stays well formed, the pipe within its size. *)
THEOREM TypeCorrect == Spec => []TypeOK
<1>1. IInv => TypeOK
  BY DEF IInv
<1> QED
  BY Invariance, <1>1, PTL

-----------------------------------------------------------------------------
(* A search has one place if it is asked and none if it is not: the four   *)
(* kinds of place exclude one another, and within a kind there is one.     *)
LEMMA OnePlace == IInv => OneOwner
<1> SUFFICES ASSUME TypeOK, Apart, NoneTwice, AllThere, NEW s \in Searches
             PROVE  Cardinality(Places(s)) = IF s \in asked THEN 1 ELSE 0
  BY DEF IInv, OneOwner
<1> DEFINE Q == {<<"request", n>> : n \in {m \in DOMAIN request : request[m] = s}}
           H == {<<"thread", t>> : t \in {u \in Threads : srch[u] = s}}
           R == {<<"response", n>> : n \in {m \in DOMAIN response : response[m] = s}}
<1>0. Places(s) = Q \cup H \cup R
  BY DEF Places
<1>1. /\ s \notin Occ(request) => Q = {}
      /\ s \in Occ(request) => \E p : Q = {p}
  <2>1. s \notin Occ(request) => Q = {}
    BY DEF Occ
  <2>2. ASSUME s \in Occ(request) PROVE \E p : Q = {p}
    <3>1. PICK n \in DOMAIN request : request[n] = s
      BY <2>2 DEF Occ
    <3>2. \A m \in DOMAIN request : request[m] = s => m = n
      BY <3>1 DEF NoneTwice, Once
    <3>3. Q = {<<"request", n>>}
      BY <3>1, <3>2
    <3> QED
      BY <3>3
  <2> QED
    BY <2>1, <2>2
<1>2. /\ s \notin Held => H = {}
      /\ s \in Held => \E p : H = {p}
  <2>0. s # NoSearch
    BY DaemonAssumption
  <2>1. s \notin Held => H = {}
    BY <2>0 DEF Held
  <2>2. ASSUME s \in Held PROVE \E p : H = {p}
    <3>1. PICK t \in Threads : srch[t] = s
      BY <2>2 DEF Held
    <3>2. \A u \in Threads : srch[u] = s => u = t
      BY <2>0, <3>1 DEF NoneTwice
    <3>3. H = {<<"thread", t>>}
      BY <3>1, <3>2
    <3> QED
      BY <3>3
  <2> QED
    BY <2>1, <2>2
<1>3. /\ s \notin Occ(response) => R = {}
      /\ s \in Occ(response) => \E p : R = {p}
  <2>1. s \notin Occ(response) => R = {}
    BY DEF Occ
  <2>2. ASSUME s \in Occ(response) PROVE \E p : R = {p}
    <3>1. PICK n \in DOMAIN response : response[n] = s
      BY <2>2 DEF Occ
    <3>2. \A m \in DOMAIN response : response[m] = s => m = n
      BY <3>1 DEF NoneTwice, Once
    <3>3. R = {<<"response", n>>}
      BY <3>1, <3>2
    <3> QED
      BY <3>3
  <2> QED
    BY <2>1, <2>2
<1> HIDE DEF Q, H, R
<1>4. CASE s \notin asked
  <2>1. Places(s) = {}
    BY <1>0, <1>1, <1>2, <1>3, <1>4 DEF AllThere
  <2> QED
    BY <1>4, <2>1, FS_EmptySet
<1>5. CASE s \in asked
  <2>1. \E p : Places(s) = {p}
    <3>1. CASE s \in Occ(request)
      BY <1>0, <1>1, <1>2, <1>3, <3>1 DEF Apart
    <3>2. CASE s \in Held
      BY <1>0, <1>1, <1>2, <1>3, <3>2 DEF Apart
    <3>3. CASE s \in Occ(response)
      BY <1>0, <1>1, <1>2, <1>3, <3>3 DEF Apart
    <3> QED
      BY <1>5, <3>1, <3>2, <3>3 DEF AllThere
  <2> QED
    BY <1>5, <2>1, FS_Singleton
<1> QED
  BY <1>4, <1>5

(* A search_t is never in two hands, and in none after its reply. *)
THEOREM Ownership == Spec => []OneOwner
BY Invariance, OnePlace, PTL

-----------------------------------------------------------------------------
LEMMA NextNoLost ==
  ASSUME PushFd # 0
  PROVE  TypeOK /\ NoLostResponse /\ [Next]_vars => NoLostResponse'
<1> SUFFICES ASSUME TypeOK, NoLostResponse, [Next]_vars PROVE NoLostResponse'
  OBVIOUS
<1> USE DEF NoLostResponse, loopVars, updateVars, resultVars, otherVars
<1>1. ASSUME NEW t \in Threads, PushResponse(t) PROVE NoLostResponse'
  <2>1. pc'[t] = "signal"
    BY <1>1 DEF PushResponse, TypeOK
  <2> QED
    BY <2>1
<1>2. ASSUME NEW t \in Threads, Signalfd(t) PROVE NoLostResponse'
  <2>1. pipe \in Nat /\ pipe' = pipe + 1
    BY <1>2 DEF Signalfd, TypeOK
  <2>2. pipe' > 0
    BY <2>1
  <2> QED
    BY <2>2
<1>3. ASSUME NEW t \in Threads, PopRequest(t) \/ ReadLock(t) \/ Unlock(t) PROVE NoLostResponse'
  <2>1. UNCHANGED <<response, loop, pipe>>
    BY <1>3 DEF PopRequest, ReadLock, Unlock
  <2>2. \A u \in Threads : pc[u] = "signal" => pc'[u] = "signal"
    BY <1>3 DEF PopRequest, ReadLock, Unlock, TypeOK
  <2> QED
    BY <2>1, <2>2
<1>4. CASE Readable
  BY <1>4 DEF Readable
<1>5. CASE Drain
  BY <1>5 DEF Drain
<1>6. CASE Acknowledge
  BY <1>6 DEF Acknowledge
<1>7. ASSUME UNCHANGED <<response, pipe, pc>>, loop = "dispatch" \/ loop' \in {loop, "gone"}
      PROVE  NoLostResponse'
  BY <1>7
<1> QED
  BY <1>1, <1>2, <1>3, <1>4, <1>5, <1>6, <1>7
  DEF Next, searchRunner, updateRunner, Search, Update, Push, Shutdown, DispatchReturns,
      PopUpdate, NobodyThere, WriteLock, WriteUnlock, DropBirthday, vars

(* With any number of search threads and a pipe of any size, a response    *)
(* never waits without something to wake the loop, as long as the thread's *)
(* end of the socket pair is not descriptor 0.                             *)
THEOREM ResponseDelivered ==
  ASSUME PushFd # 0
  PROVE  Spec => []NoLostResponse
<1>1. Init => NoLostResponse
  BY DEF Init, NoLostResponse
<1> QED
  BY <1>1, NextNoLost, TypeCorrect, PTL DEF Spec

-----------------------------------------------------------------------------
(* What is still to come is the update popped and the queue. *)
Todo == (IF upd = NoUpdate THEN <<>> ELSE <<upd>>) \o updates

LEMMA TodoSteps ==
  ASSUME TypeOK
  PROVE  /\ Push => Todo' = Append(Todo, Head(ops))
         /\ PopUpdate => Todo' = Todo
         /\ NobodyThere \/ WriteUnlock =>
              Todo # <<>> /\ Head(Todo) = upd /\ Tail(Todo) = Todo'
<1> USE DaemonAssumption DEF TypeOK, loopVars, updateVars, resultVars, otherVars
<1>1. ASSUME Push PROVE Todo' = Append(Todo, Head(ops))
  <2>1. Head(ops) \in Updates
    BY <1>1, OccTail DEF Push
  <2>2. updates' = Append(updates, Head(ops)) /\ upd' = upd
    BY <1>1 DEF Push
  <2>3. CASE upd = NoUpdate
    BY <2>1, <2>2, <2>3, ConcatEmptySeq, AppendProperties DEF Todo
  <2>4. CASE upd # NoUpdate
    BY <2>1, <2>2, <2>4 DEF Todo
  <2> QED
    BY <2>3, <2>4
<1>2. ASSUME PopUpdate PROVE Todo' = Todo
  <2>1. Head(updates) \in Updates /\ Tail(updates) \in Seq(Updates) /\ updates # <<>>
    BY <1>2, OccTail DEF PopUpdate
  <2>2. upd = NoUpdate /\ upd' = Head(updates) /\ upd' # NoUpdate /\ updates' = Tail(updates)
    BY <1>2, <2>1 DEF PopUpdate
  <2>3. Todo = updates
    BY <2>2, ConcatEmptySeq DEF Todo
  <2>4. Todo' = <<Head(updates)>> \o Tail(updates)
    BY <2>2 DEF Todo
  <2>5. <<Head(updates)>> \o Tail(updates) = updates
    BY <2>1
  <2> QED
    BY <2>3, <2>4, <2>5
<1>3. ASSUME NobodyThere \/ WriteUnlock
      PROVE  Todo # <<>> /\ Head(Todo) = upd /\ Tail(Todo) = Todo'
  <2>1. upd \in Updates /\ upd # NoUpdate /\ upd' = NoUpdate /\ updates' = updates
    BY <1>3 DEF NobodyThere, WriteUnlock
  <2>2. Todo = <<upd>> \o updates
    BY <2>1 DEF Todo
  <2>3. Todo' = updates
    BY <2>1, ConcatEmptySeq DEF Todo
  <2>4. <<upd>> \o updates # <<>> /\ Head(<<upd>> \o updates) = upd
        /\ Tail(<<upd>> \o updates) = updates
    BY <2>1
  <2> QED
    BY <2>2, <2>3, <2>4
<1> QED
  BY <1>1, <1>2, <1>3

LEMMA StepRefines == IInv /\ IInv' /\ [Next]_vars => [Service!Next]_(Service!vars)
<1> SUFFICES ASSUME IInv, IInv', [Next]_vars PROVE [Service!Next]_(Service!vars)
  OBVIOUS
<1> USE DEF Service!Next, loopVars, updateVars, resultVars, otherVars
<1>0. TypeOK
  BY DEF IInv
<1>1. ASSUME NEW s \in Searches, Search(s) PROVE Service!Next
  BY <1>1 DEF Search, Service!Ask
<1>2. CASE Push
  <2>1. Head(ops) \in Updates
    BY <1>0, <1>2, OccTail DEF Push, TypeOK
  <2>2. Todo' = Append(Todo, Head(ops))
    BY <1>0, <1>2, TodoSteps
  <2>3. Service!Promise(Head(ops))
    BY <1>2, <2>2 DEF Push, Service!Promise, Todo
  <2> QED
    BY <2>1, <2>3
<1>3. CASE Drain /\ response # <<>>
  <2> DEFINE s == Head(response)
  <2>1. s \in Searches /\ s \in Occ(response)
    BY <1>0, <1>3, OccTail DEF TypeOK
  <2>2. s \in DOMAIN seen /\ s \in asked
    BY <2>1 DEF IInv, SeenInTime
  <2>3. Reply(s) /\ UNCHANGED <<updates, upd, applied>>
    BY <1>3 DEF Drain
  <2> HIDE DEF s
  <2>4. Service!Reply(s)
    BY <2>2, <2>3 DEF Service!Reply, Reply, Forget
  <2> QED
    BY <2>1, <2>4
<1>4. ASSUME NEW t \in Threads, PopRequest(t) PROVE Service!Next
  <2> DEFINE s == Head(request)
  <2>1. s \in Searches /\ s \in Occ(request)
    BY <1>0, <1>4, OccTail DEF PopRequest, TypeOK
  <2>2. s \in asked /\ s \notin DOMAIN begun
    BY <2>1 DEF IInv, AllThere, SeenInTime
  <2>3. begun' = Note(begun, s, Len(applied)) /\ UNCHANGED <<asked, seen, updates, upd, applied>>
    BY <1>4 DEF PopRequest
  <2> HIDE DEF s
  <2>4. Service!Begin(s)
    BY <2>2, <2>3 DEF Service!Begin, Note
  <2> QED
    BY <2>1, <2>4
<1>5. ASSUME NEW t \in Threads, ReadLock(t) PROVE Service!Next
  <2>1. srch[t] \in Searches /\ srch[t] # NoSearch
    BY <1>0, <1>5 DEF ReadLock, TypeOK
  <2>2. srch[t] \in DOMAIN begun /\ srch[t] \notin DOMAIN seen
    BY <1>5, <2>1 DEF ReadLock, IInv, SeenInTime
  <2>3. Service!Look(srch[t])
    BY <1>5, <2>2 DEF ReadLock, Service!Look, Note
  <2> QED
    BY <2>1, <2>3
<1>6. CASE PopUpdate
  <2>1. Todo' = Todo
    BY <1>0, <1>6, TodoSteps
  <2> QED
    BY <1>6, <2>1 DEF PopUpdate, Todo, Service!vars
<1>7. CASE NobodyThere \/ WriteUnlock
  <2>1. Todo # <<>> /\ Head(Todo) = upd /\ Tail(Todo) = Todo'
    BY <1>0, <1>7, TodoSteps
  <2>2. Service!TakeEffect
    BY <1>7, <2>1 DEF NobodyThere, WriteUnlock, Todo, Service!TakeEffect
  <2> QED
    BY <2>2
<1>8. ASSUME UNCHANGED <<asked, begun, seen, updates, upd, applied>>
      PROVE  UNCHANGED Service!vars
  BY <1>8 DEF Service!vars
<1> QED
  BY <1>1, <1>2, <1>3, <1>4, <1>5, <1>6, <1>7, <1>8
  DEF Next, searchRunner, updateRunner, Update, Acknowledge, Readable, Drain, Shutdown,
      DispatchReturns, Unlock, PushResponse, Signalfd, WriteLock, DropBirthday, vars

(* The daemon, with any number of threads, implements the service its      *)
(* clients see: updates in the order of their requests, and replies that   *)
(* come from lists and then users read since the request, once each.       *)
THEOREM Refinement == Spec => ImplementsService
<1>1. Init => Service!Init
  <2>1. <<>> \o <<>> = <<>>
    OBVIOUS
  <2> QED
    BY <2>1 DEF Init, Service!Init
<1> QED
  BY <1>1, StepRefines, Invariance, PTL DEF Spec, ImplementsService, Service!Spec
=============================================================================
