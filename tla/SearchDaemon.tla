---------------------------- MODULE SearchDaemon ----------------------------
(***************************************************************************)
(* The daemon (usersearch.c): one thread runs libevent's loop and the HTTP *)
(* handlers, some threads run searchRunner, one runs updateRunner.  They   *)
(* share three tqueues, request, response and updates, a socket pair over  *)
(* which the search threads tell the loop that there is a response, and    *)
(* the rwlock of search_data.                                              *)
(*                                                                         *)
(* A queue is the first-in first-out queue that TQueue implements; waiting *)
(* in pop is not having an item to take, which is enough because TQueue    *)
(* loses no wakeup.  A search reads the lists before it takes the lock and *)
(* the users under it, so it is reduced to two numbers of updates: how     *)
(* many were applied when it began to collect, and when it read the users. *)
(* SearchData and SearchQuery say what updates and searches do,            *)
(* ConcurrentSearch what a search finds between the two.                   *)
(***************************************************************************)
EXTENDS Sequences, FiniteSets, Naturals

CONSTANTS
  Searches,   \* the search_t: asked, answered, and later asked again
  Requests,   \* the update requests, each made once
  Ops,        \* request -> the updates its handler pushes, none if it FAILs
  Kind,       \* update -> what updateRunner makes of it
  Threads,    \* the search threads
  NoSearch,   \* what a thread in pop is on
  NoUpdate,   \* what the update thread in pop is on
  PushFd,     \* the searchers' end of the socket pair
  PipeSize,   \* bytes it holds before a write blocks (hundreds in reality)
  ReadSize    \* bytes read at once (64 in the code)

Updates == UNION {{Ops[r][n] : n \in DOMAIN Ops[r]} : r \in Requests}

(* setUser; updateUser, apart the fields that take the user off a list of  *)
(* interests or of birthdays; and delUser.                                 *)
Kinds == {"add", "set", "unset", "delete"}

ASSUME DaemonAssumption ==
  /\ Ops \in [Requests -> Seq(Updates)]
  /\ Kind \in [Updates -> Kinds]
  /\ NoSearch \notin Searches /\ NoUpdate \notin Updates
  /\ PushFd \in Nat
  /\ PipeSize \in Nat \ {0} /\ ReadSize \in Nat \ {0}

VARIABLES
  loop,      \* what the event loop is doing
  ops,       \* what the update handler still has to push
  request,   \* queue of searches to do
  response,  \* queue of searches done
  updates,   \* queue of updates to apply
  pipe,      \* bytes in the socket pair
  pc,        \* thread -> where searchRunner is
  srch,      \* thread -> the search it owns: from pop until it pushes the response
  upc,       \* where updateRunner is
  upd,       \* the update it has popped and not yet applied
  asked,     \* the searches requested and not yet replied to
  begun,     \* search -> number of updates applied when it began to read the lists
  seen,      \* search -> number of updates applied when it read the users
  called,    \* update requests so far
  applied    \* the updates applied, in order

loopVars == <<loop, ops, called>>
updateVars == <<updates, upc, upd, applied>>
resultVars == <<asked, begun, seen>>
vars == <<loopVars, updateVars, resultVars, request, response, pipe, pc, srch>>

LoopStates == {"dispatch", "drain", "push", "joining", "gone"}
Up == loop # "gone"

Init ==
  /\ loop = "dispatch" /\ ops = <<>>
  /\ request = <<>> /\ response = <<>> /\ updates = <<>>
  /\ pipe = 0
  /\ pc = [t \in Threads |-> "pop"]
  /\ srch = [t \in Threads |-> NoSearch]
  /\ upc = "pop" /\ upd = NoUpdate
  /\ asked = {}
  /\ begun = [s \in {} |-> 0] /\ seen = [s \in {} |-> 0]
  /\ called = {} /\ applied = <<>>

(* f with s noted as n, and f without s. *)
Note(f, s, n) == [x \in DOMAIN f \cup {s} |-> IF x = s THEN n ELSE f[x]]
Forget(f, s) == [x \in DOMAIN f \ {s} |-> f[x]]

-----------------------------------------------------------------------------
(* The event loop: one handler at a time, to its end.                      *)

(* handle_request_search, with a new search_t. *)
Search(s) ==
  /\ loop = "dispatch"
  /\ s \notin asked
  /\ asked' = asked \cup {s}
  /\ request' = Append(request, s)
  /\ UNCHANGED <<loopVars, updateVars, begun, seen, response, pipe, pc, srch>>

(* handle_request_updateuser, adduser, deleteuser, up to the first push. *)
Update(r) ==
  /\ loop = "dispatch"
  /\ r \notin called
  /\ called' = called \cup {r}
  /\ loop' = "push" /\ ops' = Ops[r]
  /\ UNCHANGED <<updateVars, resultVars, request, response, pipe, pc, srch>>

(* Mutant of Push: an update that finds another in the queue is dropped.   *)
PushIfEmpty ==
  /\ loop = "push" /\ ops # <<>>
  /\ updates' = IF updates = <<>> THEN <<Head(ops)>> ELSE updates
  /\ ops' = Tail(ops)
  /\ UNCHANGED <<loop, called, upc, upd, applied, resultVars, request, response, pipe, pc, srch>>

(* push_update, and the pushes of adduser and deleteuser: each update by   *)
(* itself, so the update thread may be between two of one request.         *)
Push ==
  /\ loop = "push" /\ ops # <<>>
  /\ updates' = Append(updates, Head(ops))
  /\ ops' = Tail(ops)
  /\ UNCHANGED <<loop, called, upc, upd, applied, resultVars, request, response, pipe, pc, srch>>

(* SUCCESS (or FAIL) goes out when everything is pushed. *)
Acknowledge ==
  /\ loop = "push" /\ ops = <<>>
  /\ loop' = "dispatch"
  /\ UNCHANGED <<ops, called, updateVars, resultVars, request, response, pipe, pc, srch>>

(* The socket is readable: handle_queue_searchresponse reads what there is.*)
Readable ==
  /\ loop = "dispatch"
  /\ \E n \in 1..ReadSize : n <= pipe /\ pipe' = pipe - n
  /\ loop' = "drain"
  /\ UNCHANGED <<ops, called, updateVars, resultVars, request, response, pc, srch>>

(* The reply to s is sent, and s deleted. *)
Reply(s) ==
  /\ asked' = asked \ {s}
  /\ begun' = Forget(begun, s) /\ seen' = Forget(seen, s)

(* Mutant of Drain: `if' for `while', one response for each event. *)
DrainOne ==
  /\ loop = "drain"
  /\ loop' = "dispatch"
  /\ IF response = <<>> THEN UNCHANGED <<response, resultVars>>
     ELSE Reply(Head(response)) /\ response' = Tail(response)
  /\ UNCHANGED <<ops, called, updateVars, request, pipe, pc, srch>>

(* Mutant of Drain: the response is read and stays in the queue. *)
DrainAndKeep ==
  /\ loop = "drain"
  /\ IF response = <<>> THEN UNCHANGED resultVars ELSE Reply(Head(response))
  /\ loop' = "dispatch"
  /\ UNCHANGED <<ops, called, updateVars, request, response, pipe, pc, srch>>

(* It replies to everything in the response queue, then goes back. *)
Drain ==
  /\ loop = "drain"
  /\ IF response = <<>>
     THEN loop' = "dispatch" /\ UNCHANGED <<response, resultVars>>
     ELSE /\ Reply(Head(response))
          /\ response' = Tail(response)
          /\ UNCHANGED loop
  /\ UNCHANGED <<ops, called, updateVars, request, pipe, pc, srch>>

(* handle_request_shutdown: exit(0), with whatever the threads are doing. *)
Shutdown ==
  /\ loop = "dispatch"
  /\ loop' = "gone"
  /\ UNCHANGED <<ops, called, updateVars, resultVars, request, response, pipe, pc, srch>>

(* event_dispatch returns, which libevent does on errors: main makes the   *)
(* request queue non-blocking and joins the search threads.  They loop     *)
(* while their state is set, nothing clears it, and so main stays there.   *)
DispatchReturns ==
  /\ loop = "dispatch"
  /\ loop' = "joining"
  /\ UNCHANGED <<ops, called, updateVars, resultVars, request, response, pipe, pc, srch>>

-----------------------------------------------------------------------------
(* searchRunner, in thread t.  searchUsers is PopRequest's search from     *)
(* here to Unlock: the lists are read in "gather", the users in "scan".    *)
PopRequest(t) ==
  /\ Up /\ pc[t] = "pop"
  /\ request # <<>>
  /\ srch' = [srch EXCEPT ![t] = Head(request)]
  /\ request' = Tail(request)
  /\ begun' = Note(begun, Head(request), Len(applied))
  /\ pc' = [pc EXCEPT ![t] = "gather"]
  /\ UNCHANGED <<loopVars, updateVars, asked, seen, response, pipe>>

(* The read lock goes past a writer that waits, not past one that has it.  *)
ReadLock(t) ==
  /\ Up /\ pc[t] = "gather"
  /\ upc # "write"
  /\ seen' = Note(seen, srch[t], Len(applied))
  /\ pc' = [pc EXCEPT ![t] = "scan"]
  /\ UNCHANGED <<loopVars, updateVars, asked, begun, request, response, pipe, srch>>

Unlock(t) ==
  /\ Up /\ pc[t] = "scan"
  /\ pc' = [pc EXCEPT ![t] = "push"]
  /\ UNCHANGED <<loopVars, updateVars, resultVars, request, response, pipe, srch>>

PushResponse(t) ==
  /\ Up /\ pc[t] = "push"
  /\ response' = Append(response, srch[t])
  /\ srch' = [srch EXCEPT ![t] = NoSearch]
  /\ pc' = [pc EXCEPT ![t] = "signal"]
  /\ UNCHANGED <<loopVars, updateVars, resultVars, request, pipe>>

(* Mutant of Signalfd: a write that never blocks, on a pipe that grows. *)
SignalfdUnbounded(t) ==
  /\ Up /\ pc[t] = "signal"
  /\ pipe' = pipe + 1
  /\ pc' = [pc EXCEPT ![t] = "pop"]
  /\ UNCHANGED <<loopVars, updateVars, resultVars, request, response, srch>>

(* Mutant of Signalfd: only the response that finds the queue empty is     *)
(* signalled, by a look at the queue after the push.                       *)
SignalfdIfFirst(t) ==
  /\ Up /\ pc[t] = "signal"
  /\ pipe < PipeSize
  /\ pipe' = IF Len(response) = 1 THEN pipe + 1 ELSE pipe
  /\ pc' = [pc EXCEPT ![t] = "pop"]
  /\ UNCHANGED <<loopVars, updateVars, resultVars, request, response, srch>>

(* signalfd: one byte, a blocking write, and none at all to descriptor 0. *)
Signalfd(t) ==
  /\ Up /\ pc[t] = "signal"
  /\ IF PushFd = 0 THEN UNCHANGED pipe ELSE pipe < PipeSize /\ pipe' = pipe + 1
  /\ pc' = [pc EXCEPT ![t] = "pop"]
  /\ UNCHANGED <<loopVars, updateVars, resultVars, request, response, srch>>

-----------------------------------------------------------------------------
(* updateRunner. *)
otherVars == <<ops, called, resultVars, request, response, pipe, pc, srch>>

(* Where updateUser and delUser go with a userid nobody has; setUser goes  *)
(* for the lock in any case.                                               *)
Ways(u) == IF Kind[u] = "add" THEN {"lock"} ELSE {"lock", "nobody"}

(* Mutant of PopUpdate: the newest update first. *)
PopNewest ==
  /\ Up /\ upc = "pop" /\ updates # <<>>
  /\ upd' = updates[Len(updates)]
  /\ updates' = SubSeq(updates, 1, Len(updates) - 1)
  /\ upc' \in Ways(upd')
  /\ UNCHANGED <<loop, applied, otherVars>>

PopUpdate ==
  /\ Up /\ upc = "pop" /\ updates # <<>>
  /\ upd' = Head(updates)
  /\ updates' = Tail(updates)
  /\ upc' \in Ways(upd')
  /\ UNCHANGED <<loop, applied, otherVars>>

(* There is no such user: nothing is changed and nothing locked. *)
NobodyThere ==
  /\ Up /\ upc = "nobody"
  /\ applied' = Append(applied, upd)
  /\ upd' = NoUpdate /\ upc' = "pop"
  /\ UNCHANGED <<loop, updates, otherVars>>

(* The write lock waits for all who read, the later ones too. *)
WriteLock ==
  /\ Up /\ upc = "lock"
  /\ \A t \in Threads : pc[t] # "scan"
  /\ upc' = "write"
  /\ UNCHANGED <<loop, updates, upd, applied, otherVars>>

(* The update and the unlock.  Taking a user off a list he is not on can   *)
(* kill the process (SearchData's DeleteOutcomes).                         *)
WriteUnlock ==
  /\ Up /\ upc = "write"
  /\ applied' = Append(applied, upd)
  /\ upd' = NoUpdate
  /\ upc' = IF Kind[upd] = "delete" THEN "bday" ELSE "pop"
  /\ loop' \in {loop} \cup (IF Kind[upd] = "unset" THEN {"gone"} ELSE {})
  /\ UNCHANGED <<updates, otherVars>>

(* delUser takes the slot off the birthday list after it has unlocked, if  *)
(* it is on it or not.                                                     *)
DropBirthday ==
  /\ Up /\ upc = "bday"
  /\ upc' = "pop"
  /\ loop' \in {loop, "gone"}
  /\ UNCHANGED <<updates, upd, applied, otherVars>>

searchRunner(t) ==
  PopRequest(t) \/ ReadLock(t) \/ Unlock(t) \/ PushResponse(t) \/ Signalfd(t)
updateRunner == PopUpdate \/ NobodyThere \/ WriteLock \/ WriteUnlock \/ DropBirthday

Next ==
  \/ \E s \in Searches : Search(s)
  \/ \E r \in Requests : Update(r)
  \/ Push \/ Acknowledge \/ Readable \/ Drain \/ Shutdown \/ DispatchReturns
  \/ \E t \in Threads : searchRunner(t)
  \/ updateRunner

Spec == Init /\ [][Next]_vars

(* Every thread that can go on does.  For the loop that is libevent's      *)
(* polling: a readable socket is handled, however many requests come.  The *)
(* update thread gets the write lock only when it stays free: glibc lets   *)
(* readers go first.                                                       *)
Fairness ==
  /\ WF_vars(Push \/ Acknowledge \/ Drain) /\ SF_vars(Readable)
  /\ \A t \in Threads : WF_vars(searchRunner(t))
  /\ WF_vars(updateRunner)

FairSpec == Spec /\ Fairness

-----------------------------------------------------------------------------
TypeOK ==
  /\ loop \in LoopStates
  /\ ops \in Seq(Updates) /\ (ops # <<>> => loop \in {"push", "gone"})
  /\ request \in Seq(Searches) /\ response \in Seq(Searches) /\ updates \in Seq(Updates)
  /\ pipe \in 0..PipeSize
  /\ pc \in [Threads -> {"pop", "gather", "scan", "push", "signal"}]
  /\ srch \in [Threads -> Searches \cup {NoSearch}]
  /\ \A t \in Threads : srch[t] = NoSearch <=> pc[t] \in {"pop", "signal"}
  /\ upc \in {"pop", "nobody", "lock", "write", "bday"}
  /\ upd \in Updates \cup {NoUpdate} /\ (upd = NoUpdate <=> upc \in {"pop", "bday"})
  /\ asked \subseteq Searches
  /\ begun \in [DOMAIN begun -> Nat] /\ DOMAIN begun \subseteq Searches
  /\ seen \in [DOMAIN seen -> Nat] /\ DOMAIN seen \subseteq Searches
  /\ called \subseteq Requests /\ applied \in Seq(Updates)

(* Where a search is: each place that holds the pointer.                   *)
Places(s) ==
  {<<"request", n>> : n \in {m \in DOMAIN request : request[m] = s}}
  \cup {<<"thread", t>> : t \in {u \in Threads : srch[u] = s}}
  \cup {<<"response", n>> : n \in {m \in DOMAIN response : response[m] = s}}

(* A search_t goes from the handler through two queues and a thread to the *)
(* reply, which deletes it, without a lock of its own: until the reply it  *)
(* is always in one place, so no two threads touch it, and after it in     *)
(* none, so it is not replied to (and deleted) again.                      *)
OneOwner ==
  \A s \in Searches : Cardinality(Places(s)) = IF s \in asked THEN 1 ELSE 0

(* "to tell the main thread that there is new stuff in the queue"          *)
(* (usersearch.c:59): a response never waits in the queue with nothing to  *)
(* bring the loop to it, although bytes and responses are not matched one  *)
(* to one: a read takes several bytes, and a reply may be sent before its  *)
(* byte is written.                                                        *)
NoLostResponse ==
  (response # <<>> /\ loop \in {"dispatch", "push"}) =>
    pipe > 0 \/ \E t \in Threads : pc[t] = "signal"

(* The daemon keeps its promises: updates take effect in the order of the  *)
(* requests, and a reply is the result of lists and users read since its   *)
(* own request, the lists before the users, and is sent once.              *)
Service == INSTANCE SearchService WITH
  todo <- (IF upd = NoUpdate THEN <<>> ELSE <<upd>>) \o updates, effect <- applied
ImplementsService == Service!Spec

(* Every search gets its reply while the event loop runs. *)
SearchReplied ==
  \A s \in Searches : s \in asked ~> (s \notin asked \/ loop \in {"joining", "gone"})

(* What was acknowledged comes into effect, unless the daemon is shut down *)
(* or dies, or its searches overlap for ever: SUCCESS is sent when the     *)
(* updates are queued, and readers go first at the rwlock.                 *)
UpdatesApplied ==
  \A r \in Requests :
    <>[](\A t \in Threads : pc[t] # "scan") =>
      ((r \in called /\ loop = "dispatch") ~>
        (loop = "gone" \/ \A n \in DOMAIN Ops[r] : \E m \in DOMAIN applied : applied[m] = Ops[r][n]))
=============================================================================
