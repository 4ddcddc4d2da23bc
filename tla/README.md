# Verification of the user search daemon

The daemon of this repository keeps the users of a site in memory and answers
searches over HTTP: by age, sex and other fields, by place, by interest, by
birthday. This directory holds TLA+ models of it, configurations with which
TLC checks them on small instances, and proofs, checked by TLAPS, for
instances of every size.

Source locations are given as `file:line` under `src/`.

## 1. The system

### 1.1 Parts, their state and operations

| Part | Source | State | Operations |
|---|---|---|---|
| `search_data` | `search.c`, `search.h` | `userlist` and `usermap` (by slot), `useridmap` (userid to slot), `deluserlist` (stack of free slots), `loclist`, `interestlist`, `bday` (usersets of slots), `rwlock` | `setUser`, `updateUser`, `delUser`; `searchUsers` |
| `userset` | `usersetbase.h`, `iterpair.h` | a sorted vector of slots and a read-write lock | `addUser`, `deleteUser`, `union_set`, `intersect_set`, of one other set or of several |
| `tqueue` | `tqueue.h` | a queue, its mode, a mutex and a condition variable | `push`, `pop`, `block`, `nonblock` |
| daemon | `usersearch.c` | three tqueues (`request`, `response`, `updates`), a socket pair, the threads | HTTP handlers, `searchRunner`, `updateRunner`, `handle_queue_searchresponse`, shutdown |
| loader | `search.c:291-524` | `locationtree`, the rest in `search_data` | reads locations, users, interests; or makes random users |
| `sparse_bit_array` | `sparsebitarray.h`; `sparsebitarray2.h` | a string of run-length coded bits; a list of such strings (frames) | `setbit`, `unsetbit`, `size`, iteration; splitting and joining frames |
| others | `interests*.h`, `searchtest.c`, `network.c`, `*.php`, the benchmark mode | | see section 7 |

### 1.2 How they interact

One thread runs libevent's loop. A handler runs to its end before the next
one starts. `/search` builds a `search_t` and pushes it on `request`; a search
thread pops it, calls `searchUsers`, pushes it on `response` and writes one
byte to the socket pair; the loop sees the socket readable, reads up to 64
bytes, and replies to everything on `response`. `/adduser`, `/updateuser` and
`/deleteuser` push updates on `updates`, one for each field, and answer
SUCCESS; the one update thread pops and applies them. So there is exactly one
writer of `search_data`, and searches run beside it.

`rwlock` is held for writing through an update (but not while `delUser` takes
the slot off the birthday list, after its unlock) and for reading through the
scan of a search, but not while a search collects slots from the location and
interest lists. Each list has a lock of its own for single additions,
removals and merges.

### 1.3 What is hard in it

* **Slots and reuse.** Four structures and three families of lists name slots;
  every add, replace, move, delete and reuse must change all of them.
* **Interleaving.** Searches read lists that the update thread changes one by
  one, and use slots later than they read them.
* **Wakeups.** `push` signals after the unlock; bytes in the socket pair and
  responses in the queue are not matched one to one.
* **Ownership.** A `search_t` crosses three threads without a lock.
* **Boundaries.** Reads through `end()`, unchecked indices, the merge of
  several sets through a raw pointer, the seam of a random scan, page cutting.
* **Sequences of legal calls.** Interests that outlive their user; the coding
  of the bit array after a particular set and unset, or after a split and a
  join.
* **Files that disagree.** Users twice, interests of nobody, values wider than
  the fields they go to.

The list under "hazards" in `PROJECT.json` gives each at its line, with the
properties that cover it or the reason why none does.

### 1.4 What makes each part correct

* `search_data`: behind the slots it is a dictionary from userid to struct;
  the maps are inverse, the free stack is exact, the location lists are exact.
* `searchUsers`: finds exactly the users who were given what it asks for, as
  far as the lists keep what was given; pages fit together; against concurrent
  updates, its rows are those of one instant and users whom no update touches
  are found exactly when they match.
* `userset`: a merge stays within its vector, misses nothing, ends, and of
  several sets gives what one set after the other gives unless it ignores one.
* `tqueue`: a first-in first-out queue without lost wakeups.
* daemon: each search has one owner and gets one reply, from lists and then
  users read since the request; updates take effect in order, and all do,
  unless the process goes or searches overlap for ever. No one moment is
  promised of which a reply is true.
* loader: what it leaves is a state of `search_data`, and the lists in it are
  what the rows say, whatever their order.
* `sparse_bit_array`: a set of positions, of which `size` and the iterator tell
  the truth; the frames of the second version do not show.

## 2. Modules

| Module | What it is |
|---|---|
| `UserStruct` | `user_t`, the widths of its fields, `SetField` (which truncates) |
| `UserDirectory` | abstract: a dictionary from userids to structs |
| `SearchData` | `search_data`, one action for each public method that changes it |
| `Loader` | `loaddata` row by row, then `SearchData` |
| `SortedVector`, `VectorProofs` | the vector behind a userset, as a function of the set; lemmas on vectors, induction and recursion |
| `ListHistory` | `SearchData` beside what its callers have asked for: who was given which interest or birthday |
| `SearchQuery` | `searchUsers` as a function of the state of `SearchData`, against that history |
| `SearchDataProofs` | theorems about `SearchData`, `Loader`, `ListHistory` and `SearchQuery` |
| `ConcurrentSearch`, `ConcurrentProofs` | `searchUsers` step by step, against the update thread; theorems |
| `UserSetCombine`, `UserSetCombineProofs` | `userset::combine` of several sets, one turn of its loop at a time; theorems |
| `FifoQueue` | abstract: a queue that delivers each item once, in order |
| `TQueue`, `TQueueProofs` | `tqueue` and theorems about it |
| `SearchService` | abstract: what the daemon promises its clients |
| `SearchDaemon`, `SearchDaemonProofs` | the event loop, the threads, the queues; theorems |
| `RunLength` | the coding of both versions of `sparse_bit_array`, and their `set` |
| `SparseBitArray` | the first version |
| `SparseFrames` | the second version |
| `SparseVersions` | both versions given the same calls |
| `RunLengthProofs` | lemmas on the coding, for every string and every arm of `set` |
| `SparseVersionsProofs` | theorems about both versions |
| `MC*` | instances for TLC |

`TQueue` implements `FifoQueue`; `SearchDaemon` uses queues that are atomic and
first-in first-out, which that refinement and `WakeupsSuffice` justify.
`SearchData` implements `UserDirectory`; `ListHistory` adds history variables to
it, and `SearchQuery` extends that, so its searches are asked in every state
that any history of updates reaches, and beside what that history was.
`SearchDaemon` implements `SearchService`. `Loader` extends `SearchData` and
implements it, so its histories begin with the program's. `SparseVersions`
composes the two bit arrays.

### 2.1 `SearchData`

Variables have the names of the members. `userlist` and `usermap` are
sequences read from index 0 through `At`; slot 0 is the null user, as in the
code. `useridmap`, `loclist` and `interestlist` are vectors that grow in the
code: `useridmap` and `loclist` are total here, with 0 and the empty set beyond
the end (nothing can tell), while `interestlist` keeps its length because
`unsetInterest` depends on it. `bdayStorage` and `crashed` stand for what
`deleteUser` does with a slot that is not in the set (`usersetbase.h:105`): it
reads what `end()` points to, which is a null pointer if the vector never had
storage and a stale word otherwise. `DeleteOutcomes` lists the possible
results.

`setUser` has three actions for its three arms (`ReplaceUser`, `ReuseSlot`,
`AppendUser`); `updateUser` has one for each kind of field; `delUser` is one
action including `unsetLoc` and the birthday list. `SetLoc` and `UnsetLoc` are
the loops up the location tree. The tree is the constant `locationtree`; the
code reads it once, before any thread runs.

Fields are stored at their width (`SetField`): age 256 is stored as 0, and
location 65538 as 2, and the lists must follow what is stored.

### 2.2 `ListHistory` and `SearchQuery`

What a search asks for is who *was given* an interest or a birthday, and that is
not what the lists say: `delUser` leaves a slot on its interest lists for the
next owner, and a `deleteUser` that does not find its slot may erase the last
entry of the vector, somebody else's. So the answer is not read off the lists.
`given` holds the pairs of user and list (0 for birthdays, `k + 1` for interest
`k`) that calls have added and not taken back; `heirs` the pairs a new user has
come by with its slot, and `erased` the pairs lost to the removal of another
slot, each recorded at the step that does it. `HistNext` is each action of
`SearchData` with what it adds to the history; its behaviours are those of
`SearchData` (`HistoryImplementsData`).

`Lists` gives the lists a search intersects, in the order of `searchUsers`;
`intersect_set` has the early return of `combine`; `ScanRow` is the body of
`scanList` and `scanFull`; `ScanOrders` gives the orders in which a scan may
go, one for each place a random search may start. `searchUsers(q)` is the set
of possible results. A set of slots is scanned in the order of its vector
(`SortedVector`), which is ascending. A random search is always a quick one for
one row from the first on, because `handle_request_search` makes it so
(`usersearch.c:221`); `QueryAssumption` says it.

### 2.3 `ConcurrentSearch`

A user is reduced to a location and one bit, whether the other criteria accept
it. An update takes `rwlock` and changes maps and structs in one step (nobody
reads them without the lock), then the location lists one at a time. A search
measures a list without a lock, merges it under the list's lock, goes on to
the next, takes the read lock, scans slot by slot, and returns. `matched`,
`settled`, `steady` and `snapshot` are history variables for the properties.
`overrun` records a merge that found more slots than it made room for.

### 2.4 `TQueue`

Everything under the mutex is one step. The signal of `push` and the broadcast
of `block` and `nonblock` come after the unlock and are steps of their own. A
thread in `pop` is waiting, or woken and on its way back, or neither. Spurious
wakeups happen at any time and are never counted on.

### 2.5 `SearchDaemon`

`loop` is where the event loop is. `Update` begins a handler, `Push` is each of
its pushes, `Acknowledge` its reply; `Readable` and `Drain` are
`handle_queue_searchresponse`; `Shutdown` is `exit(0)`; `DispatchReturns` is the
end of `main`, which joins threads that never end. The handlers of `/printuser`,
`/stats` and `/help` change nothing here and are left out.

`PopRequest`, `ReadLock`, `Unlock`, `PushResponse` and `Signalfd` are
`searchRunner`. From `PopRequest` on the search reads lists without the lock
(`pc = "gather"`), from `ReadLock` to `Unlock` it reads users (`pc = "scan"`). Its
result is reduced to two numbers of updates, those applied when it began on the
lists (`begun`) and those applied when it read the users (`seen`); what it can
find between the two is `ConcurrentSearch`'s matter. A search that has been
replied to can be asked again, so that the queues never come to rest.

`PopUpdate`, `NobodyThere`, `WriteLock`, `WriteUnlock` and `DropBirthday` are
`updateRunner`. An update of a userid that nobody has does not lock; any other
waits until no search is in its scan, and searches that come later may go first.
`Kind` says which updates take a user off a list: such an `unset`, and each
delete after its unlock, may kill the process (section 6), as `DeleteOutcomes`
in `SearchData` has it. The socket pair is a number of bytes, with a bound at
which a write blocks.

`SearchService` is what is left to promise: an answer comes from lists and users
read since the request, the lists first, and is sent once; updates take effect
in order. It does not promise a moment of which the answer is true, because
`concurrent_stale` and `concurrent_missed` refute that.

### 2.6 `UserSetCombine`

A turn of the intersection finds the next value not below `cur` in one set,
first in leaps (`SkipAhead`), then step by step (`FindIn`), and then does one
of `ReachEnd`, `FindAgain`, `FindInAll` and `FindLarger`. A turn of the union
takes the smallest value any set is at. The sets do not change meanwhile.
There are at least two of them: with no other set the loop of the code would
count past `numlists` and never end. `pc = "early"` is the return before the
loop; the set then stays as it was (`Result`). `IgnoresSets` says when that
differs from combining the sets one by one: an empty set among those of an
intersection, and another that would have narrowed this one down.

### 2.7 `RunLength`, `SparseBitArray`, `SparseFrames`, `SparseVersions`

The state is the string of bytes. This is not detail for its own sake:
`encode()` stores the new width of a block in the block, and several arms of
`set` take the end of a block only after encoding it, so what they replace
depends on widths. `block`, `blocklength` and `encode` are the coding;
`Rewritten` is `set` where the bit changes, with one operator for each arm,
under its comment in the code. The two versions differ here in one thing, the
terminator the second repeats, which is a parameter.

`SparseFrames` adds the search for a frame, the splitting (`SplitFrame`) and
the joining (`JoinFrames`) that follow every call. The operands of
`cur.encode() + string(cur.blockend(), ...)` (`sparsebitarray2.h:224`) are
evaluated in an order the compiler chooses; the model has both. The search of
the second version dereferences `end()` (line 622) and does nothing with it:
the loop ends either way. The `numitems` of a frame is left out, for nothing
counts or reads it (section 6).

`FramesAssumption` says two things of the constants. A frame that is split has
at least 16 bytes, for then the block at which it is cut is neither one of its
first two nor its last, whatever the widths; the code's threshold is 100. And
twice an index, with one for each join, stays below 2^29, which is `encode`'s
own assertion (`sparsebitarray.h:298`) on the runs that the calls can make.

`AddAtEnd` has a subtle arm: a last run of 1s that grows past 31 is coded in two
bytes, and the second takes the place of the terminator. Readers do not mind,
because what follows a string reads as 0. But a later join cuts off what it
takes for the terminator, and so a byte of the run (`Unended`).

`set` has defects, and after some of them the array is no array any more. The
properties name them, and a history variable says which has happened.
`Overshoot` gives the bit that is set in place of the one asked, and the runs go
on. A join that moves bits is pinned once: `Shifted` says where they are after
it, and the array, now `astray`, is not followed further, so no bit moves
twice. Nor is it after bits have left their frame's range (`astray` too), a
failed assertion (`aborted`), or a byte too many or too few in a string
(`garbled`, or `health = "garbled"`), of which nothing is said. Up to there
everything is promised.

`SparseVersions` makes every call to both versions, and keeps the sets of
positions that the calls amount to.

### 2.8 `Loader`

`phase` goes through the files. `UserRow` is a turn of the loop of `loadusers`:
it stores the low bits of each value (`Stored`) and calls `setUser`;
`InterestRow` calls `setInterest`, which does nothing for a userid without a
user. Rows come in any order, twice, or for userids that do not exist.
`LocationRow` grows `locationtree`. A row that cannot be read ends the process
(`Reject`), and so may the `datasource` that nobody has initialised
(`NoSource`). With `rand:` users 1, 2, ... come with their interests one after
the other. Then `Serve` is any action of `SearchData`.

Which bytes a row is made of is left open. A bound: the file of locations, when
it ends, describes the constant `locationtree`; what other trees do to the
daemon is in section 6.

## 3. Runs

The times are for two workers.

| Run | Instance | Shows |
|---|---|---|
| `search_data` | `Loader`: 3 userids (0 among them), 4 locations in a tree of depth 3, 5 rows for them, one wrong, 1 interest, 2 user rows of which one overflows, 2 structs, 2 changes that overflow; 387,865 states, 50 s | loading in any order of rows and then every order of calls keeps the maps, the free stack and the lists; `LoadedAsWritten`; the dictionary is implemented |
| `search` | 2 userids, 2 locations, 1 interest (and one undefined), birthdays, 33 combinations of criteria, 56 pages and random searches, asked in every state of `ListHistory`; 35,598 states, 65 s | `SearchExact`, `PagesFit`, `RandomFindsOne` |
| `concurrent` | 1 search thread, 2 updates, 2 users, 3 locations (2 and 3 in 1), every initial table; 902,749 states, 80 s | `ListsSettle`, `ScanIsSnapshot`, `SteadyExact`, `SearchEnds` |
| `userset_combine` | all pairs and triples of subsets of 1..5, leaps of 2; 368,080 states, 15 s | `NothingMissed`, `NewlistFits`, `AgreesWithLinear` with the early return, `Terminates` |
| `tqueue` | 3 poppers, 2 pushers, 3 items, 2 changes of mode; 32,644 states, 11 s | `WakeupsSuffice`, `NoSleeperInNonblock`, the refinement, two liveness properties |
| `daemon` | 2 search threads, 2 searches asked again and again, 2 requests with 3 updates (two that may kill the process), a socket pair of 2 bytes read 2 at a time; 545,542 states, 110 s | `OneOwner`, `NoLostResponse`, the refinement, `SearchReplied`, `UpdatesApplied` |
| `sparse_bits` | both versions, positions 1, 2, 40, 80, 120, 160 and 200, frames split from 17 bytes on and joined up to 15, 3 joins; 78,883 states, 130 s | `BothCanonical`, `FramesPartition`, `BothReadExact`, `BitsAsAsked`, `VersionsAgree` |
| `interests_after_delete` | 2 userids, an interest and a birthday | violates `ListedAsGiven`, with the process alive: add, interest, birthday, delete, add another |
| `delete_crash` | 2 userids | violates `DeletingIsSafe` |
| `search_empty_list` | 2 userids | violates `EveryListLimits` |
| `concurrent_stale` | as `concurrent` | violates `RowsMatched` |
| `concurrent_missed` | as `concurrent` | violates `SettledFound` |

**Why the bounds are enough.** Three userids give two free slots at once, so
the order of the stack matters, and a slot can pass to another userid while a
third user lives on; four locations give a path of length 3 and a user outside
it. Two users, two updates and one search thread suffice for a search to see
half an update, a slot change hands under it, and one user move while the other
stands still; search threads write nothing that others read, so a second adds
states and no behaviour. Three sets of five values with leaps of 2 give sets
that are exhausted, leaps that land on, before and after the value. Three
poppers and two pushers give a waiting, a woken and an overtaking thread with
two signals pending. Two searches that are asked again as soon as they are
answered leave bytes of earlier replies behind, so a pair of two bytes fills and
blocks a writer; one read takes the bytes of two responses; and at any time one
search may be in its scan while the other waits to be, which is what starves
the update thread. In the run of `search` two users give the slot of one to the
other, with an entry erased at the end of a list.

The positions of the bit arrays give runs that join (1 and 2), are split, and
trade across the width at which a second byte is needed, for all gaps but the
first are of more than 31. So a 1 costs three bytes, and seven positions fill a
frame beyond 17; it is split without any overshoot, while the versions still
agree. Unsetting joins the halves again: a join of a frame without 1s
leaves the array sound, and there can be several; a join that moves bits is the
last call followed. With the code's thresholds of 100 and 40 bytes it would take
some thirty calls. What the positions leave out (runs of 32 1s set one by one,
for instance) the proofs cover.

The bounds are `MaxUpdates`, `MaxSwitches`, `MaxLists`, `MaxJoins`, `PipeSize`
and the finite sets in the `.cfg` files. Updates and items are each made once, searches any number of times.
`CHECK_DEADLOCK FALSE` stands where the system really may stop: everything
delivered, the process gone, or a bit array that is no longer sound or has had
its joins.

## 4. Fairness

* `TQueue`: weak fairness of each thread's own steps. The mutex is never held
  for long. The condition variable wakes whom it likes, and no spurious wakeup
  is assumed.
* `SearchDaemon`: weak fairness of each search thread, of the update thread
  and of a handler once begun; strong fairness of `Readable`, because libevent
  polls all descriptors each round, and the socket comes up among other
  requests however many there are. No request has to be made. Weak fairness of
  `updateRunner` gives it the write lock only if the lock stays free: glibc lets
  readers go first, and searches of two threads that overlap can keep it for
  ever. So `UpdatesApplied` has a premise, that from some time on no search is in
  its scan, and it exempts a process that was shut down or that an update killed.
* `ConcurrentSearch`: weak fairness of each search and of an update that holds
  the lock. None for taking the write lock: glibc prefers readers by default,
  and nothing in the code keeps overlapping searches from starving the writer.
  `SearchEnds` does not need it.
* `UserSetCombine`: its loop runs.

## 5. Proofs

All theorems hold for every value of the constants that satisfies the
module's named assumption. The assumptions are evaluated by TLC in the runs.

**`SearchDataProofs`.** `IInv == TypeOK /\ MapsAgree /\ FreeStackExact /\
LocListExact /\ ListsInRange`. No part is inductive alone. Reusing a slot keeps
the maps inverse because the free stack holds only slots without an owner, each
once; it keeps the location lists exact because such a slot is a null user, at
location 0, on no list. Moving a user removes its slot from all its lists
because the lists were exact. There is one lemma for each action
(`ReuseSlotIInv`, `AppendUserIInv`, `delUserIInv`, ...). From the invariant:
`TypeCorrect`, `MapsCorrect`, `FreeStackCorrect`, `LocListCorrect`,
`ListsCorrect`; `SlotsStay` (an action property); `Refinement`, that each step
is a step of `UserDirectory` or changes nothing there; and `SpaceBound`, for
which a slot is appended only when every slot has an owner (`GrowOnlyWhenFull`)
and owners are different userids (`FullSpace`).

The location tree is any finite or infinite table whose chains of parents end
(`RootedTree`). The loop of `setLoc` is given by closure (`Reach`) and not by
recursion; `LocPathStep` proves that this is what one turn of the loop does.

**`SearchDataProofs`, the loader.** `LoaderImplementsData`: a behaviour of the
loader and the service after it is one of `SearchData`, so its invariants hold
from the first row on (`LoaderKeepsData`); this rests on `RowsAssumption`, that
what the rows say fits `NewUsers` once stored. `LoadedExact` is about what the
lists hold meanwhile, with an invariant of its own, `LInv`. An interest list is
what the rows say of the users there are; that is not inductive. A row for
nobody is remembered too, and a user who came after it would belong on a list
he is not on: so no row is read before the users are complete. With `rand:`
users and rows alternate, so that there each row has its user
(`RandomInPlace`), and the next user is new because users are in the slots of
their own numbers. After a delete the interest lists are no longer exact
(section 6): what can be said of them then is `HistoryTellsLists`.

**`SearchDataProofs`, the history.** `HistoryImplementsData`: what `ListHistory`
remembers restricts no call, so `IInv` holds in it too. `HInv` says of each user
and each list that the user's slot is on the list iff the history tells so
(`Told`: inherited, or given and not erased), that nothing is remembered of a
user who is gone, and that no birthday is inherited. It needs `IInv`: the slot a
new user takes is on no birthday list because those name owned slots only, and
a removal takes one entry off one list, whose owner is one user. One lemma for
each action (`HistSetUserHInv`, `GiveHInv`, `TakeBackHInv`, `HistDelUserHInv`,
...). `HistoryTellsLists`.

**`ConcurrentProofs`.** `IInv == DataTypes /\ SlotsPacked /\ StepsLead`, for any
number of search threads and updates. `ListsSettle` speaks of moments without
an update; `StepsLead` carries it through one: of what remains to be done to a
list about a slot the last says what is to be, and where nothing remains the
list is as it is to be. A move may take a slot off a list and put it on again,
which is why the last counts. `SlotsPacked` is needed because a slot without an
owner must not be on a list: it makes the slot a new user gets one without an
owner, whether from the stack or the first unused. From it `ListsSettled`.

What a search finds needs an invariant about each search thread, `SInv`, beside
it. While thread `t` searches (`Searching(t)`): a user whom no update has
touched since the search began (`steady`) is where it was, so if a list already
merged names its slot (`Gathered`) the thread has the slot, unless a merge ran
out of room; and what has been scanned so far, with what the rest would give,
is the snapshot (`ScanExact`). An update keeps it because it is about one user
and one slot (`Updates(id, i)`), which is then not steady, and the steps of its
lists are all for that slot. `NullSlots` says that a slot without an owner holds
the null user, also slot 0, which a merge that ran out of room puts in the
vector; so a row is always a user (`RowType`). From it `ConcurrentTypes`,
`ScansAreSnapshots` and `SteadyUsersExact`.

**`VectorProofs`.** The vector of a set has its elements, each once, ascending
(`VectorProperties`), and is the only such sequence (`VectorUnique`). The rest
is for what the models compute with recursion. Induction over numbers is proved
from the well-foundedness of `<` on the naturals by way of sets (`NatMin`,
`IntervalInduction`), since the library's rule takes an operator. `FoldLeft` of
the community modules is a `CHOOSE` of a function on the subsets of `1..n` that
takes the greatest element away; `SubsetRecursion` shows that there is one
function that does, and so what `FoldLeft` gives turn after turn. `WalkEnds` and
`WalkPasses` do it for a recursion that walks forward, like that of `SkipAhead`.

**`UserSetCombineProofs`.** `MInv`, for any number of sets of any size and any
leap, says of an intersection where the iterators are: each is past nothing
that is `cur` or above (`Passed`), the `found` sets before `it` are at `cur`
(`FoundRunning`), and the result is the common values below what is being
looked for, in order (`NewlistIs`). Of a union it says that the result is what
the iterators are past (`Consumed`), and that the rest is above it
(`AllAhead`). `SkipAhead` and `FindIn` stop at the first value not below `cur`
whatever the leaps, by `WalkPasses`. `NewlistFits` follows because the result
is part of the smallest set, or has at most as many values as the sizes sum up
to (`TotalSize`). `AgreesWithLinear` at the end of the
loop follows because both results are ascending sequences of the same values,
and `IgnoresSets` is false where no set is empty. For the early return an
invariant of its own says when it is taken (`EarlyMeans`): some set is empty, and
the linear combine leaves what all the sets that are not empty have in common
with this one (`Narrowed`, `LinearElements`), which is this set as it was unless
one of them would have narrowed it down (`EarlyAgrees`).
`CombineTypes`, `NothingIsMissed`, `ResultFits`,
`AgreesAlways`.

**`SearchDataProofs`, the searches.** On the same `IInv`, for any set of
searches. `ScanRecursion` and `WholeRows` say what a scan does turn after turn;
a page of the rows up to some slot stays one when the next row comes
(`PageGrows`), so a scan gives its page of all rows whether it stops early or
not (`ScanGivesPage`): `PagesFitTogether`. A rotated order has the same slots
(`RotatedProperties`), the first of which is found if it matches:
`RandomFinds`. For `SearchesAreExact`, a slot that matches criteria no null
user matches has an owner, and `usermap` names it (`MatchedSlotIsOwned`, from
the exact free stack); a slot is on all lists of a search iff its owner lives
there (from the exact location lists) and is told to have the interests and
birthday by the history (`OnListsOfSearch`, from `HInv`). So who is found was
given what is asked or inherited it (`FoundIsAskedOrHeir`), and who was given it
is found or was erased (`AskedIsFoundOrErased`). Two slots of the ascending order
have different owners, so nobody is found twice.

**`TQueueProofs`.** `IInv == TypeOK /\ WakeupsSuffice /\ NoSleeperInNonblock`.
`WakeupsSuffice` says that while anybody waits there are at least as many
signals to come and woken threads as items in the queue. It is kept because a
push adds one to both sides, a signal moves one from the signals to the woken
(and finds a waiter as long as there is one), and a woken thread leaves the
right side only by taking an item or finding none. `TypeCorrect`,
`NoWakeupLost`, `NonblockReachesAll`, `Refinement`.

**`SearchDaemonProofs`.** `IInv == TypeOK /\ Apart /\ NoneTwice /\ AllThere /\
SeenInTime`: the queue of requests, the threads and the queue of responses are
disjoint, hold no search twice, and hold exactly the searches asked and not yet
replied to; a search has begun on the lists once a thread has it, has read the
users once the thread is past the lock, and both are forgotten with the reply.
`Ownership` counts the places from that. `ResponseDelivered` is inductive by
itself over `TypeOK`, and needs `PushFd # 0`: `signalfd` takes descriptor 0 for
none (`usersearch.c:62`). `Refinement` maps each step to one of `SearchService` or
a stutter: `PopRequest` is where a search begins, `ReadLock` where it looks, and
the update popped with those still queued are what is promised (`TodoSteps`);
`SeenInTime` gives that each search does both once, in this order, before its
reply.

**`RunLengthProofs`.** Lemmas on the coding, for every list of runs that
`encode` accepts (`Runs`), wherever the array begins. `Coded(R)` is the string of
a list of runs, `Span(R)` how many positions it covers, `Ones(R, v)` where its
1s are. `Decodes`: `block` reads at the place of a block the bit and the length
that `encode` put there, whatever follows. `BlocksRead`: reading on from the
start gives the blocks of `R`, each at its byte and its position (`BlocksFor`),
also when the terminator has gone. The model's recursions over strings, and
`FlattenSeq`, are choices of a function; `FlattenRecursion`, `ReaderRecursion`
and `WalkRecursion` show that there is one, by `IntervalInduction`.

The heart is `RewritesWell`. A canonical list (`Canon`: runs alternate behind
leading 0s) with any index and any bit to change: unless the bytes were garbled
(`Resizes`), what `set` leaves is again the code of a canonical list, and its 1s
differ in the one position asked for, or `Overshoot` further. There is a lemma
for each arm (`SplitArm`, `TradeWithPrevArm`, `TradeNextArm`, `TradeEndArm`,
`JoinMiddleArm`, `JoinLastArm`, `BehindZerosArm`, `ExtendOnesArm`,
`SeparateArm`), each of the same shape: the arm replaces the bytes of one, two
or three neighbouring runs by the bytes of others (`ReplacedMiddle`), that is an
exchange of these runs (`CodedExchange`), which stays canonical because both
ends keep their bits (`CanonExchange`). `ArmTaken` shows that the conditions of
the code choose the arm that fits. `Walked`: the iterator's values are the 1s,
each once and ascending.

**`SparseVersionsProofs`.** `VersionsInv == FirstInv /\ FramesInv /\ (~parted =>
health = "sound" /\ ~garbled /\ asked1 = asked2)`, for any set of positions, any
thresholds within `FramesAssumption` and any number of calls, of joins up to
`MaxJoins`, which is any number too as long as runs stay below 2^29. None of the
checked properties is inductive: that a bit array holds what was asked is kept
by a call only if its string is canonical, and canonicity only if no run
outgrows `encode`. `FirstInv` therefore says that the string is the code of a
canonical list with exactly the bits asked for, and that ends by `Reach`.

`FramesInv` says that the frames follow one another (`Chain`), and of a sound
array that every frame is the code of a canonical list (`Fit`) with bits within
its bounds (`Inside`) only; all bits together are those asked for. Two parts of
`Fit` are there only for what joins and splits need: runs of 0s between others
begin below the frame's maximum (`ZerosBelow`), because `frame::split` makes
such a place the bound between the halves; and the reach grows by one with each
join, because joined bits move up. `CutFrame`: both halves of a split fit, in
either order of evaluation, and share out the bits. `JoinFrame`: what a join
leaves fits, with the second frame's bits moved up, unless it is one of the
cases in which `health` is no longer sound. `ChainReplaced`, `ChainInserted`
and `ChainRemoved` carry the chain through the three ways the list changes;
`FrameFound` shows that the search for a frame finds the one the index belongs
to.

From `VersionsInvariant`: `VersionsTypesOK`, `VersionsStayCanonical`,
`FramesPartitionPositions`, `VersionsReadExactly`, `VersionsHoldWhatWasAsked`,
`VersionsAgreeUnlessParted`. The proof found what no run had: the terminator
that `Unended` is about, and frames of 9 to 15 bytes that can be cut at a block
at their very start or end.

**Only model-checked.** The liveness properties (`EveryItemDelivered`,
`NonblockReleases`, `SearchReplied`, `UpdatesApplied`, `SearchEnds`,
`Terminates`), which need fairness and ENABLED, out of this prover's reach. Every
invariant, action property and refinement of the passing runs is proved.

## 6. Where the code differs from what it says

Shown by a run:

1. `delUser` does not touch the interest lists, so a new user inherits the
   interests of the slot's last owner (`search.c:266`, against `search.h:170`):
   `interests_after_delete`. `SearchExact` names these users (`Heirs`).
2. `delUser` calls `bday.deleteUser` for every user; with no birthday ever added
   that is a read through a null pointer (`usersetbase.h:105`): `delete_crash`.
   No handler adds birthdays, so this is every `/deleteuser` of a user that
   exists, unless the library gives an empty vector storage.
3. An intersection with an empty set leaves the set as it was
   (`usersetbase.h:164`): `search_empty_list`.
4. A search may find a user that matched it at no time: `concurrent_stale`.
5. A search may miss a user that matched it all the time: `concurrent_missed`.
   Both follow from the lists being read before `rwlock` is taken
   (`search.c:633`).

Modelled as they are and excluded from the properties by name:

6. All-interests searches: the test for the second interest is inverted
   (`search.c:595`). `NeedsSeveralInterests`, `Undefined`.
7. Criteria that accept the null user find the slots of deleted users, with
   userid 0. `MatchesNullUsers`.
8. Removing a slot from a list that does not have it reads past the end
   (`usersetbase.h:105`). If the stale word there equals the slot, the last entry
   of the list is erased, which is another user's. `Erased`.
9. A random search of an empty daemon divides by zero (`search.c:657`).
   `DividesByZero`.
10. A set that grows between the sizing of a merge and its lock makes the merge
    write past its vector (`usersetbase.h:162`). `overrun`.
11. The combine of several sets returns early when the smallest is empty
    (`usersetbase.h:226`) and so does not look at the others: {1, 2} combined with
    {} and {2} stays {1, 2} and is {2} when combined one by one. The comparison in
    `usersetbase.c:135` ("Intersect Boom!") would tell; its random sets are never
    empty. `IgnoresSets`.
12. `setbit` behind a trailing run of several 0s sets another bit
    (`sparsebitarray.h:168`, and the same in `sparsebitarray2.h`): set 5, unset
    5, set 7 sets 12. `Overshoot`.
13. `unsetInterest` beyond the vector (`search.c:203`): any outcome.
14. Descriptor 0 for the socket pair (`usersearch.c:62`): `PushFd # 0`.
15. When the event loop returns, `main` joins threads that never end
    (`usersearch.c:717`): `loop = "joining"`, exempted from the liveness
    properties.
16. A trade of one bit between two runs takes the end of a block after encoding
    it anew (`sparsebitarray.h:204`). When its width changes, a byte is left
    behind or one of the next block is lost: set 1, set 34, set 2. `Resizes`,
    `garbled`. No property speaks of the array after that.
17. The gap between two joined frames is computed one too long
    (`sparsebitarray2.h:262`): the bits of the second move up by one (`Shifted`,
    after which the array is `astray` and not followed further); a frame that
    ends in 0s may be joined on as if it ended in 1s, and frames whose 1s are
    close fail an assertion (`health`).
18. A last run of 1s that grows from 31 to 32 takes the terminator's byte
    (`sparsebitarray.h:157`); a join of such a frame cuts off a byte of the run
    (`sparsebitarray2.h:269`). `Unended`, `garbled`.
19. Splitting a frame depends on the order in which the compiler evaluates an
    expression (`sparsebitarray2.h:224`). `SplitFrame` has both; with the wrong
    one the array is `garbled`.
20. The iterator of the second version yields a value for a frame without 1s,
    a new array's among them (`sparsebitarray2.h:697`). `BothReadExact`.
21. The `numitems` of a frame is never counted, for the array calls `frame::set`
    directly, and a split subtracts from it (`sparsebitarray2.h:225`). Nothing
    reads it.
22. Nothing initialises `datasource`, and `-l` as the last argument passes
    `loaddata` a null pointer, for the test at `usersearch.c:600` looks at the
    host name: what is read then is left open (`NoSource`).
23. Searches that overlap for ever keep acknowledged updates from being applied
    (`search.c:239`): the premise of `UpdatesApplied`.

Not modelled, and listed as hazards: the several-set merge keeps read locks
(`usersetbase.h:226`, `:331`); `-t 100` puts the update thread past the end of
its arrays (`usersearch.c:661`); in benchmark mode `pushfd` is not initialised
(`usersearch.c:643`); vectors of lists grow under readers
(`search.c:194`, `:213`); a location outside the table, or a cycle in it
(`search.c:217`), which `DataAssumption` excludes.

## 7. Not modelled, and why

* Start-up, arguments, the benchmark mode: straight-line code before or without
  the interactions above.
* The parsing of the loader, HTTP, files: input and output. `Loader` begins
  with the values of a row.
* Printing and statistics: they change nothing but counters.
* `interests*.h`: four more classes named `userset`, included by nothing.
* `searchtest.c`, `network.c`: the prototype and an empty stub.
* The PHP files: blocking clients and a dump of database tables.
* libevent and pthreads are external, and modelled from how the code uses them.

## 8. Plan

Done: the core, `SearchData` with its queries and concurrency; the loader; the
queue; the daemon; the merge; both bit arrays; proofs of every safety property.
In order of importance, what could be added:

1. `GrowingLists`: `push_back` on the vectors of lists under unlocked readers
   (`search.c:194`, `:213`, `usersearch.c:251`).
2. `SetLocks`: the locks of the merges, pairwise and several sets, with the
   early returns that keep them; deadlock and starvation.
3. A composition of `SearchDaemon` with `SearchData`, in which updates and
   searches carry their contents.
4. The second bit array followed beyond the first join that moves bits, with
   what calls amount to then.
