CONSTANTS
  Searches = {s1, s2}
  NoSearch = NoSearch
  NoUpdate = NoUpdate
  Requests <- MCRequests
  Ops <- MCOps
  Kind <- MCKind
  Threads = {t1, t2}
  PushFd = 3
  PipeSize = 2
  ReadSize = 2
SPECIFICATION FairSpec
INVARIANTS
  TypeOK
  OneOwner
  NoLostResponse
PROPERTIES
  ImplementsService
  SearchReplied
  UpdatesApplied
\* The process may be gone.
CHECK_DEADLOCK FALSE
