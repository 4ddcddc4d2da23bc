---------------------------- MODULE SearchService ----------------------------
(***************************************************************************)
(* What the daemon promises its clients.  Updates take effect one by one   *)
(* in the order in which they were promised.  A search is answered once,   *)
(* from lists and users read after it was requested, and the users after   *)
(* the lists.  There is no one moment of which the answer is true: an      *)
(* update that took effect between the two may show in a part of it.  Of a *)
(* user whom none of the updates begun + 1 to seen concerns it tells the   *)
(* truth (SteadyExact in ConcurrentSearch).                                *)
(***************************************************************************)
EXTENDS Sequences, Naturals

CONSTANTS Searches, Updates

VARIABLES
  asked,    \* searches requested and not yet replied to
  begun,    \* search -> number of updates in effect when it began to read the lists
  seen,     \* search -> number of updates in effect when it read the users
  todo,     \* updates promised and not yet in effect
  effect    \* updates in effect, in order

vars == <<asked, begun, seen, todo, effect>>

Init ==
  /\ asked = {}
  /\ begun = [s \in {} |-> 0] /\ seen = [s \in {} |-> 0]
  /\ todo = <<>> /\ effect = <<>>

Ask(s) ==
  /\ s \notin asked
  /\ asked' = asked \cup {s}
  /\ UNCHANGED <<begun, seen, todo, effect>>

Begin(s) ==
  /\ s \in asked /\ s \notin DOMAIN begun
  /\ begun' = [x \in DOMAIN begun \cup {s} |-> IF x = s THEN Len(effect) ELSE begun[x]]
  /\ UNCHANGED <<asked, seen, todo, effect>>

Look(s) ==
  /\ s \in DOMAIN begun /\ s \notin DOMAIN seen
  /\ seen' = [x \in DOMAIN seen \cup {s} |-> IF x = s THEN Len(effect) ELSE seen[x]]
  /\ UNCHANGED <<asked, begun, todo, effect>>

(* The answer comes from this request's begun and seen, which go with it. *)
Reply(s) ==
  /\ s \in asked /\ s \in DOMAIN seen
  /\ asked' = asked \ {s}
  /\ begun' = [x \in DOMAIN begun \ {s} |-> begun[x]]
  /\ seen' = [x \in DOMAIN seen \ {s} |-> seen[x]]
  /\ UNCHANGED <<todo, effect>>

Promise(u) ==
  /\ todo' = Append(todo, u)
  /\ UNCHANGED <<asked, begun, seen, effect>>

TakeEffect ==
  /\ todo # <<>>
  /\ effect' = Append(effect, Head(todo))
  /\ todo' = Tail(todo)
  /\ UNCHANGED <<asked, begun, seen>>

Next ==
  \/ \E s \in Searches : Ask(s) \/ Begin(s) \/ Look(s) \/ Reply(s)
  \/ \E u \in Updates : Promise(u)
  \/ TakeEffect

Spec == Init /\ [][Next]_vars
=============================================================================
