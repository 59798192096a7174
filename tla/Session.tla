------------------------------ MODULE Session ------------------------------
(***************************************************************************)
(* What a client session promises, without saying how: a library that is   *)
(* used by one party at a time, that admits nobody once shutdown has begun *)
(* and that is shut down once, with one result kept for good.              *)
(***************************************************************************)

CONSTANTS Threads,   \* the callers
          Closer,    \* the party that shuts the library down
          Nobody     \* "no party is inside the library"

VARIABLES state,     \* "open", "closing" or "closed"
          holder,    \* the party inside the library
          saved      \* the shutdown result: "none" until there is one

vars == <<state, holder, saved>>

Init ==
  /\ holder = Nobody
  /\ \/ state = "open" /\ saved = "none"
     \/ state = "closed" /\ saved = "ok"      \* a zero client

Enter(t) ==
  /\ state = "open"
  /\ holder = Nobody
  /\ holder' = t
  /\ UNCHANGED <<state, saved>>

Leave(t) ==
  /\ holder = t
  /\ holder' = Nobody
  /\ UNCHANGED <<state, saved>>

BeginClose ==
  /\ state = "open"
  /\ state' = "closing"
  /\ UNCHANGED <<holder, saved>>

EnterClose ==
  /\ state = "closing"
  /\ holder = Nobody
  /\ holder' = Closer
  /\ UNCHANGED <<state, saved>>

FinishClose ==
  /\ holder = Closer
  /\ holder' = Nobody
  /\ state' = "closed"
  /\ saved' \in {"ok", "failed"}

Next ==
  \/ \E t \in Threads : Enter(t) \/ Leave(t)
  \/ BeginClose
  \/ EnterClose
  \/ FinishClose

\* A party inside the library leaves it, and a shutdown that has begun runs
\* to its end.
Fairness ==
  /\ \A t \in Threads : WF_vars(Leave(t))
  /\ WF_vars(EnterClose)
  /\ WF_vars(FinishClose)

SafeSpec == Init /\ [][Next]_vars

Spec == SafeSpec /\ Fairness
=============================================================================
