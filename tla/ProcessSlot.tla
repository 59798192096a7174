----------------------------- MODULE ProcessSlot -----------------------------
(***************************************************************************)
(* ckalkan's process-wide state: KalkanCrypt is global to a process, so    *)
(* New gives out one slot, Close gives it back, and a Close that cannot    *)
(* unload the library poisons the process.  Every function here runs with  *)
(* process.mu held from its first statement to its last: one step each.    *)
(***************************************************************************)
EXTENDS FiniteSets

CONSTANT Handles    \* *Client values of package ckalkan

VARIABLES
  active, poisoned, \* processState
  live,             \* handles that a caller still refers to
  ctx,              \* c.ctx # nil
  closed, ownsSlot, \* fields of each handle
  ready             \* the loaded library is initialized (KC_Init without KC_Finalize)

slotVars == <<active, poisoned, live, ctx, closed, ownsSlot, ready>>

SlotTypeOK ==
  /\ active \in BOOLEAN /\ poisoned \in BOOLEAN /\ ready \in BOOLEAN
  /\ live \in SUBSET Handles
  /\ ctx \in [Handles -> BOOLEAN]
  /\ closed \in [Handles -> BOOLEAN]
  /\ ownsSlot \in [Handles -> BOOLEAN]

SlotInit ==
  /\ active = FALSE /\ poisoned = FALSE /\ ready = FALSE
  /\ live = {}
  /\ ctx = [h \in Handles |-> FALSE]
  /\ closed = [h \in Handles |-> FALSE]
  /\ ownsSlot = [h \in Handles |-> FALSE]

\* h becomes a Client whose fields ctx and ownsSlot are both b.
Allocate(h, b) ==
  /\ h \notin live
  /\ live' = live \cup {h}
  /\ ctx' = [ctx EXCEPT ![h] = b]
  /\ ownsSlot' = [ownsSlot EXCEPT ![h] = b]
  /\ closed' = [closed EXCEPT ![h] = FALSE]

\* Mutant: New does not look at the active client.
MayOpenAgain == ~poisoned

\* Mutant: New does not look at poisoned; the slot of a failed Close is its own.
MayOpenPoisoned == ~active \/ poisoned

MayOpen == ~poisoned /\ ~active

\* New.  A library that cannot be loaded leaves the slot as it was.
New(h) ==
  /\ MayOpen
  /\ Allocate(h, TRUE)
  /\ active' = TRUE
  /\ UNCHANGED <<poisoned, ready>>

\* The zero Client: not ready for use, but it may be closed.
ZeroClient(h) ==
  /\ Allocate(h, FALSE)
  /\ UNCHANGED <<active, poisoned, ready>>

\* Init on an open handle; other native calls change nothing modelled here.
InitLibrary(h) ==
  /\ h \in live /\ ctx[h] /\ ~closed[h]
  /\ ready' = TRUE
  /\ UNCHANGED <<active, poisoned, live, ctx, closed, ownsSlot>>

\* Finalize on an open handle, without closing it.
Finalize(h) ==
  /\ h \in live /\ ctx[h] /\ ~closed[h]
  /\ ready' = FALSE
  /\ UNCHANGED <<active, poisoned, live, ctx, closed, ownsSlot>>

\* Mutant: Close of any stale handle frees the slot.
CloseAgainFrees(h) ==
  /\ h \in live
  /\ closed[h] \/ ~ctx[h]
  /\ closed' = [closed EXCEPT ![h] = TRUE]
  /\ active' = FALSE
  /\ UNCHANGED <<poisoned, live, ctx, ownsSlot, ready>>

\* Close of a handle that is closed, or never was open.
CloseAgain(h) ==
  /\ h \in live
  /\ closed[h] \/ ~ctx[h]
  /\ closed' = [closed EXCEPT ![h] = TRUE]
  /\ IF ownsSlot[h] /\ ~poisoned
       THEN active' = FALSE /\ ownsSlot' = [ownsSlot EXCEPT ![h] = FALSE]
       ELSE UNCHANGED <<active, ownsSlot>>
  /\ UNCHANGED <<poisoned, live, ctx, ready>>

\* The first Close: XMLFinalize and Finalize, then the library is unloaded.
CloseUnloads(h) ==
  /\ h \in live /\ ctx[h] /\ ~closed[h]
  /\ ready' = FALSE
  /\ ctx' = [ctx EXCEPT ![h] = FALSE]
  /\ closed' = [closed EXCEPT ![h] = TRUE]
  /\ IF ownsSlot[h]
       THEN active' = FALSE /\ ownsSlot' = [ownsSlot EXCEPT ![h] = FALSE]
       ELSE UNCHANGED <<active, ownsSlot>>
  /\ UNCHANGED <<poisoned, live>>

\* The first Close when unloading fails: the slot is never given back.
CloseFails(h) ==
  /\ h \in live /\ ctx[h] /\ ~closed[h]
  /\ ready' = FALSE
  /\ poisoned' = TRUE
  /\ ctx' = [ctx EXCEPT ![h] = FALSE]
  /\ closed' = [closed EXCEPT ![h] = TRUE]
  /\ UNCHANGED <<active, live, ownsSlot>>

Close(h) == CloseAgain(h) \/ CloseUnloads(h) \/ CloseFails(h)

\* Nobody refers to a closed handle any longer.
Drop(h) ==
  /\ h \in live /\ closed[h]
  /\ live' = live \ {h}
  /\ ctx' = [ctx EXCEPT ![h] = FALSE]
  /\ ownsSlot' = [ownsSlot EXCEPT ![h] = FALSE]
  /\ closed' = [closed EXCEPT ![h] = FALSE]
  /\ UNCHANGED <<active, poisoned, ready>>

SlotNext ==
  \E h \in Handles :
    \/ New(h) \/ ZeroClient(h)
    \/ InitLibrary(h) \/ Finalize(h)
    \/ Close(h) \/ Drop(h)

SlotSpec == SlotInit /\ [][SlotNext]_slotVars

-----------------------------------------------------------------------------
\* At most one handle has the library loaded, and it is the one that owns the
\* slot.  Until the process is poisoned, the slot is taken exactly while a handle
\* owns it: closing a stale or zero handle does not free the slot of the handle
\* that is open now, and closing the open one does not leak it.
SlotAccounted ==
  /\ \A g, h \in Handles : ctx[g] /\ ctx[h] => g = h /\ active /\ ownsSlot[g]
  /\ ~poisoned => (active <=> \E h \in Handles : ownsSlot[h])

\* After a failed unload no handle is ever loaded again, so the native state
\* that was left behind is not reused.
PoisonIsFinal ==
  [][poisoned => poisoned' /\ active' /\ \A h \in Handles : ~ctx'[h]]_slotVars

\* No initialized state survives the handle that initialized it: whoever
\* opens the library next has to call Init.
NothingInherited == ready => \E h \in Handles : ctx[h]
=============================================================================
