----------------------------- MODULE OpenClient -----------------------------
(***************************************************************************)
(* kalkan.Open on top of the process slot: goroutines that race to open a  *)
(* client, a setup of several native calls any of which may fail or be     *)
(* canceled, and the clean-up that must leave the slot free.  Goroutines   *)
(* that use package ckalkan directly compete for the same slot.  A client  *)
(* is private to its goroutine until Open returns, so nothing contends for *)
(* its call gate and each setup call is one step.                          *)
(***************************************************************************)
EXTENDS ProcessSlot, Naturals

CONSTANT Trusted    \* how many certificates WithTrustedCertificate configured

ASSUME OpenAssumption == Trusted \in Nat

VARIABLES pc,          \* one goroutine per handle
          canceled,    \* its context is canceled
          idx          \* the next trusted certificate to load

vars == <<slotVars, pc, canceled, idx>>

SetupCalls == {"Init", "SetTSAURL", "SetProxy", "trust"}

Init ==
  /\ SlotInit
  /\ pc = [h \in Handles |-> "idle"]
  /\ canceled = [h \in Handles |-> FALSE]
  /\ idx = [h \in Handles |-> 1]

Goto(h, l) == pc' = [pc EXCEPT ![h] = l]

\* Before and between its calls of Open a goroutine may use ckalkan itself.
Direct(h) ==
  /\ pc[h] = "idle"
  /\ \/ New(h) \/ ZeroClient(h)
     \/ InitLibrary(h) \/ Finalize(h)
     \/ Close(h) \/ Drop(h)
  /\ UNCHANGED <<pc, canceled, idx>>

Open(h) ==
  /\ pc[h] = "idle" /\ h \notin live
  /\ Goto(h, "new")
  /\ \E b \in BOOLEAN : canceled' = [canceled EXCEPT ![h] = b]
  /\ UNCHANGED <<slotVars, idx>>

Cancel(h) ==
  /\ pc[h] \in SetupCalls \cup {"new"}
  /\ ~canceled[h]
  /\ canceled' = [canceled EXCEPT ![h] = TRUE]
  /\ UNCHANGED <<slotVars, pc, idx>>

\* factory(cfg), that is ckalkan.New: refused, failed or successful.
Refused(h) ==
  /\ pc[h] = "new"
  /\ Goto(h, "failed")
  /\ UNCHANGED <<slotVars, canceled, idx>>

Created(h) ==
  /\ pc[h] = "new"
  /\ ~canceled[h]
  /\ New(h)
  /\ Goto(h, "Init")
  /\ UNCHANGED <<canceled, idx>>

\* Mutant: a setup error is returned without the deferred Close.
SetupFailsOpen(h) ==
  /\ pc[h] \in SetupCalls
  /\ Goto(h, "failed")
  /\ UNCHANGED <<slotVars, canceled, idx>>

\* A setup call fails, or the context is canceled before it: keepOpen stays
\* false and the deferred Close runs.
SetupFails(h) ==
  /\ pc[h] \in SetupCalls
  /\ Goto(h, "cleanup")
  /\ UNCHANGED <<slotVars, canceled, idx>>

\* What may follow a setup call that returned; SetProxy is made only when the
\* options configured a proxy.
Following(call) ==
  CASE call = "Init" -> {"SetTSAURL"}
    [] call = "SetTSAURL" -> {"SetProxy", "trust"}
    [] call = "SetProxy" -> {"trust"}

SetupCall(h) ==
  /\ pc[h] \in SetupCalls \ {"trust"}
  /\ ~canceled[h]
  /\ IF pc[h] = "Init" THEN InitLibrary(h) ELSE UNCHANGED slotVars
  /\ \E call \in Following(pc[h]) : Goto(h, call)
  /\ UNCHANGED <<canceled, idx>>

LoadTrusted(h) ==
  /\ pc[h] = "trust"
  /\ idx[h] <= Trusted
  /\ ~canceled[h]
  /\ idx' = [idx EXCEPT ![h] = @ + 1]
  /\ UNCHANGED <<slotVars, pc, canceled>>

KeepOpen(h) ==
  /\ pc[h] = "trust"
  /\ idx[h] > Trusted
  /\ ~canceled[h]
  /\ Goto(h, "open")
  /\ UNCHANGED <<slotVars, canceled, idx>>

\* Mutant: the clean-up gives up when the context is canceled and is retried.
CleanUpUnlessCanceled(h) ==
  /\ pc[h] = "cleanup" /\ ~canceled[h]
  /\ Close(h)
  /\ Goto(h, "failed")
  /\ UNCHANGED <<canceled, idx>>

CleanUp(h) ==
  /\ pc[h] = "cleanup"
  /\ Close(h)
  /\ Goto(h, "failed")
  /\ UNCHANGED <<canceled, idx>>

\* The owner of an open client closes it.
CloseClient(h) ==
  /\ pc[h] = "open"
  /\ Close(h)
  /\ Goto(h, "closed")
  /\ UNCHANGED <<canceled, idx>>

\* The goroutine is done with this client, and may call Open again.
Again(h) ==
  /\ pc[h] \in {"failed", "closed"}
  /\ IF h \in live THEN Drop(h) ELSE UNCHANGED slotVars
  /\ Goto(h, "idle")
  /\ canceled' = [canceled EXCEPT ![h] = FALSE]
  /\ idx' = [idx EXCEPT ![h] = 1]

Opening(h) ==
  \/ Refused(h) \/ Created(h)
  \/ SetupFails(h) \/ SetupCall(h)
  \/ LoadTrusted(h) \/ KeepOpen(h)
  \/ CleanUp(h)

Next ==
  \E h \in Handles :
    \/ Direct(h)
    \/ Open(h) \/ Cancel(h)
    \/ Opening(h)
    \/ CloseClient(h) \/ Again(h)

\* Open runs to its end; whether a client is closed is up to its owner.
Fairness == \A h \in Handles : WF_vars(Opening(h))

Spec == Init /\ [][Next]_vars

FairSpec == Spec /\ Fairness

-----------------------------------------------------------------------------
\* An Open that returned an error, at whichever step it failed or was
\* canceled, and a client that was closed hold neither the library nor the
\* slot, unless the library could not be unloaded, and whoever opens it next
\* inherits no initialized state from them.
FailedOpenHoldsNothing ==
  /\ \A h \in Handles : pc[h] \in {"failed", "closed"} =>
       ~ctx[h] /\ (ownsSlot[h] => poisoned)
  /\ NothingInherited

\* Every Open returns.
OpenReturns ==
  \A h \in Handles : pc[h] = "new" ~> pc[h] \in {"open", "failed"}
=============================================================================
