--------------------------- MODULE ZipSignProofs ---------------------------
(***************************************************************************)
(* Proofs about Client.SignZIP for any number of signers and clients, any  *)
(* assignment of the ones to the others and any mix of atomic and direct   *)
(* output.                                                                 *)
(***************************************************************************)
EXTENDS ZipSign, TLAPS

Labels == Running \cup Final \cup {"idle"}

Kinds == {"absent", "partial", "whole", "other"}

TypeInv ==
  /\ setting \in Settings
  /\ pc \in [Signers -> Labels]
  /\ requested \in [Signers -> Paths]
  /\ todo \in [Signers -> {<<>>, <<"zip">>, <<"ZIP", "zip">>}]
  /\ gate \in [Clients -> Signers \cup {Nobody}]
  /\ out \in [Paths -> [by : Signers \cup {Nobody}, kind : Kinds]]
  /\ stage \in [Signers -> {"none", "empty", "partial", "whole"}]
  /\ result \in [Signers -> {"none", "ok", "failed"}]

\* A call has its result only when it is leaving, publishes only a whole
\* container from its stage directory, and then only for an atomic client.
CallInv ==
  \A s \in Signers :
    /\ result[s] # "none" => pc[s] \in {"cleanup"} \cup Final
    /\ pc[s] \in {"publish", "link"} => Atomic(s)
    /\ pc[s] \in {"created", "publish", "link"} /\ Atomic(s) => stage[s] = "whole"

\* Nobody but the signers of one client uses the directory.
Alone == ~setting.meddling /\ \A r, s \in Signers : Owner[r] = Owner[s]

\* Whoever is past TakeGate holds the gate.
GateInv == \A s \in Signers : pc[s] \in Locked => gate[Owner[s]] = s

\* The finished container of a signer.
Whole(s) == [by |-> s, kind |-> "whole"]

\* Then a direct signer has the output path to itself from the check it makes
\* under the gate to its return, and what one signer reported stays.
AloneInv ==
  Alone =>
    /\ ~Exists(out["ZIP"])
    /\ \A s \in Signers :
         /\ result[s] = "ok" => out["zip"] = Whole(s)
         /\ ~Atomic(s) =>
              /\ pc[s] = "recheck" /\ todo[s] = <<>> => ~Exists(out["zip"])
              /\ pc[s] = "writing" => out["zip"] = [by |-> s, kind |-> "partial"]
              /\ pc[s] = "created" => out["zip"] = Whole(s)

IInv == TypeInv /\ CallInv /\ PublishedIsWhole /\ GateInv /\ AloneInv

-----------------------------------------------------------------------------
\* What one Lstat leaves of the paths to look at.
LEMMA TodoTail ==
  /\ Head(<<"zip">>) = "zip" /\ Tail(<<"zip">>) = <<>>
  /\ Head(<<"ZIP", "zip">>) = "ZIP" /\ Tail(<<"ZIP", "zip">>) = <<"zip">>
  /\ <<"zip">> # <<>>
  OBVIOUS

\* The deferred cleanup and the states of the file system keep their types; a
\* published file is a whole one.
LEMMA TypeStep ==
  ASSUME TypeInv, CallInv, [Next]_vars
  PROVE  TypeInv'
  <1> USE ZipAssumption DEF TypeInv, Kinds, Owner, Labels, Running, Locked, Final, Paths
  <1> setting' = setting
    BY Zenon DEF Next, vars
  <1>1. ASSUME NEW s \in Signers, SignZIP(s) \/ Step(s)
        PROVE  TypeInv'
    <2>1. CASE SignZIP(s)
      BY Zenon, <2>1 DEF SignZIP, Goto, OutputPaths
    <2>2. CASE LstatOutput(s)
      <3>1. todo[s] \in {<<"zip">>, <<"ZIP", "zip">>}
        BY <2>2 DEF LstatOutput
      <3>2. CASE /\ Return(s, "failed")
                 /\ todo' = [todo EXCEPT ![s] = <<>>]
                 /\ gate' = IF pc[s] = "recheck" THEN [gate EXCEPT ![Owner[s]] = Nobody] ELSE gate
        BY <2>2, <3>2 DEF LstatOutput, Goto, Return
      <3>3. CASE /\ ~Exists(out[Head(todo[s])])
                 /\ todo' = [todo EXCEPT ![s] = Tail(@)]
                 /\ UNCHANGED <<pc, gate, result>>
        <4>1. Tail(todo[s]) \in {<<>>, <<"zip">>}
          BY Zenon, <3>1, TodoTail
        <4>2. /\ todo' = [todo EXCEPT ![s] = Tail(todo[s])]
              /\ UNCHANGED <<requested, pc, gate, out, stage, result>>
          BY Zenon, <2>2, <3>3 DEF LstatOutput
        <4> QED BY Zenon, <4>1, <4>2
      <3> QED BY Zenon, <2>2, <3>2, <3>3 DEF LstatOutput
    <2>3. CASE OutputAbsent(s)
      BY Zenon, <2>3 DEF OutputAbsent, Goto
    <2>4. CASE StagedZIPOutputPlan(s)
      BY <2>4 DEF StagedZIPOutputPlan, Goto, Return
    <2>5. CASE TakeGate(s)
      BY Zenon, <2>5 DEF TakeGate, Goto, OutputPaths
    <2>6. CASE LeaveQueue(s)
      BY Zenon, <2>6 DEF LeaveQueue, Goto, Return
    <2>7. CASE OpenNative(s)
      BY <2>7 DEF OpenNative, Goto
    <2>8. CASE NativeFails(s)
      BY Zenon, <2>8 DEF NativeFails, Goto, Return
    <2>9. CASE NativeSucceeds(s)
      BY <2>9 DEF NativeSucceeds, Goto
    <2>10. CASE CreatedStaged(s)
      BY Zenon, <2>10 DEF CreatedStaged, Goto, Return, OutputPaths
    <2>11. CASE CreatedOutput(s)
      BY Zenon, <2>11 DEF CreatedOutput, Goto, Return
    <2>12. CASE PublishStagedZIP(s)
      BY SMTT(20), <2>12 DEF PublishStagedZIP, Goto, Return, CallInv
    <2>13. CASE Cleanup(s)
      BY Zenon, <2>13 DEF Cleanup, Goto
    <2> QED BY Zenon, <1>1, <2>1, <2>2, <2>3, <2>4, <2>5, <2>6, <2>7, <2>8, <2>9, <2>10, <2>11, <2>12,
        <2>13 DEF Step
  <1>2. ASSUME NEW p \in Paths, Meddle(p)
        PROVE  TypeInv'
    BY <1>2 DEF Meddle
  <1>3. ASSUME NEW c \in Clients, Crash(c)
        PROVE  TypeInv'
    BY Zenon, <1>3 DEF Crash
  <1>4. CASE UNCHANGED vars
    BY Zenon, <1>4 DEF vars
  <1> QED BY Zenon, <1>1, <1>2, <1>3, <1>4 DEF Next, Finished

\* Every action preserves CallInv.
LEMMA CallStep ==
  ASSUME TypeInv, CallInv, [Next]_vars
  PROVE  CallInv'
  <1> USE ZipAssumption DEF TypeInv, CallInv, Atomic, Owner, Labels, Running, Locked, Final, Paths
  <1> setting' = setting
    BY Zenon DEF Next, vars
  <1>1. ASSUME NEW s \in Signers, SignZIP(s) \/ Step(s)
        PROVE  CallInv'
    <2>1. CASE SignZIP(s)
      BY Zenon, <2>1 DEF SignZIP, Goto, OutputPaths
    <2>2. CASE LstatOutput(s)
      BY <2>2 DEF LstatOutput, Goto, Return
    <2>3. CASE OutputAbsent(s)
      BY Zenon, <2>3 DEF OutputAbsent, Goto
    <2>4. CASE StagedZIPOutputPlan(s)
      BY <2>4 DEF StagedZIPOutputPlan, Goto, Return
    <2>5. CASE TakeGate(s)
      BY Zenon, <2>5 DEF TakeGate, Goto, OutputPaths
    <2>6. CASE LeaveQueue(s)
      BY Zenon, <2>6 DEF LeaveQueue, Goto, Return
    <2>7. CASE OpenNative(s)
      BY <2>7 DEF OpenNative, Goto
    <2>8. CASE NativeFails(s)
      BY Zenon, <2>8 DEF NativeFails, Goto, Return
    <2>9. CASE NativeSucceeds(s)
      BY <2>9 DEF NativeSucceeds, Goto
    <2>10. CASE CreatedStaged(s)
      BY Zenon, <2>10 DEF CreatedStaged, Goto, Return, OutputPaths
    <2>11. CASE CreatedOutput(s)
      BY Zenon, <2>11 DEF CreatedOutput, Goto, Return
    <2>12. CASE PublishStagedZIP(s)
      BY <2>12 DEF PublishStagedZIP, Goto, Return
    <2>13. CASE Cleanup(s)
      BY <2>13 DEF Cleanup, Goto
    <2> QED BY Zenon, <1>1, <2>1, <2>2, <2>3, <2>4, <2>5, <2>6, <2>7, <2>8, <2>9, <2>10, <2>11, <2>12,
        <2>13 DEF Step
  <1>2. ASSUME NEW p \in Paths, Meddle(p)
        PROVE  CallInv'
    BY Zenon, <1>2 DEF Meddle
  <1>3. ASSUME NEW c \in Clients, Crash(c)
        PROVE  CallInv'
    BY Zenon, <1>3 DEF Crash
  <1>4. CASE UNCHANGED vars
    BY Zenon, <1>4 DEF vars
  <1> QED BY Zenon, <1>1, <1>2, <1>3, <1>4 DEF Next, Finished

\* The gate is a lock, and a crash takes every holder of its client with it.
LEMMA GateStep ==
  ASSUME TypeInv, GateInv, [Next]_vars
  PROVE  GateInv'
  <1> USE ZipAssumption DEF TypeInv, GateInv, Owner, Labels, Running, Locked, Final, Paths
  <1> setting' = setting
    BY Zenon DEF Next, vars
  <1>1. ASSUME NEW s \in Signers, SignZIP(s) \/ Step(s)
        PROVE  GateInv'
    <2>1. CASE SignZIP(s)
      BY Zenon, <2>1 DEF SignZIP, Goto, OutputPaths
    <2>2. CASE LstatOutput(s)
      BY <2>2 DEF LstatOutput, Goto, Return
    <2>3. CASE OutputAbsent(s)
      BY Zenon, <2>3 DEF OutputAbsent, Goto
    <2>4. CASE StagedZIPOutputPlan(s)
      BY <2>4 DEF StagedZIPOutputPlan, Goto, Return
    <2>5. CASE TakeGate(s)
      BY <2>5 DEF TakeGate, Goto, OutputPaths
    <2>6. CASE LeaveQueue(s)
      BY Zenon, <2>6 DEF LeaveQueue, Goto, Return
    <2>7. CASE OpenNative(s)
      BY Zenon, <2>7 DEF OpenNative, Goto
    <2>8. CASE NativeFails(s)
      BY <2>8 DEF NativeFails, Goto, Return
    <2>9. CASE NativeSucceeds(s)
      BY <2>9 DEF NativeSucceeds, Goto
    <2>10. CASE CreatedStaged(s)
      BY Zenon, <2>10 DEF CreatedStaged, Goto, Return, OutputPaths
    <2>11. CASE CreatedOutput(s)
      BY Zenon, <2>11 DEF CreatedOutput, Goto, Return
    <2>12. CASE PublishStagedZIP(s)
      BY <2>12 DEF PublishStagedZIP, Goto, Return
    <2>13. CASE Cleanup(s)
      BY Zenon, <2>13 DEF Cleanup, Goto
    <2> QED BY Zenon, <1>1, <2>1, <2>2, <2>3, <2>4, <2>5, <2>6, <2>7, <2>8, <2>9, <2>10, <2>11, <2>12,
        <2>13 DEF Step
  <1>2. ASSUME NEW p \in Paths, Meddle(p)
        PROVE  GateInv'
    BY Zenon, <1>2 DEF Meddle
  <1>3. ASSUME NEW c \in Clients, Crash(c)
        PROVE  GateInv'
    BY Zenon, <1>3 DEF Crash
  <1>4. CASE UNCHANGED vars
    BY Zenon, <1>4 DEF vars
  <1> QED BY Zenon, <1>1, <1>2, <1>3, <1>4 DEF Next, Finished

\* Every action preserves PublishedIsWhole.
LEMMA PublishedStep ==
  ASSUME TypeInv, CallInv, PublishedIsWhole, [Next]_vars
  PROVE  PublishedIsWhole'
  <1> USE ZipAssumption DEF TypeInv, CallInv, PublishedIsWhole, Atomic, Owner, Labels, Running,
      Locked, Final, Paths
  <1> setting' = setting
    BY Zenon DEF Next, vars
  <1>1. ASSUME NEW s \in Signers, SignZIP(s) \/ Step(s)
        PROVE  PublishedIsWhole'
    <2>1. CASE SignZIP(s)
      BY Zenon, <2>1 DEF SignZIP, Goto, OutputPaths
    <2>2. CASE LstatOutput(s)
      BY <2>2 DEF LstatOutput, Goto, Return
    <2>3. CASE OutputAbsent(s)
      BY Zenon, <2>3 DEF OutputAbsent, Goto
    <2>4. CASE StagedZIPOutputPlan(s)
      BY <2>4 DEF StagedZIPOutputPlan, Goto, Return
    <2>5. CASE TakeGate(s)
      BY Zenon, <2>5 DEF TakeGate, Goto, OutputPaths
    <2>6. CASE LeaveQueue(s)
      BY <2>6 DEF LeaveQueue, Goto, Return
    <2>7. CASE OpenNative(s)
      BY <2>7 DEF OpenNative, Goto
    <2>8. CASE NativeFails(s)
      BY <2>8 DEF NativeFails, Goto, Return
    <2>9. CASE NativeSucceeds(s)
      BY <2>9 DEF NativeSucceeds, Goto
    <2>10. CASE CreatedStaged(s)
      BY <2>10 DEF CreatedStaged, Goto, Return, OutputPaths
    <2>11. CASE CreatedOutput(s)
      BY <2>11 DEF CreatedOutput, Goto, Return
    <2>12. CASE PublishStagedZIP(s)
      BY <2>12 DEF PublishStagedZIP, Goto, Return
    <2>13. CASE Cleanup(s)
      BY Zenon, <2>13 DEF Cleanup, Goto
    <2> QED BY Zenon, <1>1, <2>1, <2>2, <2>3, <2>4, <2>5, <2>6, <2>7, <2>8, <2>9, <2>10, <2>11, <2>12,
        <2>13 DEF Step
  <1>2. ASSUME NEW p \in Paths, Meddle(p)
        PROVE  PublishedIsWhole'
    BY <1>2 DEF Meddle
  <1>3. ASSUME NEW c \in Clients, Crash(c)
        PROVE  PublishedIsWhole'
    BY Zenon, <1>3 DEF Crash
  <1>4. CASE UNCHANGED vars
    BY Zenon, <1>4 DEF vars
  <1> QED BY <1>1, <1>2, <1>3, <1>4 DEF Next, Finished

\* Every action preserves AloneInv.
LEMMA AloneStep ==
  ASSUME TypeInv, CallInv, GateInv, AloneInv, [Next]_vars
  PROVE  AloneInv'
  <1> USE ZipAssumption DEF TypeInv, CallInv, GateInv, AloneInv, Atomic, Alone, Whole, Exists,
      Owner, Labels, Running, Locked, Final, Paths
  <1> setting' = setting
    BY Zenon DEF Next, vars
  <1>1. ASSUME NEW s \in Signers, SignZIP(s) \/ Step(s)
        PROVE  AloneInv'
    <2>1. CASE SignZIP(s)
      BY <2>1 DEF SignZIP, Goto, OutputPaths
    <2>2. CASE LstatOutput(s)
      <3>1. todo[s] \in {<<"zip">>, <<"ZIP", "zip">>}
        BY <2>2 DEF LstatOutput
      <3>2. CASE /\ Return(s, "failed")
                 /\ todo' = [todo EXCEPT ![s] = <<>>]
                 /\ gate' = IF pc[s] = "recheck" THEN [gate EXCEPT ![Owner[s]] = Nobody] ELSE gate
        BY <2>2, <3>2 DEF LstatOutput, Goto, Return
      <3>3. CASE /\ ~Exists(out[Head(todo[s])])
                 /\ todo' = [todo EXCEPT ![s] = Tail(@)]
                 /\ UNCHANGED <<pc, gate, result>>
        <4>1. Tail(todo[s]) # <<>> \/ Head(todo[s]) = "zip"
          BY Zenon, <3>1, TodoTail
        <4>2. /\ todo' = [todo EXCEPT ![s] = Tail(todo[s])]
              /\ UNCHANGED <<pc, gate, out, stage, result>>
          BY Zenon, <2>2, <3>3 DEF LstatOutput
        <4>3. todo'[s] = <<>> => ~Exists(out["zip"])
          BY Zenon, <3>3, <4>1, <4>2
        <4>4. \A r \in Signers \ {s} : todo'[r] = todo[r]
          BY Zenon, <4>2
        <4> QED BY <4>2, <4>3, <4>4
      <3> QED BY Zenon, <2>2, <3>2, <3>3 DEF LstatOutput
    <2>3. CASE OutputAbsent(s)
      BY <2>3 DEF OutputAbsent, Goto
    <2>4. CASE StagedZIPOutputPlan(s)
      BY <2>4 DEF StagedZIPOutputPlan, Goto, Return
    <2>5. CASE TakeGate(s)
      BY <2>5 DEF TakeGate, Goto, OutputPaths
    <2>6. CASE LeaveQueue(s)
      BY <2>6 DEF LeaveQueue, Goto, Return
    <2>7. CASE OpenNative(s)
      BY <2>7 DEF OpenNative, Goto
    <2>8. CASE NativeFails(s)
      BY <2>8 DEF NativeFails, Goto, Return
    <2>9. CASE NativeSucceeds(s)
      BY <2>9 DEF NativeSucceeds, Goto
    <2>10. CASE CreatedStaged(s)
      BY <2>10 DEF CreatedStaged, Goto, Return, OutputPaths
    <2>11. CASE CreatedOutput(s)
      <3>1. Alone' <=> Alone
        BY DEF Alone
      <3>2. UNCHANGED <<out, todo>>
        BY Zenon, <2>11 DEF CreatedOutput
      <3>3. ASSUME Alone PROVE out["zip"] = Whole(s)
        BY Zenon, <2>11, <3>3 DEF CreatedOutput
      <3>4. /\ pc' \in [Signers -> Labels] /\ pc'[s] \in {"cleanup", "returned"}
            /\ \A r \in Signers \ {s} : pc'[r] = pc[r] /\ result'[r] = result[r]
        BY <2>11 DEF CreatedOutput, Goto, Return
      <3> QED BY <3>1, <3>2, <3>3, <3>4
    <2>12. CASE PublishStagedZIP(s)
      BY <2>12 DEF PublishStagedZIP, Goto, Return
    <2>13. CASE Cleanup(s)
      BY <2>13 DEF Cleanup, Goto
    <2> QED BY Zenon, <1>1, <2>1, <2>2, <2>3, <2>4, <2>5, <2>6, <2>7, <2>8, <2>9, <2>10, <2>11, <2>12,
        <2>13 DEF Step
  <1>2. ASSUME NEW p \in Paths, Meddle(p)
        PROVE  AloneInv'
    BY Zenon, <1>2 DEF Meddle
  <1>3. ASSUME NEW c \in Clients, Crash(c)
        PROVE  AloneInv'
    BY <1>3 DEF Crash
  <1>4. CASE UNCHANGED vars
    BY <1>4 DEF vars
  <1> QED BY <1>1, <1>2, <1>3, <1>4 DEF Next, Finished

-----------------------------------------------------------------------------
\* IInv is an invariant.
LEMMA Inductive == Spec => []IInv
  <1>1. Init => IInv
    BY ZipAssumption DEF Init, IInv, TypeInv, CallInv, PublishedIsWhole, GateInv, AloneInv,
        NoFile, Exists, Kinds, Labels, Running, Locked, Final, Paths
  <1>2. IInv /\ [Next]_vars => IInv'
    BY Zenon, TypeStep, CallStep, PublishedStep, GateStep, AloneStep DEF IInv
  <1> QED BY <1>1, <1>2, PTL DEF Spec

\* Whatever the SDK, the other signers and other programs do, and whenever a
\* process dies, a container of an atomic signer at the output path is complete
\* and its SignZIP reported success (publishStagedZIP).
THEOREM PublishedWhole == Spec => []PublishedIsWhole
  <1>1. IInv => PublishedIsWhole
    BY Zenon DEF IInv
  <1> QED BY <1>1, Inductive, PTL

\* Signers of one client that have the directory to themselves never overwrite
\* each other, atomic or not: the check under the call gate is enough.
THEOREM ReportedOwn == Spec => []ReportedIsOwn
  <1>1. IInv => ReportedIsOwn
    BY Zenon DEF IInv, AloneInv, Alone, Whole, ReportedIsOwn
  <1> QED BY <1>1, Inductive, PTL

\* An atomic signer never replaces a file that exists, also one that appeared
\* after its last check (os.Link of publishStagedZIP).
THEOREM NeverReplaces == Spec => AtomicNeverReplaces
  <1> DEFINE Kept == \A p \in Paths :
                       /\ Exists(out[p])
                       /\ out'[p].by \in Signers
                       /\ out'[p] # out[p]
                       => ~Atomic(out'[p].by)
  <1>1. ASSUME TypeInv, [Next]_vars
        PROVE  [Kept]_vars
    <2> USE ZipAssumption DEF TypeInv, Paths, Atomic, Owner
    <2>1. ASSUME NEW s \in Signers, SignZIP(s) \/ Step(s)
          PROVE  Kept
      <3>1. CASE OpenNative(s)
        BY <1>1, <3>1 DEF OpenNative
      <3>2. CASE NativeSucceeds(s)
        BY <1>1, <3>2 DEF NativeSucceeds
      <3>3. CASE PublishStagedZIP(s)
        BY Zenon, <1>1, <3>3 DEF PublishStagedZIP
      <3>4. CASE UNCHANGED out
        BY Zenon, <3>4
      <3> QED BY Zenon, <2>1, <3>1, <3>2, <3>3, <3>4 DEF Step, SignZIP, LstatOutput, OutputAbsent,
                 StagedZIPOutputPlan, TakeGate, LeaveQueue, NativeFails, CreatedStaged,
                 CreatedOutput, Cleanup
    <2>2. ASSUME NEW p \in Paths, Meddle(p)
          PROVE  Kept
      BY <2>2 DEF Meddle
    <2>3. CASE UNCHANGED out
      BY Zenon, <2>3
    <2> QED BY Zenon, <1>1, <2>1, <2>2, <2>3 DEF Next, Crash, Finished, vars
  <1>2. IInv => TypeInv
    BY Zenon DEF IInv
  <1> QED BY <1>1, <1>2, Inductive, PTL DEF Spec, AtomicNeverReplaces
=============================================================================
