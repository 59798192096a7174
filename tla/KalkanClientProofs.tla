------------------------- MODULE KalkanClientProofs -------------------------
(***************************************************************************)
(* What KalkanClient guarantees for any number of goroutines, certificates *)
(* and proxies.  The gate is the heart of the argument: IInv says who may  *)
(* hold it, how far closeLibrary has come, and what the holder is in the   *)
(* middle of changing.                                                     *)
(***************************************************************************)
EXTENDS KalkanClient, TLAPS

HoldsGate(t) == pc[t] \in InLibrary \cup {"recheck"}

CloserHolds == closer \in {"native", "publish", "release"}

\* The gate has one holder at most, and none while its token is in the channel.
GateInv ==
  /\ gate => ~CloserHolds
  /\ \A t \in Threads : HoldsGate(t) => ~gate /\ ~CloserHolds
  /\ \A t, u \in Threads : HoldsGate(t) /\ HoldsGate(u) => t = u

\* How closing, library and the native session follow closeLibrary.
ClosingInv ==
  /\ closer = "none" <=> closing = "nil"
  /\ closer = "none" => (library <=> sdk = "open")
  /\ closer \in {"wait", "native"} => library /\ sdk = "open"
  /\ closer = "publish" => library /\ sdk = "closed"
  /\ closer \in {"release", "done"} =>
       /\ ~library /\ sdk = "closed"
       /\ trusted = <<>> /\ pemCache = NoArg
       /\ closeErr \in {"ok", "failed"}
  /\ closing = "done" => closer = "done"

\* A goroutine was let into an open library, and closeLibrary has not got past
\* the gate since.
LibraryInv ==
  \A t \in Threads : pc[t] \in InLibrary =>
    library /\ sdk = "open" /\ closer \in {"none", "wait"}

\* Between a native key-store load and the end of restoration the trust store
\* is the part of the list that was restored; at any other time it is the list.
TrustInv ==
  /\ \A t \in Threads : pc[t] = "restore" =>
       /\ ~partial
       /\ idx[t] <= Len(trusted) + 1
       /\ sdkTrust = {trusted[i] : i \in 1..(idx[t] - 1)}
  /\ (\A t \in Threads : pc[t] # "restore") /\ sdk = "open" =>
       /\ sdkTrust \subseteq Range(trusted)
       /\ ~partial => sdkTrust = Range(trusted)
  /\ \A t \in Threads : pc[t] = "idle" => idx[t] = 1
  /\ \A t \in Threads : op[t] = "LoadKeyStore" /\ pc[t] # "restore" => idx[t] = 1
  /\ \A t \in Threads : pc[t] = "validating" => snap[t] = Range(trusted)

\* Only a SetProxy between its two assignments sees the proxies differ.
ProxyInv ==
  /\ \A t \in Threads : pc[t] = "proxy" => op[t] = "SetProxy" /\ sdkProxy = arg[t]
  /\ (\A t \in Threads : pc[t] # "proxy") => proxy = sdkProxy

\* CloseContext waits only for a shutdown that was started; one that came late
\* finds it over and does not wait.
CloseInv ==
  /\ \A t \in Threads : pc[t] \in {"poll", "await"} => closing # "nil"
  /\ \A t \in Threads : late[t] => closing = "done" /\ pc[t] = "poll"
  /\ OneCloseResult

IInv ==
  /\ TypeOK /\ GateInv /\ ClosingInv /\ LibraryInv /\ TrustInv /\ ProxyInv /\ CloseInv
-----------------------------------------------------------------------------
(* The list of trusted certificates.                                       *)

\* rememberTrustedCertificate adds the certificate and nothing else, and keeps
\* the list free of duplicates.
LEMMA RememberAdds ==
  ASSUME trusted \in Seq(Certs), IsInjective(trusted), NEW c \in Certs
  PROVE  /\ Remember(c) \in Seq(Certs)
         /\ Range(Remember(c)) = Range(trusted) \cup {c}
         /\ IsInjective(Remember(c))
<1>1. CASE c \in Range(trusted)
  BY Zenon, <1>1 DEF Remember
<1>2. CASE c \notin Range(trusted)
  <2>1. Remember(c) = Append(trusted, c)
    BY Zenon, <1>2 DEF Remember
  <2>2. /\ Len(Append(trusted, c)) = Len(trusted) + 1
        /\ \A i \in 1..Len(trusted) : Append(trusted, c)[i] = trusted[i]
        /\ Append(trusted, c)[Len(trusted) + 1] = c
        /\ DOMAIN Append(trusted, c) = 1..(Len(trusted) + 1)
        /\ DOMAIN trusted = 1..Len(trusted)
    OBVIOUS
  <2>3. Range(Append(trusted, c)) = Range(trusted) \cup {c}
    BY <2>2 DEF Range
  <2>4. IsInjective(Append(trusted, c))
    BY <2>2, <1>2 DEF IsInjective, Range
  <2> QED
    BY <2>1, <2>3, <2>4
<1> QED
  BY Zenon, <1>1, <1>2

\* Restoration that has passed the end of the list has restored all of it.
LEMMA PrefixRange ==
  ASSUME trusted \in Seq(Certs), NEW n \in Nat, n <= Len(trusted)
  PROVE  /\ {trusted[i] : i \in 1..n} \subseteq Range(trusted)
         /\ n = Len(trusted) => {trusted[i] : i \in 1..n} = Range(trusted)
<1>1. DOMAIN trusted = 1..Len(trusted) /\ 1..n \subseteq 1..Len(trusted)
  OBVIOUS
<1>2. Range(trusted) = {trusted[i] : i \in 1..Len(trusted)}
  BY Zenon, <1>1 DEF Range
<1> QED
  BY Zenon, <1>1, <1>2
-----------------------------------------------------------------------------
(* IInv is inductive: one step per action, and under it one per conjunct of   *)
(* IInv where the action disturbs several.                                    *)

\* The client that Open returned, and the zero Client, satisfy IInv.
LEMMA Initially == Init => IInv
<1> SUFFICES ASSUME Init PROVE IInv
  BY Zenon
<1> USE ClientAssumption DEF Init, InLibrary, PCs, HoldsGate, CloserHolds, OneCloseResult
<1>1. /\ trusted \in Seq(Certs) /\ IsInjective(trusted)
      /\ Range(trusted) = {}
  BY DEF IsInjective, Range
<1>2. TypeOK
  <2>1. library \in BOOLEAN /\ gate \in BOOLEAN /\ partial \in BOOLEAN
    BY Zenon DEF Init
  <2>2. sdk \in {"open", "closed"}
    BY Zenon DEF Init
  <2> QED
    BY <1>1, <2>1, <2>2 DEF TypeOK
<1>3. GateInv /\ ClosingInv /\ LibraryInv /\ ProxyInv /\ CloseInv
  BY Zenon DEF GateInv, ClosingInv, LibraryInv, ProxyInv, CloseInv
<1>4. TrustInv
  BY Zenon, <1>1 DEF TrustInv
<1> QED
  BY Zenon, <1>2, <1>3, <1>4 DEF IInv

USE ClientAssumption
    DEF IInv, TypeOK, GateInv, ClosingInv, LibraryInv, TrustInv, ProxyInv, CloseInv,
        vars, clientVars, sdkVars, callVars, Goto, Forget, Return, CloseReturns, Release,
        Rejects, InLibrary, PCs, HoldsGate, CloserHolds, OneCloseResult, Arguments,
        Operations

\* A goroutine returns, and gives the gate back if it holds it.
LEMMA Leaves ==
  ASSUME IInv, NEW t \in Threads, Return(t),
         pc[t] \notin {"restore", "proxy"},
         gate' = (gate \/ HoldsGate(t)),
         UNCHANGED <<clientVars, closer, sdkVars>>
  PROVE  IInv'
<1>1. TypeOK'
  OBVIOUS
<1>2. GateInv'
  OBVIOUS
<1>3. ClosingInv'
  BY Zenon
<1>4. LibraryInv'
  OBVIOUS
<1>5. TrustInv'
  OBVIOUS
<1>6. ProxyInv'
  OBVIOUS
<1>7. CloseInv'
  OBVIOUS
<1> QED
  BY Zenon, <1>1, <1>2, <1>3, <1>4, <1>5, <1>6, <1>7 DEF IInv

\* A goroutine goes on to a place outside the library, and gives the gate back
\* if it holds it.
LEMMA Moves ==
  ASSUME IInv, NEW t \in Threads, NEW l \in {"wait", "fetch", "await"}, Goto(t, l),
         pc[t] \notin {"idle", "restore", "proxy"},
         l = "await" => pc[t] = "poll" /\ closing # "done",
         l # "await" => pc[t] # "poll",
         gate' = (gate \/ HoldsGate(t)),
         UNCHANGED <<clientVars, closer, sdkVars, canceled, callVars, result>>
  PROVE  IInv'
<1>1. TypeOK'
  OBVIOUS
<1>2. GateInv'
  OBVIOUS
<1>3. ClosingInv'
  BY Zenon
<1>4. LibraryInv'
  OBVIOUS
<1>5. TrustInv'
  OBVIOUS
<1>6. ProxyInv'
  OBVIOUS
<1>7. CloseInv'
  OBVIOUS
<1> QED
  BY Zenon, <1>1, <1>2, <1>3, <1>4, <1>5, <1>6, <1>7 DEF IInv

\* A goroutine begins a call, is canceled, or passes lockLibrary.
LEMMA QueueStep ==
  ASSUME IInv, NEW t \in Threads,
         \/ \E o \in Ops : \E a \in Arguments(o) : BeginCall(t, o, a)
         \/ Cancel(t) \/ LockCheck(t) \/ TakeGate(t) \/ LeaveQueue(t) \/ Recheck(t)
  PROVE  IInv'
<1>1. ASSUME NEW o \in Ops, NEW a \in Arguments(o), BeginCall(t, o, a) PROVE IInv'
  <2>1. TypeOK'
    BY <1>1 DEF BeginCall
  <2>2. GateInv'
    BY <1>1 DEF BeginCall
  <2>3. ClosingInv'
    BY Zenon, <1>1 DEF BeginCall
  <2>4. LibraryInv'
    BY <1>1 DEF BeginCall
  <2>5. TrustInv'
    BY <1>1 DEF BeginCall
  <2>6. ProxyInv'
    BY <1>1 DEF BeginCall
  <2>7. CloseInv'
    BY <1>1 DEF BeginCall
  <2> QED
    BY Zenon, <2>1, <2>2, <2>3, <2>4, <2>5, <2>6, <2>7 DEF IInv
<1>2. ASSUME Cancel(t) PROVE IInv'
  BY <1>2 DEF Cancel
<1>3. ASSUME LockCheck(t) PROVE IInv'
  BY Zenon, <1>3, Leaves, Moves DEF LockCheck
<1>4. ASSUME TakeGate(t) PROVE IInv'
  <2>1. TypeOK'
    BY Zenon, <1>4 DEF TakeGate
  <2>2. GateInv'
    BY <1>4 DEF TakeGate
  <2>3. ClosingInv'
    BY Zenon, <1>4 DEF TakeGate
  <2>4. LibraryInv'
    BY <1>4 DEF TakeGate
  <2>5. TrustInv'
    BY <1>4 DEF TakeGate
  <2>6. ProxyInv'
    BY <1>4 DEF TakeGate
  <2>7. CloseInv'
    BY <1>4 DEF TakeGate
  <2> QED
    BY Zenon, <2>1, <2>2, <2>3, <2>4, <2>5, <2>6, <2>7 DEF IInv
<1>5. ASSUME LeaveQueue(t) PROVE IInv'
  BY Zenon, <1>5, Leaves DEF LeaveQueue
<1>6. ASSUME Recheck(t) PROVE IInv'
  <2>1. CASE canceled[t] \/ Rejects
    <3>1. Return(t) /\ gate' = TRUE /\ HoldsGate(t)
      BY Zenon, <1>6, <2>1 DEF Recheck
    <3> QED
      BY Zenon, <1>6, <3>1, Leaves DEF Recheck
  <2>2. CASE ~canceled[t] /\ ~Rejects
    <3>0. /\ Goto(t, "native") /\ pc[t] = "recheck"
          /\ UNCHANGED <<clientVars, gate, closer, sdkVars, canceled, callVars, result>>
      BY Zenon, <1>6, <2>2 DEF Recheck
    <3>1. TypeOK'
      BY <2>2, <3>0
    <3>2. GateInv'
      BY <2>2, <3>0
    <3>3. ClosingInv'
      BY Zenon, <2>2, <3>0
    <3>4. LibraryInv'
      BY Zenon, <2>2, <3>0
    <3>5. TrustInv'
      BY <2>2, <3>0
    <3>6. ProxyInv'
      BY <2>2, <3>0
    <3>7. CloseInv'
      BY <2>2, <3>0
    <3> QED
      BY Zenon, <3>1, <3>2, <3>3, <3>4, <3>5, <3>6, <3>7 DEF IInv
  <2> QED
    BY Zenon, SMTT(20), <2>1, <2>2
<1> QED
  BY Zenon, <1>1, <1>2, <1>3, <1>4, <1>5, <1>6

\* A goroutine uses the library, or asks the OCSP responder.
LEMMA LibraryStep ==
  ASSUME IInv, NEW t \in Threads, UseLibrary(t) \/ FetchOCSP(t)
  PROVE  IInv'
<1>1. ASSUME NativeCall(t) PROVE IInv'
  BY Zenon, <1>1, Leaves DEF NativeCall
<1>2. ASSUME LoadKeyStore(t) PROVE IInv'
  <2>1. TypeOK'
    BY Zenon, <1>2 DEF LoadKeyStore
  <2>2. GateInv'
    BY <1>2 DEF LoadKeyStore
  <2>3. ClosingInv'
    BY Zenon, <1>2 DEF LoadKeyStore
  <2>4. LibraryInv'
    BY Zenon, <1>2 DEF LoadKeyStore
  <2>5. TrustInv'
    BY <1>2 DEF LoadKeyStore
  <2>6. ProxyInv'
    BY <1>2 DEF LoadKeyStore
  <2>7. CloseInv'
    BY <1>2 DEF LoadKeyStore
  <2> QED
    BY Zenon, <2>1, <2>2, <2>3, <2>4, <2>5, <2>6, <2>7 DEF IInv
<1>3. ASSUME RestoreNext(t) PROVE IInv'
  <2>1. /\ idx[t] \in Nat \ {0} /\ idx[t] <= Len(trusted)
        /\ trusted[idx[t]] \in Certs
        /\ sdkTrust = {trusted[i] : i \in 1..(idx[t] - 1)}
    BY <1>3 DEF RestoreNext
  <2>2. CASE /\ sdkTrust' = sdkTrust \cup {trusted[idx[t]]}
             /\ idx' = [idx EXCEPT ![t] = @ + 1]
             /\ UNCHANGED <<partial, gate, pc, op, arg, pem, snap, late, canceled, result>>
    <3>0. {trusted[i] : i \in 1..(idx[t] - 1)} \cup {trusted[idx[t]]}
            = {trusted[i] : i \in 1..idx[t]}
      BY <2>1
    <3>1. TypeOK'
      BY <1>3, <2>1, <2>2 DEF RestoreNext
    <3>2. GateInv'
      BY Zenon, <1>3, <2>1, <2>2 DEF RestoreNext
    <3>3. ClosingInv'
      BY Zenon, <1>3, <2>1, <2>2 DEF RestoreNext
    <3>4. LibraryInv'
      BY Zenon, <1>3, <2>1, <2>2 DEF RestoreNext
    <3>5. TrustInv'
      <4>1. \A u \in Threads : pc'[u] = "restore" => u = t
        BY <1>3, <2>2 DEF RestoreNext
      <4>2. /\ idx'[t] = idx[t] + 1 /\ idx'[t] - 1 = idx[t]
            /\ trusted' = trusted /\ pc' = pc /\ ~partial'
        BY <1>3, <2>1, <2>2 DEF RestoreNext
      <4>3. sdkTrust' = {trusted'[i] : i \in 1..(idx'[t] - 1)}
        BY <2>1, <2>2, <3>0, <4>2
      <4>4. pc[t] = "restore" /\ sdk' = sdk /\ op' = op /\ snap' = snap
        BY Zenon, <1>3, <2>2 DEF RestoreNext
      <4>5. \A u \in Threads : u # t => idx'[u] = idx[u]
        BY <2>2
      <4>6. \A u \in Threads : pc'[u] = "validating" => snap'[u] = Range(trusted')
        BY Zenon, <4>2, <4>4
      <4> QED
        BY <2>1, <4>1, <4>2, <4>3, <4>4, <4>5, <4>6
    <3>6. ProxyInv'
      BY Zenon, <1>3, <2>1, <2>2 DEF RestoreNext
    <3>7. CloseInv'
      BY Zenon, <1>3, <2>1, <2>2 DEF RestoreNext
    <3> QED
      BY Zenon, <3>1, <3>2, <3>3, <3>4, <3>5, <3>6, <3>7 DEF IInv
  <2>3. CASE partial' = TRUE /\ Release(t) /\ UNCHANGED sdkTrust
    <3>0. sdkTrust \subseteq Range(trusted)
      BY <2>1, PrefixRange
    <3>1. TypeOK'
      BY <1>3, <2>3 DEF RestoreNext
    <3>2. GateInv'
      BY <1>3, <2>3 DEF RestoreNext
    <3>3. ClosingInv'
      BY Zenon, <1>3, <2>3 DEF RestoreNext
    <3>4. LibraryInv'
      BY Zenon, <1>3, <2>3 DEF RestoreNext
    <3>5. TrustInv'
      BY <1>3, <2>3, <3>0 DEF RestoreNext
    <3>6. ProxyInv'
      BY <1>3, <2>3 DEF RestoreNext
    <3>7. CloseInv'
      BY <1>3, <2>3 DEF RestoreNext
    <3> QED
      BY Zenon, <3>1, <3>2, <3>3, <3>4, <3>5, <3>6, <3>7 DEF IInv
  <2> QED
    BY Zenon, <1>3, <2>2, <2>3 DEF RestoreNext
<1>4. ASSUME RestoreDone(t) PROVE IInv'
  <2>0. sdkTrust = Range(trusted)
    <3>1. idx[t] \in Nat /\ idx[t] - 1 = Len(trusted)
      BY <1>4 DEF RestoreDone
    <3>2. {trusted[i] : i \in 1..(idx[t] - 1)} = Range(trusted)
      BY <3>1, PrefixRange
    <3> QED
      BY Zenon, <1>4, <3>2 DEF RestoreDone
  <2>1. TypeOK'
    BY <1>4 DEF RestoreDone
  <2>2. GateInv'
    BY <1>4 DEF RestoreDone
  <2>3. ClosingInv'
    BY Zenon, <1>4 DEF RestoreDone
  <2>4. LibraryInv'
    BY Zenon, <1>4 DEF RestoreDone
  <2>5. TrustInv'
    BY <1>4, <2>0 DEF RestoreDone
  <2>6. ProxyInv'
    BY <1>4 DEF RestoreDone
  <2>7. CloseInv'
    BY <1>4 DEF RestoreDone
  <2> QED
    BY Zenon, <2>1, <2>2, <2>3, <2>4, <2>5, <2>6, <2>7 DEF IInv
<1>5. ASSUME LoadTrustedCertificate(t) PROVE IInv'
  <2>0. /\ trusted' \in Seq(Certs) /\ IsInjective(trusted')
        /\ Range(trusted') = Range(trusted) \cup {arg[t]}
    BY Zenon, <1>5, RememberAdds DEF LoadTrustedCertificate
  <2>1. TypeOK'
    <3>1. sdkTrust' \in SUBSET Certs
      BY <1>5 DEF LoadTrustedCertificate
    <3>2. /\ gate' \in BOOLEAN
          /\ UNCHANGED <<library, partial, closing, closeErr, pemCache, proxy, sdkProxy, closer,
                         sdk, result>>
      BY Zenon, <1>5 DEF LoadTrustedCertificate
    <3>3. pc' \in [Threads -> PCs] /\ Forget(t)
      BY Zenon, <1>5 DEF LoadTrustedCertificate
    <3> HIDE DEF Remember, Release, PCs
    <3> QED
      BY <2>0, <3>1, <3>2, <3>3
  <2>2. GateInv'
    BY <1>5, <2>0 DEF LoadTrustedCertificate
  <2>3. ClosingInv'
    BY Zenon, <1>5, <2>0 DEF LoadTrustedCertificate
  <2>4. LibraryInv'
    BY Zenon, <1>5, <2>0 DEF LoadTrustedCertificate
  <2>5. TrustInv'
    BY <1>5, <2>0 DEF LoadTrustedCertificate
  <2>6. ProxyInv'
    BY <1>5, <2>0 DEF LoadTrustedCertificate
  <2>7. CloseInv'
    BY <1>5, <2>0 DEF LoadTrustedCertificate
  <2> QED
    BY Zenon, <2>1, <2>2, <2>3, <2>4, <2>5, <2>6, <2>7 DEF IInv
<1>6. ASSUME SetProxy(t) PROVE IInv'
  BY <1>6 DEF SetProxy
<1>7. ASSUME StoreProxy(t) PROVE IInv'
  BY <1>7 DEF StoreProxy
<1>8. ASSUME EncodePEM(t) PROVE IInv'
  <2>1. TypeOK'
    BY Zenon, <1>8 DEF EncodePEM
  <2>2. GateInv'
    BY Zenon, <1>8 DEF EncodePEM
  <2>3. ClosingInv'
    BY Zenon, <1>8 DEF EncodePEM
  <2>4. LibraryInv'
    BY Zenon, <1>8 DEF EncodePEM
  <2>5. TrustInv'
    BY <1>8 DEF EncodePEM
  <2>6. ProxyInv'
    BY Zenon, <1>8 DEF EncodePEM
  <2>7. CloseInv'
    BY Zenon, <1>8 DEF EncodePEM
  <2> QED
    BY Zenon, <2>1, <2>2, <2>3, <2>4, <2>5, <2>6, <2>7 DEF IInv
<1>9. ASSUME GetInfo(t) PROVE IInv'
  BY <1>9 DEF GetInfo
<1>10. ASSUME CopyTrust(t) PROVE IInv'
  <2>0. Range(trusted) \subseteq Certs
    BY DEF Range
  <2>1. TypeOK'
    BY <1>10, <2>0 DEF CopyTrust
  <2>2. GateInv'
    BY <1>10, <2>0 DEF CopyTrust
  <2>3. ClosingInv'
    BY Zenon, <1>10, <2>0 DEF CopyTrust
  <2>4. LibraryInv'
    BY Zenon, <1>10, <2>0 DEF CopyTrust
  <2>5. TrustInv'
    BY <1>10, <2>0 DEF CopyTrust
  <2>6. ProxyInv'
    BY <1>10, <2>0 DEF CopyTrust
  <2>7. CloseInv'
    BY <1>10, <2>0 DEF CopyTrust
  <2> QED
    BY Zenon, <2>1, <2>2, <2>3, <2>4, <2>5, <2>6, <2>7 DEF IInv
<1>11. ASSUME ValidateChain(t) PROVE IInv'
  BY Zenon, <1>11, Leaves, Moves DEF ValidateChain
<1>12. ASSUME FetchOCSP(t) PROVE IInv'
  BY Zenon, <1>12, Leaves DEF FetchOCSP
<1> QED
  BY Zenon, <1>1, <1>2, <1>3, <1>4, <1>5, <1>6, <1>7, <1>8, <1>9, <1>10, <1>11, <1>12 DEF UseLibrary

\* A goroutine calls CloseContext or waits for its end.
LEMMA CloseContextStep ==
  ASSUME IInv, NEW t \in Threads,
         CloseNothing(t) \/ CloseContext(t) \/ PollDone(t) \/ AwaitDone(t)
  PROVE  IInv'
<1>1. ASSUME CloseNothing(t) PROVE IInv'
  BY <1>1 DEF CloseNothing
<1>2. ASSUME CloseContext(t) PROVE IInv'
  <2>1. TypeOK'
    BY <1>2 DEF CloseContext
  <2>2. GateInv'
    BY <1>2 DEF CloseContext
  <2>3. ClosingInv'
    BY Zenon, <1>2 DEF CloseContext
  <2>4. LibraryInv'
    BY <1>2 DEF CloseContext
  <2>5. TrustInv'
    BY <1>2 DEF CloseContext
  <2>6. ProxyInv'
    BY <1>2 DEF CloseContext
  <2>7. CloseInv'
    BY <1>2 DEF CloseContext
  <2> QED
    BY Zenon, <2>1, <2>2, <2>3, <2>4, <2>5, <2>6, <2>7 DEF IInv
<1>3. ASSUME PollDone(t) PROVE IInv'
  <2>1. CASE closing = "done" /\ CloseReturns(t, closeErr)
    <3>1. TypeOK'
      BY <1>3, <2>1 DEF PollDone
    <3>2. GateInv'
      BY <1>3, <2>1 DEF PollDone
    <3>3. ClosingInv'
      BY Zenon, <1>3, <2>1 DEF PollDone
    <3>4. LibraryInv'
      BY <1>3, <2>1 DEF PollDone
    <3>5. TrustInv'
      BY <1>3, <2>1 DEF PollDone
    <3>6. ProxyInv'
      BY <1>3, <2>1 DEF PollDone
    <3>7. CloseInv'
      BY <1>3, <2>1 DEF PollDone
    <3> QED
      BY Zenon, <3>1, <3>2, <3>3, <3>4, <3>5, <3>6, <3>7 DEF IInv
  <2>2. CASE closing # "done"
    BY Zenon, <1>3, <2>2, Moves DEF PollDone
  <2> QED
    BY Zenon, <1>3, <2>1, <2>2 DEF PollDone
<1>4. ASSUME AwaitDone(t) PROVE IInv'
  <2>1. CASE closing = "done" /\ CloseReturns(t, closeErr)
    BY <1>4, <2>1 DEF AwaitDone
  <2>2. CASE canceled[t] /\ CloseReturns(t, "canceled")
    BY <1>4, <2>2 DEF AwaitDone
  <2> QED
    BY Zenon, <1>4, <2>1, <2>2 DEF AwaitDone
<1> QED
  BY Zenon, <1>1, <1>2, <1>3, <1>4

\* The goroutine of closeLibrary.
LEMMA CloseLibraryStep ==
  ASSUME IInv, CloseLibrary
  PROVE  IInv'
<1>1. ASSUME CloserTakesGate PROVE IInv'
  <2>1. TypeOK'
    BY Zenon, <1>1 DEF CloserTakesGate
  <2>2. GateInv'
    BY Zenon, <1>1 DEF CloserTakesGate
  <2>3. ClosingInv'
    BY Zenon, <1>1 DEF CloserTakesGate
  <2>4. LibraryInv'
    BY Zenon, <1>1 DEF CloserTakesGate
  <2>5. TrustInv'
    BY Zenon, <1>1 DEF CloserTakesGate
  <2>6. ProxyInv'
    BY Zenon, <1>1 DEF CloserTakesGate
  <2>7. CloseInv'
    BY Zenon, <1>1 DEF CloserTakesGate
  <2> QED
    BY Zenon, <2>1, <2>2, <2>3, <2>4, <2>5, <2>6, <2>7 DEF IInv
<1>2. ASSUME CloserCloses PROVE IInv'
  BY <1>2 DEF CloserCloses
<1>3. ASSUME CloserPublishes PROVE IInv'
  <2>0. trusted' \in Seq(Certs) /\ IsInjective(trusted')
    BY <1>3 DEF CloserPublishes, IsInjective
  <2>1. TypeOK'
    BY Zenon, <1>3, <2>0 DEF CloserPublishes
  <2>2. GateInv'
    BY Zenon, <1>3, <2>0 DEF CloserPublishes
  <2>3. ClosingInv'
    BY Zenon, <1>3, <2>0 DEF CloserPublishes
  <2>4. LibraryInv'
    BY Zenon, <1>3, <2>0 DEF CloserPublishes
  <2>5. TrustInv'
    BY Zenon, <1>3, <2>0 DEF CloserPublishes
  <2>6. ProxyInv'
    BY Zenon, <1>3, <2>0 DEF CloserPublishes
  <2>7. CloseInv'
    BY Zenon, <1>3, <2>0 DEF CloserPublishes
  <2> QED
    BY Zenon, <2>1, <2>2, <2>3, <2>4, <2>5, <2>6, <2>7 DEF IInv
<1>4. ASSUME CloserReleases PROVE IInv'
  BY <1>4 DEF CloserReleases
<1>5. ASSUME CloserSignals PROVE IInv'
  BY <1>5 DEF CloserSignals
<1> QED
  BY Zenon, <1>1, <1>2, <1>3, <1>4, <1>5 DEF CloseLibrary

HIDE ClientAssumption
     DEF IInv, TypeOK, GateInv, ClosingInv, LibraryInv, TrustInv, ProxyInv, CloseInv,
         vars, clientVars, sdkVars, callVars, Goto, Forget, Return, CloseReturns, Release,
         Rejects, InLibrary, PCs, HoldsGate, CloserHolds, OneCloseResult, Arguments,
         Operations

\* No step of a goroutine or of closeLibrary leaves IInv.
LEMMA Inductive == IInv /\ [Next]_vars => IInv'
<1> SUFFICES ASSUME IInv, [Next]_vars PROVE IInv'
  BY Zenon
<1>1. CASE Next
  BY Zenon, <1>1, QueueStep, LibraryStep, CloseContextStep, CloseLibraryStep DEF Next, Proceed
<1>2. CASE UNCHANGED vars
  BY <1>2 DEF IInv, TypeOK, GateInv, ClosingInv, LibraryInv, TrustInv, ProxyInv, CloseInv,
              vars, clientVars, sdkVars, callVars, HoldsGate, CloserHolds, OneCloseResult
<1> QED
  BY Zenon, <1>1, <1>2

\* Every reachable state satisfies IInv.
THEOREM Invariance == Spec => []IInv
BY Initially, Inductive, PTL DEF Spec

-----------------------------------------------------------------------------
(* The properties of KalkanClient, for every instance.                     *)

\* Every variable stays in its type; in particular rememberTrustedCertificate
\* never stores a certificate twice.
THEOREM TypeCorrect == Spec => []TypeOK
<1>1. IInv => TypeOK
  BY Zenon DEF IInv
<1> QED
  BY Invariance, <1>1, PTL

\* Native calls never overlap, neither with each other nor with the native
\* Close, and none is made on a closed library.
THEOREM Serialized == Spec => []NativeSerialized
<1>1. IInv => NativeSerialized
  BY Zenon DEF IInv, GateInv, ClosingInv, LibraryInv, HoldsGate, InLibrary, NativeSerialized
<1> QED
  BY Invariance, <1>1, PTL

\* A client whose shutdown is over retains nothing, and no call that was under
\* way when it began adds anything later.
THEOREM Clean == Spec => []ClosedIsClean
<1>1. IInv => ClosedIsClean
  BY Zenon DEF IInv, ClosingInv, ClosedIsClean
<1> QED
  BY Invariance, <1>1, PTL

\* LoadKeyStore hands the gate on only with all remembered trust restored, or
\* after it reported that it could not, and SetProxy updates the native proxy and
\* the client's as one.
THEOREM SdkKept == Spec => []NativeAgrees
<1>1. IInv => NativeAgrees
  <2>1. IInv /\ gate => \A t \in Threads : ~HoldsGate(t)
    BY Zenon DEF IInv, GateInv
  <2> QED
    BY Zenon, <2>1 DEF IInv, GateInv, TrustInv, ProxyInv, HoldsGate, InLibrary, NativeAgrees
<1> QED
  BY Invariance, <1>1, PTL

\* OCSP looks for an issuer among the certificates that the native validation
\* of the same call trusts.
THEOREM TrustShared == Spec => []OneTrustPerValidation
<1>1. IInv => OneTrustPerValidation
  <2> SUFFICES ASSUME IInv, NEW t \in Threads, pc[t] = "validating", ~partial
               PROVE  snap[t] = sdkTrust
    BY Zenon DEF OneTrustPerValidation
  <2>1. \A u \in Threads : pc[u] # "restore"
    BY Zenon DEF IInv, GateInv, HoldsGate, InLibrary
  <2>2. sdk = "open"
    BY Zenon DEF IInv, LibraryInv, InLibrary
  <2> QED
    BY Zenon, <2>1, <2>2 DEF IInv, TrustInv
<1> QED
  BY Invariance, <1>1, PTL

\* All callers of CloseContext that learn how shutdown ended learn the same.
THEOREM CloseAgreement == Spec => []OneCloseResult
<1>1. IInv => OneCloseResult
  BY Zenon DEF IInv, CloseInv
<1> QED
  BY Invariance, <1>1, PTL

\* A CloseContext that begins after shutdown returns the saved result, canceled
\* or not.
THEOREM SavedFirst == Spec => SavedResultFirst
<1> DEFINE Late == \A t \in Threads : late[t] /\ pc[t] # "idle" /\ pc'[t] = "idle" =>
                      result'[t] = closeErr
<1>1. IInv /\ [Next]_vars => [Late]_vars
  <2> SUFFICES ASSUME IInv, Next, NEW t \in Threads,
                      late[t], pc[t] # "idle", pc'[t] = "idle"
               PROVE  result'[t] = closeErr
    BY Zenon
  <2>1. pc[t] = "poll" /\ closing = "done"
    BY Zenon DEF IInv, CloseInv
  <2> USE DEF Goto
  <2>2. pc \in [Threads -> PCs] /\ result \in [Threads -> {"none", "ok", "failed", "canceled"}]
    BY Zenon DEF IInv, TypeOK
  <2>3. CASE \E u \in Threads : \E o \in Ops : \E a \in Arguments(o) : BeginCall(u, o, a)
    BY Zenon, <2>1, <2>2, <2>3
         DEF BeginCall
  <2>4. CASE \E u \in Threads : Cancel(u) \/ TakeGate(u)
    BY Zenon, <2>1, <2>2, <2>4
         DEF Cancel, TakeGate
  <2>5. CASE \E u \in Threads : LockCheck(u) \/ LeaveQueue(u) \/ Recheck(u)
    BY Zenon, <2>1, <2>2, <2>5
         DEF LockCheck, LeaveQueue, Recheck, Return
  <2>6. CASE \E u \in Threads : UseLibrary(u)
    BY SMTT(40), <2>1, <2>2, <2>6
         DEF UseLibrary, NativeCall, LoadKeyStore, RestoreNext, RestoreDone,
             LoadTrustedCertificate, SetProxy, StoreProxy, EncodePEM, GetInfo, CopyTrust,
             ValidateChain, Release, Return
  <2>7. CASE \E u \in Threads : FetchOCSP(u) \/ AwaitDone(u)
    BY Zenon, <2>1, <2>2, <2>7
         DEF FetchOCSP, AwaitDone, Return, CloseReturns
  <2>8. CASE \E u \in Threads : PollDone(u)
    BY Zenon, <2>1, <2>2, <2>8
         DEF PollDone, CloseReturns
  <2>9. CASE \E u \in Threads : CloseNothing(u) \/ CloseContext(u)
    BY Zenon, <2>1, <2>2, <2>9
         DEF CloseNothing, CloseContext
  <2>10. CASE CloseLibrary
    BY Zenon, <2>1, <2>2, <2>10
         DEF CloseLibrary, CloserTakesGate, CloserCloses, CloserPublishes,
             CloserReleases, CloserSignals
  <2> QED
    BY Zenon, <2>3, <2>4, <2>5, <2>6, <2>7, <2>8, <2>9, <2>10 DEF Next, Proceed
<1> QED
  BY Invariance, <1>1, PTL DEF SavedResultFirst, Spec

-----------------------------------------------------------------------------
(* The client implements Session.                                          *)

Inside(t) == pc[t] \in InLibrary

\* Who is inside the abstract session.
Holds ==
  /\ CloserInside => SessionHolder = "closer"
  /\ \A t \in Threads : ~CloserInside /\ Inside(t) => SessionHolder = t
  /\ ~CloserInside /\ (\A t \in Threads : ~Inside(t)) => SessionHolder = "nobody"

\* The gate makes the goroutine that SessionHolder chooses the only candidate.
LEMMA HolderUnique == IInv => Holds
<1> SUFFICES ASSUME IInv PROVE Holds
  BY Zenon
<1>1. CloserInside => SessionHolder = "closer"
  BY Zenon DEF SessionHolder
<1>2. ASSUME NEW t \in Threads, ~CloserInside, Inside(t) PROVE SessionHolder = t
  <2>1. \A u \in Threads : pc[u] \in InLibrary => u = t
    BY Zenon, <1>2 DEF IInv, GateInv, HoldsGate, Inside
  <2>2. (CHOOSE u \in Threads : pc[u] \in InLibrary) = t
    BY Zenon, <1>2, <2>1 DEF Inside
  <2> QED
    BY Zenon, <1>2, <2>2 DEF SessionHolder, Inside
<1>3. ASSUME ~CloserInside, \A t \in Threads : ~Inside(t) PROVE SessionHolder = "nobody"
  BY Zenon, <1>3 DEF SessionHolder, Inside
<1> QED
  BY Zenon, <1>1, <1>2, <1>3 DEF Holds

\* ... in the next state as well.
LEMMA HolderUniqueNext == IInv' => Holds'
BY HolderUnique, PTL

\* A step that moves nobody across the border of the library, and closeLibrary
\* not at all, is no step of the session.
LEMMA Stutters ==
  ASSUME IInv, IInv',
         UNCHANGED <<closing, library, closeErr, closer>>,
         \A t \in Threads : Inside(t)' <=> Inside(t)
  PROVE  UNCHANGED <<SessionState, SessionHolder, SessionResult>>
<1>1. UNCHANGED <<SessionState, SessionResult>> /\ (CloserInside' <=> CloserInside)
  BY Zenon DEF SessionState, SessionResult, CloserInside
<1>2. CASE CloserInside
  BY Zenon, <1>1, <1>2, HolderUnique, HolderUniqueNext DEF Holds
<1>3. CASE ~CloserInside /\ \E t \in Threads : Inside(t)
  BY Zenon, <1>1, <1>3, HolderUnique, HolderUniqueNext DEF Holds
<1>4. CASE ~CloserInside /\ \A t \in Threads : ~Inside(t)
  BY Zenon, <1>1, <1>4, HolderUnique, HolderUniqueNext DEF Holds
<1> QED
  BY Zenon, <1>1, <1>2, <1>3, <1>4

\* A goroutine that gives the gate back leaves the session.
LEMMA LeavesSession ==
  ASSUME IInv, IInv', NEW t \in Threads,
         UNCHANGED <<closing, library, closeErr, closer>>,
         Inside(t), ~Inside(t)',
         \A u \in Threads \ {t} : Inside(u)' <=> Inside(u)
  PROVE  Abstract!Leave(t)
<1>1. UNCHANGED <<SessionState, SessionResult>>
  BY Zenon DEF SessionState, SessionResult
<1>2. ~CloserInside /\ ~CloserInside'
  BY Zenon DEF IInv, LibraryInv, Inside, CloserInside
<1>3. \A u \in Threads : ~Inside(u)'
  BY Zenon DEF IInv, GateInv, HoldsGate, Inside
<1>4. SessionHolder = t /\ SessionHolder' = "nobody"
  BY Zenon, <1>2, <1>3, HolderUnique, HolderUniqueNext DEF Holds
<1> QED
  BY Zenon, <1>1, <1>4 DEF Abstract!Leave

\* One that passes the second check of lockLibrary enters it.
LEMMA EntersSession ==
  ASSUME IInv, IInv', NEW t \in Threads,
         UNCHANGED <<closing, library, closeErr, closer>>,
         pc[t] = "recheck", ~Rejects, Inside(t)',
         \A u \in Threads \ {t} : Inside(u)' <=> Inside(u)
  PROVE  Abstract!Enter(t)
<1>1. UNCHANGED <<SessionState, SessionResult>> /\ SessionState = "open"
  BY Zenon DEF SessionState, SessionResult, Rejects
<1>2. ~CloserInside /\ ~CloserInside'
  BY Zenon DEF Rejects, CloserInside
<1>3. \A u \in Threads : ~Inside(u)
  BY Zenon DEF IInv, GateInv, HoldsGate, Inside, InLibrary
<1>4. SessionHolder = "nobody" /\ SessionHolder' = t
  BY Zenon, <1>2, <1>3, HolderUnique, HolderUniqueNext DEF Holds
<1> QED
  BY Zenon, <1>1, <1>4 DEF Abstract!Enter

\* A new client is an open session, a zero Client a closed one.
LEMMA SessionInit == Init => Abstract!Init
<1> SUFFICES ASSUME Init PROVE Abstract!Init
  BY Zenon
<1>1. SessionHolder = "nobody"
  BY Zenon DEF Init, SessionHolder, CloserInside, InLibrary
<1>2. CASE library
  BY Zenon, <1>1, <1>2 DEF Init, Abstract!Init, SessionState, SessionResult
<1>3. CASE ~library
  BY Zenon, <1>1, <1>3 DEF Init, Abstract!Init, SessionState, SessionResult
<1> QED
  BY Zenon, <1>2, <1>3

\* The steps of closeLibrary: only its first and its last are visible.
LEMMA SessionClose ==
  ASSUME IInv, IInv', CloseLibrary
  PROVE  \/ Abstract!EnterClose \/ Abstract!FinishClose
         \/ UNCHANGED <<SessionState, SessionHolder, SessionResult>>
<1> USE DEF IInv, ClosingInv, SessionState, SessionResult, CloserInside
<1>1. Holds /\ Holds'
  BY Zenon, HolderUnique, HolderUniqueNext
<1>2. closing # "nil" /\ (closer # "done" => closing = "started")
  BY Zenon DEF CloseLibrary, CloserTakesGate, CloserCloses, CloserPublishes, CloserReleases,
         CloserSignals, TypeOK
<1>3. ASSUME CloserTakesGate PROVE Abstract!EnterClose
  <2>1. ~CloserInside /\ CloserInside' /\ \A t \in Threads : ~Inside(t)
    BY Zenon, <1>2, <1>3 DEF CloserTakesGate, clientVars, GateInv, HoldsGate, Inside
  <2>2. SessionHolder = "nobody" /\ SessionHolder' = "closer"
    BY Zenon, <1>1, <2>1 DEF Holds
  <2> QED
    BY Zenon, <1>2, <1>3, <2>2 DEF CloserTakesGate, clientVars, Abstract!EnterClose
<1>4. ASSUME CloserCloses \/ CloserPublishes \/ CloserReleases
      PROVE  UNCHANGED <<SessionState, SessionHolder, SessionResult>>
  <2>1. closing = "started" /\ closing' = "started" /\ CloserInside /\ CloserInside'
    BY Zenon, <1>2, <1>4 DEF CloserCloses, CloserPublishes, CloserReleases, clientVars
  <2>2. SessionHolder = "closer" /\ SessionHolder' = "closer"
    BY Zenon, <1>1, <2>1 DEF Holds
  <2> QED
    BY Zenon, <2>1, <2>2
<1>5. ASSUME CloserSignals PROVE Abstract!FinishClose
  <2>1. CloserInside /\ ~CloserInside' /\ \A t \in Threads : ~Inside(t)'
    BY Zenon, <1>5 DEF CloserSignals, LibraryInv, Inside
  <2>2. SessionHolder = "closer" /\ SessionHolder' = "nobody"
    BY Zenon, <1>1, <2>1 DEF Holds
  <2>3. SessionState' = "closed" /\ SessionResult' \in {"ok", "failed"}
    BY Zenon, <1>5 DEF CloserSignals
  <2> QED
    BY Zenon, <2>2, <2>3 DEF Abstract!FinishClose
<1> QED
  BY Zenon, <1>3, <1>4, <1>5 DEF CloseLibrary

\* The steps of CloseContext: only the first one of all begins a shutdown.
LEMMA SessionCloseContext ==
  ASSUME IInv, IInv', NEW t \in Threads,
         CloseNothing(t) \/ CloseContext(t) \/ PollDone(t) \/ AwaitDone(t)
  PROVE  Abstract!BeginClose \/ UNCHANGED <<SessionState, SessionHolder, SessionResult>>
<1>1. \A u \in Threads : Inside(u)' <=> Inside(u)
  BY DEF CloseNothing, CloseContext, PollDone, AwaitDone, CloseReturns, Goto, Inside, InLibrary,
         IInv, TypeOK
<1>2. CASE UNCHANGED <<closing, library, closeErr, closer>>
  BY Zenon, <1>1, <1>2, Stutters
<1>3. CASE CloseContext(t) /\ closing = "nil"
  <2>1. /\ SessionState = "open" /\ SessionState' = "closing"
        /\ SessionResult = "none" /\ SessionResult' = "none"
    BY Zenon, <1>3 DEF CloseContext, SessionState, SessionResult
  <2>2. ~CloserInside /\ ~CloserInside'
    BY Zenon, <1>3 DEF CloseContext, CloserInside
  <2>3. CASE \E u \in Threads : Inside(u)
    BY Zenon, <1>1, <2>1, <2>2, <2>3, HolderUnique, HolderUniqueNext DEF Holds, Abstract!BeginClose
  <2>4. CASE \A u \in Threads : ~Inside(u)
    BY Zenon, <1>1, <2>1, <2>2, <2>4, HolderUnique, HolderUniqueNext DEF Holds, Abstract!BeginClose
  <2> QED
    BY Zenon, <2>3, <2>4
<1> QED
  BY Zenon, <1>2, <1>3 DEF CloseNothing, CloseContext, PollDone, AwaitDone, clientVars

\* The steps of an operation: it enters after the second check of lockLibrary,
\* and leaves when it gives the gate back.
LEMMA SessionOperation ==
  ASSUME IInv, IInv', NEW t \in Threads,
         \/ \E o \in Ops : \E a \in Arguments(o) : BeginCall(t, o, a)
         \/ Cancel(t) \/ TakeGate(t) \/ LockCheck(t) \/ LeaveQueue(t) \/ Recheck(t)
         \/ UseLibrary(t) \/ FetchOCSP(t)
  PROVE  \/ Abstract!Enter(t) \/ Abstract!Leave(t)
         \/ UNCHANGED <<SessionState, SessionHolder, SessionResult>>
<1> DEFINE Keeps == UNCHANGED <<closing, library, closeErr, closer>>
           Others == \A u \in Threads \ {t} : pc'[u] = pc[u]
           Enters == Inside(t)' /\ ~Inside(t) => pc[t] = "recheck" /\ ~Rejects
<1>1. Keeps /\ Others /\ Enters
  <2>1. pc \in [Threads -> PCs]
    BY Zenon DEF IInv, TypeOK
  <2>2. CASE \E o \in Ops : \E a \in Arguments(o) : BeginCall(t, o, a)
    BY Zenon, <2>1, <2>2 DEF BeginCall, Goto, Inside, InLibrary, clientVars
  <2>3. CASE Cancel(t) \/ TakeGate(t)
    BY Zenon, <2>1, <2>3 DEF Cancel, TakeGate, Goto, Inside, InLibrary, clientVars
  <2>4. CASE LockCheck(t) \/ LeaveQueue(t)
    BY Zenon, <2>1, <2>4 DEF LockCheck, LeaveQueue, Return, Goto, Inside, InLibrary, clientVars
  <2>5. CASE Recheck(t)
    BY Zenon, <2>1, <2>5 DEF Recheck, Return, Goto, Inside, InLibrary, clientVars
  <2>6. CASE UseLibrary(t)
    <3>1. Keeps
      BY Zenon, <2>6 DEF UseLibrary, NativeCall, LoadKeyStore, RestoreNext, RestoreDone,
                  LoadTrustedCertificate, SetProxy, StoreProxy, EncodePEM, GetInfo, CopyTrust,
                  ValidateChain, Release, clientVars
    <3>2. Inside(t)
      BY Zenon, <2>6 DEF UseLibrary, NativeCall, LoadKeyStore, RestoreNext, RestoreDone,
                  LoadTrustedCertificate, SetProxy, StoreProxy, EncodePEM, GetInfo, CopyTrust,
                  ValidateChain, Inside, InLibrary
    <3>3. Others
      BY Zenon, <2>1, <2>6 DEF UseLibrary, NativeCall, LoadKeyStore, RestoreNext, RestoreDone,
                  LoadTrustedCertificate, SetProxy, StoreProxy, EncodePEM, GetInfo, CopyTrust,
                  ValidateChain, Release, Return, Goto
    <3> QED
      BY Zenon, <3>1, <3>2, <3>3
  <2>7. CASE FetchOCSP(t)
    BY Zenon, <2>1, <2>7 DEF FetchOCSP, Return, Goto, Inside, InLibrary, clientVars
  <2> QED
    BY <2>2, <2>3, <2>4, <2>5, <2>6, <2>7
<1>2. \A u \in Threads \ {t} : Inside(u)' <=> Inside(u)
  BY Zenon, <1>1 DEF Inside
<1>3. Inside(t)' /\ ~Inside(t) => pc[t] = "recheck" /\ ~Rejects
  BY Zenon, <1>1
<1>4. CASE Inside(t)' <=> Inside(t)
  BY Zenon, <1>1, <1>2, <1>4, Stutters
<1>5. CASE Inside(t)' /\ ~Inside(t)
  BY <1>1, <1>2, <1>3, <1>5, EntersSession
<1>6. CASE ~Inside(t)' /\ Inside(t)
  BY Zenon, <1>1, <1>2, <1>6, LeavesSession
<1> QED
  BY Zenon, <1>4, <1>5, <1>6

\* Every step of the client is a step of the session, or invisible to it.
LEMMA SessionStep == IInv /\ IInv' /\ [Next]_vars => [Abstract!Next]_(Abstract!vars)
<1> SUFFICES ASSUME IInv, IInv', [Next]_vars PROVE [Abstract!Next]_(Abstract!vars)
  BY Zenon
<1> USE DEF Abstract!Next, Abstract!vars
<1>1. CASE UNCHANGED vars
  BY Zenon, <1>1, Stutters DEF vars, clientVars, Inside
<1>2. CASE CloseLibrary
  BY Zenon, <1>2, SessionClose
<1>3. CASE \E t \in Threads : CloseNothing(t) \/ CloseContext(t) \/ PollDone(t) \/ AwaitDone(t)
  BY Zenon, <1>3, SessionCloseContext
<1>4. CASE \E t \in Threads :
             \/ \E o \in Ops : \E a \in Arguments(o) : BeginCall(t, o, a)
             \/ Cancel(t) \/ TakeGate(t) \/ LockCheck(t) \/ LeaveQueue(t) \/ Recheck(t)
             \/ UseLibrary(t) \/ FetchOCSP(t)
  BY Zenon, <1>4, SessionOperation
<1> QED
  BY Zenon, <1>1, <1>2, <1>3, <1>4 DEF Next, Proceed

\* Whatever the goroutines do, the client behaves like the abstract session: it
\* is used by one party at a time, admits nobody once CloseContext was called,
\* and is shut down once, with one result.
THEOREM Refinement == Spec => ImplementsSession
<1>1. IInv /\ IInv' /\ [Next]_vars => [Abstract!Next]_(Abstract!vars)
  BY Zenon, SessionStep
<1> QED
  BY Invariance, SessionInit, <1>1, PTL DEF Spec, ImplementsSession, Abstract!SafeSpec
=============================================================================
