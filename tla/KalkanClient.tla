---------------------------- MODULE KalkanClient ----------------------------
(***************************************************************************)
(* The root package's Client (client.go, certificate.go, and the parts of  *)
(* certificate_info.go and ocsp_client.go that run under its call gate):   *)
(* goroutines that share one native session through a one-token channel,   *)
(* cancelable contexts, and a Close that any of them may start.            *)
(*                                                                         *)
(* A step is a stretch of code between two points another goroutine can    *)
(* observe: a critical section of mu, a channel operation, the return of a *)
(* native call.  Input validation that returns before the gate changes no  *)
(* state and has no step.                                                  *)
(***************************************************************************)
EXTENDS Naturals, Sequences, FiniteSets, Functions

CONSTANTS Threads,    \* goroutines that use the client
          Certs,      \* certificates: to trust, or to query
          Proxies,    \* proxy configurations
          NoProxy,    \* the configuration before the first SetProxy
          NoArg,      \* "no argument", "no cached certificate"
          Ops,        \* the operations the goroutines use
          Properties  \* properties that one certificate query asks for

Operations == {"Call", "LoadKeyStore", "LoadTrustedCertificate", "SetProxy",
               "X509CertificateGetInfo", "validateCertificateOCSP"}

ASSUME ClientAssumption ==
  /\ Ops \subseteq Operations
  /\ NoArg \notin Certs \cup Proxies
  /\ NoProxy \notin Proxies
  /\ Properties \in Nat \ {0}

VARIABLES
  (* Client *)
  library,    \* c.library # nil
  closing,    \* c.closing: "nil", "started" or, once closing.done is closed, "done"
  closeErr,   \* closing.err: "none" until saved
  gate,       \* the channel holds its token
  trusted,    \* c.trusted
  pemCache,   \* the certificate in c.pemCache, or NoArg
  proxy,      \* c.config.proxy
  closer,     \* where the closeLibrary goroutine is
  (* the native library, as the client uses it *)
  sdk,        \* "open" or "closed"
  sdkTrust,   \* certificates in its trust store
  sdkProxy,   \* its proxy
  partial,    \* the last native key-store load that succeeded was not fully restored
  (* each goroutine *)
  pc, op, arg,
  canceled,   \* its context is canceled
  idx,        \* the next certificate to restore, or property to query
  pem,        \* certPEM # nil
  snap,       \* the copy of c.trusted that OCSP searches for an issuer
  late,       \* its CloseContext began after closing.done was closed
  result      \* what its last CloseContext returned

clientVars == <<library, closing, closeErr, trusted, pemCache, proxy>>
sdkVars == <<sdk, sdkTrust, sdkProxy, partial>>
callVars == <<op, arg, idx, pem, snap, late>>
vars == <<clientVars, gate, closer, sdkVars, pc, canceled, callVars, result>>

\* Where a goroutine holds the gate and has been let into the library.
InLibrary == {"native", "restore", "proxy", "validating"}
PCs == InLibrary \cup
         {"idle", "lock", "wait", "recheck", "fetch", "poll", "await"}

Arguments(o) ==
  CASE o \in {"LoadTrustedCertificate", "X509CertificateGetInfo"} -> Certs
    [] o = "SetProxy" -> Proxies
    [] OTHER -> {NoArg}

TypeOK ==
  /\ library \in BOOLEAN /\ gate \in BOOLEAN /\ partial \in BOOLEAN
  /\ closing \in {"nil", "started", "done"}
  /\ closeErr \in {"none", "ok", "failed"}
  /\ trusted \in Seq(Certs) /\ IsInjective(trusted)
  /\ pemCache \in Certs \cup {NoArg}
  /\ proxy \in Proxies \cup {NoProxy} /\ sdkProxy \in Proxies \cup {NoProxy}
  /\ closer \in {"none", "wait", "native", "publish", "release", "done"}
  /\ sdk \in {"open", "closed"} /\ sdkTrust \in SUBSET Certs
  /\ pc \in [Threads -> PCs]
  /\ op \in [Threads -> Operations \cup {"none"}]
  /\ arg \in [Threads -> Certs \cup Proxies \cup {NoArg}]
  /\ \A t \in Threads : op[t] # "none" => arg[t] \in Arguments(op[t])
  /\ canceled \in [Threads -> BOOLEAN]
  /\ idx \in [Threads -> Nat \ {0}]
  /\ pem \in [Threads -> BOOLEAN]
  /\ snap \in [Threads -> SUBSET Certs]
  /\ late \in [Threads -> BOOLEAN]
  /\ result \in [Threads -> {"none", "ok", "failed", "canceled"}]

-----------------------------------------------------------------------------
(* Init is the client that Open returned, or the zero Client.  Trust and    *)
(* proxy that Open configured are loaded by the calls of this module.       *)

Init ==
  /\ library \in BOOLEAN
  /\ sdk = IF library THEN "open" ELSE "closed"
  /\ closing = "nil" /\ closeErr = "none" /\ closer = "none"
  /\ gate = TRUE
  /\ trusted = <<>> /\ sdkTrust = {} /\ partial = FALSE
  /\ pemCache = NoArg
  /\ proxy = NoProxy /\ sdkProxy = NoProxy
  /\ pc = [t \in Threads |-> "idle"]
  /\ op = [t \in Threads |-> "none"]
  /\ arg = [t \in Threads |-> NoArg]
  /\ canceled = [t \in Threads |-> FALSE]
  /\ idx = [t \in Threads |-> 1]
  /\ pem = [t \in Threads |-> FALSE]
  /\ snap = [t \in Threads |-> {}]
  /\ late = [t \in Threads |-> FALSE]
  /\ result = [t \in Threads |-> "none"]

Goto(t, l) == pc' = [pc EXCEPT ![t] = l]

\* The call of t is over and its locals are gone.
Forget(t) ==
  /\ op' = [op EXCEPT ![t] = "none"]
  /\ arg' = [arg EXCEPT ![t] = NoArg]
  /\ idx' = [idx EXCEPT ![t] = 1]
  /\ pem' = [pem EXCEPT ![t] = FALSE]
  /\ snap' = [snap EXCEPT ![t] = {}]
  /\ late' = [late EXCEPT ![t] = FALSE]
  /\ canceled' = [canceled EXCEPT ![t] = FALSE]

\* Operation t returns, with or without an error.
Return(t) == Goto(t, "idle") /\ Forget(t) /\ UNCHANGED result

CloseReturns(t, r) ==
  /\ Goto(t, "idle") /\ Forget(t)
  /\ result' = [result EXCEPT ![t] = r]

Rejects == ~library \/ closing # "nil"
-----------------------------------------------------------------------------
(* Every operation starts here; its context may be canceled already.  The   *)
(* query for certificate properties looks at the cache before it queues.    *)

\* Mutant: the certificate is encoded and cached before the call queues.
BeginCallCaches(t, o, a) ==
  /\ pc[t] = "idle"
  /\ Goto(t, "lock")
  /\ op' = [op EXCEPT ![t] = o]
  /\ arg' = [arg EXCEPT ![t] = a]
  /\ pem' = [pem EXCEPT ![t] = o = "X509CertificateGetInfo"]
  /\ pemCache' = IF o = "X509CertificateGetInfo" THEN a ELSE pemCache
  /\ result' = [result EXCEPT ![t] = "none"]
  /\ UNCHANGED <<library, closing, closeErr, trusted, proxy, gate, closer, sdkVars, canceled, idx,
                 snap, late>>

BeginCall(t, o, a) ==
  /\ pc[t] = "idle"
  /\ Goto(t, "lock")
  /\ op' = [op EXCEPT ![t] = o]
  /\ arg' = [arg EXCEPT ![t] = a]
  /\ pem' = [pem EXCEPT ![t] = o = "X509CertificateGetInfo" /\ pemCache = a]
  /\ \E b \in BOOLEAN : canceled' = [canceled EXCEPT ![t] = b]
  /\ result' = [result EXCEPT ![t] = "none"]
  /\ UNCHANGED <<clientVars, gate, closer, sdkVars, idx, snap, late>>

Cancel(t) ==
  /\ pc[t] # "idle"
  /\ ~canceled[t]
  /\ canceled' = [canceled EXCEPT ![t] = TRUE]
  /\ UNCHANGED <<clientVars, gate, closer, sdkVars, pc, callVars, result>>

(* lockLibrary *)

LockCheck(t) ==
  /\ pc[t] = "lock"
  /\ \/ (canceled[t] \/ Rejects) /\ Return(t)
     \/ /\ ~canceled[t] /\ ~Rejects
        /\ Goto(t, "wait")
        /\ UNCHANGED <<canceled, callVars, result>>
  /\ UNCHANGED <<clientVars, gate, closer, sdkVars>>

TakeGate(t) ==
  /\ pc[t] = "wait"
  /\ gate
  /\ gate' = FALSE
  /\ Goto(t, "recheck")
  /\ UNCHANGED <<clientVars, closer, sdkVars, canceled, callVars, result>>

LeaveQueue(t) ==
  /\ pc[t] = "wait"
  /\ canceled[t]
  /\ Return(t)
  /\ UNCHANGED <<clientVars, gate, closer, sdkVars>>

\* Mutant: closing is not looked at again after the wait for the gate.
RecheckContextOnly(t) ==
  /\ pc[t] = "recheck"
  /\ \/ canceled[t] /\ gate' = TRUE /\ Return(t)
     \/ /\ ~canceled[t]
        /\ Goto(t, "native")
        /\ UNCHANGED <<gate, canceled, callVars, result>>
  /\ UNCHANGED <<clientVars, closer, sdkVars>>

Recheck(t) ==
  /\ pc[t] = "recheck"
  /\ \/ (canceled[t] \/ Rejects) /\ gate' = TRUE /\ Return(t)
     \/ /\ ~canceled[t] /\ ~Rejects
        /\ Goto(t, "native")
        /\ UNCHANGED <<gate, canceled, callVars, result>>
  /\ UNCHANGED <<clientVars, closer, sdkVars>>

\* The native function of t returned; so does the operation.
Release(t) == gate' = TRUE /\ Return(t)

-----------------------------------------------------------------------------
(* What each operation does between acquiring the gate and releasing it.    *)

\* Signing, verification and every other operation that is one native call;
\* and any operation that fails before it changes anything.
NativeCall(t) ==
  /\ pc[t] = "native" /\ op[t] # "validateCertificateOCSP"
  /\ Release(t)
  /\ UNCHANGED <<clientVars, closer, sdkVars>>

\* Mutant: the gate is released before trust is restored.
LoadKeyStoreUnlocked(t) ==
  /\ pc[t] = "native" /\ op[t] = "LoadKeyStore"
  /\ sdkTrust' = {} /\ partial' = FALSE /\ gate' = TRUE
  /\ Goto(t, "restore")
  /\ UNCHANGED <<clientVars, closer, sdk, sdkProxy, canceled, callVars, result>>

\* A successful native load replaces the native trust store.
LoadKeyStore(t) ==
  /\ pc[t] = "native" /\ op[t] = "LoadKeyStore"
  /\ sdkTrust' = {}
  /\ partial' = FALSE
  /\ Goto(t, "restore")
  /\ UNCHANGED <<clientVars, gate, closer, sdk, sdkProxy, canceled, callVars, result>>

\* Mutant: restoration stops when the context is canceled.
RestoreNextUnlessCanceled(t) ==
  /\ pc[t] = "restore" /\ idx[t] <= Len(trusted)
  /\ \/ /\ ~canceled[t]
        /\ sdkTrust' = sdkTrust \cup {trusted[idx[t]]}
        /\ idx' = [idx EXCEPT ![t] = @ + 1]
        /\ UNCHANGED <<gate, pc, op, arg, pem, snap, late, canceled, result>>
     \/ canceled[t] /\ Release(t) /\ UNCHANGED sdkTrust
  /\ UNCHANGED <<clientVars, closer, sdk, sdkProxy, partial>>

\* Mutant: the error path of restoration keeps the gate.
RestoreNextKeepsGate(t) ==
  /\ pc[t] = "restore" /\ idx[t] <= Len(trusted)
  /\ \/ /\ sdkTrust' = sdkTrust \cup {trusted[idx[t]]}
        /\ idx' = [idx EXCEPT ![t] = @ + 1]
        /\ UNCHANGED <<partial, pc, op, arg, pem, snap, late, canceled, result>>
     \/ partial' = TRUE /\ Return(t) /\ UNCHANGED sdkTrust
  /\ UNCHANGED <<clientVars, gate, closer, sdk, sdkProxy>>

\* restoreTrustedCertificates: one native load per certificate, the first
\* failure ends it.  The context is not consulted.
RestoreNext(t) ==
  /\ pc[t] = "restore"
  /\ idx[t] <= Len(trusted)
  /\ \/ /\ sdkTrust' = sdkTrust \cup {trusted[idx[t]]}
        /\ idx' = [idx EXCEPT ![t] = @ + 1]
        /\ UNCHANGED <<partial, gate, pc, op, arg, pem, snap, late, canceled, result>>
     \/ /\ partial' = TRUE
        /\ Release(t)
        /\ UNCHANGED sdkTrust
  /\ UNCHANGED <<clientVars, closer, sdk, sdkProxy>>

RestoreDone(t) ==
  /\ pc[t] = "restore"
  /\ idx[t] > Len(trusted)
  /\ Release(t)
  /\ UNCHANGED <<clientVars, closer, sdkVars>>

\* rememberTrustedCertificate
Remember(c) == IF c \in Range(trusted) THEN trusted ELSE Append(trusted, c)

LoadTrustedCertificate(t) ==
  /\ pc[t] = "native" /\ op[t] = "LoadTrustedCertificate"
  /\ sdkTrust' = sdkTrust \cup {arg[t]}
  /\ trusted' = Remember(arg[t])
  /\ Release(t)
  /\ UNCHANGED <<library, closing, closeErr, pemCache, proxy, closer, sdk, sdkProxy, partial>>

SetProxy(t) ==
  /\ pc[t] = "native" /\ op[t] = "SetProxy"
  /\ sdkProxy' = arg[t]
  /\ Goto(t, "proxy")
  /\ UNCHANGED <<clientVars, gate, closer, sdk, sdkTrust, partial, canceled, callVars, result>>

\* Mutant: the proxy is not saved when the call was canceled meanwhile.
StoreProxyUnlessCanceled(t) ==
  /\ pc[t] = "proxy"
  /\ proxy' = IF canceled[t] THEN proxy ELSE arg[t]
  /\ Release(t)
  /\ UNCHANGED <<library, closing, closeErr, trusted, pemCache, closer, sdkVars>>

StoreProxy(t) ==
  /\ pc[t] = "proxy"
  /\ proxy' = arg[t]
  /\ Release(t)
  /\ UNCHANGED <<library, closing, closeErr, trusted, pemCache, closer, sdkVars>>

\* X509CertificateGetInfoFields: the PEM is taken from the cache, or encoded
\* and cached, with the gate held.
EncodePEM(t) ==
  /\ pc[t] = "native" /\ op[t] = "X509CertificateGetInfo"
  /\ ~pem[t]
  /\ pemCache' = arg[t]
  /\ pem' = [pem EXCEPT ![t] = TRUE]
  /\ UNCHANGED <<library, closing, closeErr, trusted, proxy, gate, closer, sdkVars,
                 pc, op, arg, idx, snap, late, canceled, result>>

\* One property is read, or is optional and absent; the next one queues anew.
GetInfo(t) ==
  /\ pc[t] = "native" /\ op[t] = "X509CertificateGetInfo"
  /\ pem[t]
  /\ idx[t] < Properties
  /\ gate' = TRUE
  /\ idx' = [idx EXCEPT ![t] = @ + 1]
  /\ Goto(t, "lock")
  /\ UNCHANGED <<clientVars, closer, sdkVars, op, arg, pem, snap, late, canceled, result>>

\* validateCertificateOCSP for a request without an Issuer: trust is copied
\* with the gate held, the chain is validated natively, the issuer is looked
\* up in the copy and the responder asked after the gate is released.
CopyTrust(t) ==
  /\ pc[t] = "native" /\ op[t] = "validateCertificateOCSP"
  /\ snap' = [snap EXCEPT ![t] = Range(trusted)]
  /\ Goto(t, "validating")
  /\ UNCHANGED <<clientVars, gate, closer, sdkVars, op, arg, idx, pem, late, canceled, result>>

ValidateChain(t) ==
  /\ pc[t] = "validating"
  /\ gate' = TRUE
  /\ \/ Return(t)
     \/ Goto(t, "fetch") /\ UNCHANGED <<canceled, callVars, result>>
  /\ UNCHANGED <<clientVars, closer, sdkVars>>

FetchOCSP(t) ==
  /\ pc[t] = "fetch"
  /\ Return(t)
  /\ UNCHANGED <<clientVars, gate, closer, sdkVars>>

-----------------------------------------------------------------------------
(* CloseContext and waitCloseContext *)

\* The zero Client has nothing to close.
CloseNothing(t) ==
  /\ pc[t] = "idle"
  /\ closing = "nil" /\ ~library
  /\ pemCache' = NoArg
  /\ result' = [result EXCEPT ![t] = "ok"]
  /\ UNCHANGED <<library, closing, closeErr, trusted, proxy, gate, closer, sdkVars,
                 pc, canceled, callVars>>

\* Mutant: every CloseContext starts a shutdown of its own.
CloseContextRestarts(t) ==
  /\ pc[t] = "idle"
  /\ library \/ closing # "nil"
  /\ closing' = "started" /\ closer' = "wait"
  /\ Goto(t, "poll")
  /\ result' = [result EXCEPT ![t] = "none"]
  /\ UNCHANGED <<library, closeErr, trusted, pemCache, proxy, gate, sdkVars, canceled, callVars>>

\* Mutant: with a context canceled already, closing is set but nobody closes.
CloseContextNoCloser(t) ==
  /\ pc[t] = "idle"
  /\ library \/ closing # "nil"
  /\ \E b \in BOOLEAN :
       /\ canceled' = [canceled EXCEPT ![t] = b]
       /\ closer' = IF closing = "nil" /\ ~b THEN "wait" ELSE closer
  /\ closing' = IF closing = "nil" THEN "started" ELSE closing
  /\ Goto(t, "poll")
  /\ result' = [result EXCEPT ![t] = "none"]
  /\ UNCHANGED <<library, closeErr, trusted, pemCache, proxy, gate, sdkVars, callVars>>

\* The first CloseContext starts closeLibrary; every one waits for it.  A
\* context that is canceled already makes no difference here.
CloseContext(t) ==
  /\ pc[t] = "idle"
  /\ library \/ closing # "nil"
  /\ IF closing = "nil"
       THEN closing' = "started" /\ closer' = "wait"
       ELSE UNCHANGED <<closing, closer>>
  /\ Goto(t, "poll")
  /\ \E b \in BOOLEAN : canceled' = [canceled EXCEPT ![t] = b]
  /\ late' = [late EXCEPT ![t] = closing = "done"]
  /\ result' = [result EXCEPT ![t] = "none"]
  /\ UNCHANGED <<library, closeErr, trusted, pemCache, proxy, gate, sdkVars,
                 op, arg, idx, pem, snap>>

\* Mutant: the library being gone is taken for the end of shutdown.
PollLibraryGone(t) ==
  /\ pc[t] = "poll"
  /\ IF library THEN Goto(t, "await") /\ UNCHANGED <<canceled, callVars, result>>
                ELSE CloseReturns(t, "ok")
  /\ UNCHANGED <<clientVars, gate, closer, sdkVars>>

\* The non-blocking receive that gives a finished shutdown precedence.
PollDone(t) ==
  /\ pc[t] = "poll"
  /\ \/ closing = "done" /\ CloseReturns(t, closeErr)
     \/ /\ closing # "done"
        /\ Goto(t, "await")
        /\ UNCHANGED <<canceled, callVars, result>>
  /\ UNCHANGED <<clientVars, gate, closer, sdkVars>>

AwaitDone(t) ==
  /\ pc[t] = "await"
  /\ \/ closing = "done" /\ CloseReturns(t, closeErr)
     \/ canceled[t] /\ CloseReturns(t, "canceled")
  /\ UNCHANGED <<clientVars, gate, closer, sdkVars>>

(* closeLibrary *)

CloserTakesGate ==
  /\ closer = "wait"
  /\ gate
  /\ gate' = FALSE
  /\ closer' = "native"
  /\ UNCHANGED <<clientVars, sdkVars, pc, canceled, callVars, result>>

\* library.Close returns; the session is over even when it reports an error,
\* which the next step saves.
CloserCloses ==
  /\ closer = "native"
  /\ sdk' = "closed"
  /\ closer' = "publish"
  /\ UNCHANGED <<clientVars, gate, sdkTrust, sdkProxy, partial, pc, canceled,
                 callVars, result>>

CloserPublishes ==
  /\ closer = "publish"
  /\ library' = FALSE
  /\ trusted' = <<>>
  /\ pemCache' = NoArg
  /\ closeErr' \in {"ok", "failed"}
  /\ closer' = "release"
  /\ UNCHANGED <<closing, proxy, gate, sdkVars, pc, canceled, callVars, result>>

CloserReleases ==
  /\ closer = "release"
  /\ gate' = TRUE
  /\ closer' = "done"
  /\ UNCHANGED <<clientVars, sdkVars, pc, canceled, callVars, result>>

CloserSignals ==
  /\ closer = "done"
  /\ closing = "started"
  /\ closing' = "done"
  /\ UNCHANGED <<library, closeErr, trusted, pemCache, proxy, gate, closer, sdkVars,
                 pc, canceled, callVars, result>>

CloseLibrary ==
  \/ CloserTakesGate
  \/ CloserCloses
  \/ CloserPublishes
  \/ CloserReleases
  \/ CloserSignals

-----------------------------------------------------------------------------
\* What t does once it holds the gate: every step here is the return of a
\* native call or Go code that does not block.
UseLibrary(t) ==
  \/ NativeCall(t)
  \/ LoadKeyStore(t)
  \/ RestoreNext(t)
  \/ RestoreDone(t)
  \/ LoadTrustedCertificate(t)
  \/ SetProxy(t)
  \/ StoreProxy(t)
  \/ EncodePEM(t)
  \/ GetInfo(t)
  \/ CopyTrust(t)
  \/ ValidateChain(t)

\* Everything t does on its own, except begin a call and take the gate.
Proceed(t) ==
  \/ LockCheck(t)
  \/ LeaveQueue(t)
  \/ Recheck(t)
  \/ UseLibrary(t)
  \/ FetchOCSP(t)
  \/ PollDone(t)
  \/ AwaitDone(t)

Next ==
  \/ \E t \in Threads : \E o \in Ops : \E a \in Arguments(o) : BeginCall(t, o, a)
  \/ \E t \in Threads : Cancel(t)
  \/ \E t \in Threads : TakeGate(t)
  \/ \E t \in Threads : Proceed(t)
  \/ \E t \in Threads : CloseNothing(t) \/ CloseContext(t)
  \/ CloseLibrary

\* Native calls return, and a goroutine that can run does.  A channel serves
\* its waiting receivers first come, first served, so a goroutine that waits
\* for a token that keeps coming back gets it: strong fairness of TakeGate.
Fairness ==
  /\ \A t \in Threads : WF_vars(Proceed(t)) /\ SF_vars(TakeGate(t))
  /\ WF_vars(CloseLibrary)

Spec == Init /\ [][Next]_vars

FairSpec == Spec /\ Fairness

-----------------------------------------------------------------------------
(* Properties *)

\* Native calls never overlap, not even with the native Close, and none is
\* made on a closed library: what lockLibrary's second check, made with the
\* gate held, is for.
NativeSerialized ==
  /\ \A t, u \in Threads : {pc[t], pc[u]} \subseteq InLibrary => t = u
  /\ \A t \in Threads : pc[t] \in InLibrary =>
       sdk = "open" /\ closer \notin {"native", "publish", "release"}
  /\ closer = "native" => sdk = "open"

\* Once CloseContext can report that shutdown finished, the client retains
\* neither the library, nor trusted certificates, nor a cached certificate,
\* and calls that were queued or half-way through a query add none later.
ClosedIsClean ==
  closing = "done" =>
    /\ ~library /\ sdk = "closed"
    /\ trusted = <<>> /\ pemCache = NoArg

\* Whenever the gate is free the SDK is configured as the client remembers.  Its
\* trust store holds exactly the remembered certificates, unless LoadKeyStore
\* reported that it could not restore them: no caller runs between a native
\* key-store load, which drops trust, and its restoration.  The proxy of the
\* native HTTP client is that of the Go OCSP client.
NativeAgrees ==
  gate =>
    /\ proxy = sdkProxy
    /\ sdk = "open" => /\ sdkTrust \subseteq Range(trusted)
                       /\ ~partial => sdkTrust = Range(trusted)

\* The copy of the trusted certificates that OCSP searches for an issuer is
\* the trust that the native chain validation of the same call uses.
OneTrustPerValidation ==
  \A t \in Threads : pc[t] = "validating" /\ ~partial => snap[t] = sdkTrust

\* Every CloseContext that reports an end of shutdown reports the same one;
\* it does so only when the shutdown is over.
OneCloseResult ==
  \A t \in Threads : result[t] \in {"ok", "failed"} =>
    \/ closing = "done" /\ result[t] = closeErr
    \/ closing = "nil" /\ ~library /\ result[t] = "ok"

\* A CloseContext that begins after shutdown returns the saved result, even
\* if its context is canceled.
SavedResultFirst ==
  [][\A t \in Threads : late[t] /\ pc[t] # "idle" /\ pc'[t] = "idle" =>
        result'[t] = closeErr]_vars

\* Every call returns: nobody waits for the gate for ever, and the waits of
\* CloseContext end without the help of their contexts.
CallsReturn == \A t \in Threads : pc[t] # "idle" ~> pc[t] = "idle"

\* Where the client stands in terms of the abstract session: goroutines are
\* inside it from the second check of lockLibrary to the release of the gate,
\* the closer from the token it takes to the closing of closing.done.
SessionState ==
  CASE closing = "started" -> "closing"
    [] closing = "nil" /\ library -> "open"
    [] OTHER -> "closed"

CloserInside ==
  closing = "started" /\ closer \in {"native", "publish", "release", "done"}

SessionHolder ==
  CASE CloserInside -> "closer"
    [] ~CloserInside /\ (\E t \in Threads : pc[t] \in InLibrary) ->
         CHOOSE t \in Threads : pc[t] \in InLibrary
    [] OTHER -> "nobody"

SessionResult ==
  CASE closing = "done" -> closeErr
    [] closing = "nil" /\ ~library -> "ok"
    [] OTHER -> "none"

Abstract ==
  INSTANCE Session WITH
    Closer <- "closer", Nobody <- "nobody",
    state <- SessionState, holder <- SessionHolder, saved <- SessionResult

\* The client implements the abstract session.
ImplementsSession == Abstract!SafeSpec

\* ... and its progress guarantees.
ImplementsFairSession == Abstract!Spec
=============================================================================
