---------------------------- MODULE OutputBuffer ----------------------------
(***************************************************************************)
(* The native output buffers of ckalkan (buffer.go and the retry loops of  *)
(* verify.go, x509.go, tokens.go, signing.go and zip.go).  A wrapper method *)
(* allocates buffers, calls the SDK, and, when the answer may not have      *)
(* fitted, calls it again with larger ones up to a hard limit.  process.mu  *)
(* is held throughout, so one call runs at a time and a call is a loop of   *)
(* two steps: the native call ("call") and what Go makes of it ("decide").  *)
(*                                                                         *)
(* Sizes are small integers; the constants stand for the byte counts of     *)
(* options.go.  What the SDK needs to write is fixed when a call starts and *)
(* unknown to the code, which sees only status codes and lengths.          *)
(***************************************************************************)
EXTENDS Integers, FiniteSets, FiniteSetsExt

CONSTANTS Conservative,    \* conservativeOutputBufferSize, also the ZIP capacity
          DefaultList,     \* defaultListBufferSize
          DefaultMax,      \* DefaultMaxOutputBufferSize
          NativeMax,       \* maxNativeOutputBufferSize, the C int maximum
          InitialShort,    \* the operation-specific first capacities
          Configs,         \* the configurations a client may be created with
          Requested,       \* the capacities a request may ask for, 0 for none
          Hints,           \* lengths of the signature given to VerifyData
          Needs            \* the output sizes the SDK may have to deliver

ASSUME SizeAssumption ==
  /\ {Conservative, DefaultList, DefaultMax, NativeMax} \subseteq Nat \ {0}
  /\ Conservative <= DefaultMax /\ DefaultMax <= NativeMax
  /\ InitialShort \subseteq Nat \ {0}
  /\ Configs \subseteq [bufferSize : Nat, listBufferSize : Nat, maxBufferSize : Nat]
  /\ Requested \subseteq Nat /\ Hints \subseteq Nat /\ Needs \subseteq Nat

VARIABLES config,    \* the client's buffer settings
          phase,     \* "idle", "call", "decide" or "returned"
          kind,      \* which retry loop runs
          active,    \* the outputs the call consumes
          saturated, \* those whose full buffer may mean truncation
          hint,      \* growth hint of the decoded data
          need,      \* what the SDK has to write to each output
          cap,       \* the capacity of each buffer
          reply,     \* status, reported lengths and bytes exposed
          last,      \* the SDK's last-error slot
          result     \* how the latest wrapper call ended

vars == <<config, phase, kind, active, saturated, hint, need, cap, reply, last, result>>
call == <<config, kind, active, saturated, hint, need>>

Outputs == {"data", "info", "cert"}
Codes == {"OK", "TooSmall", "Failed"}
Loops == {"buffer", "sign", "zip"}    \* callBufferWithCapacityLocked and its SDK calls
Kinds == Loops \cup {"list", "verify", "validate"}

Larger(a, b) == IF a >= b THEN a ELSE b
Smaller(a, b) == IF a <= b THEN a ELSE b

-----------------------------------------------------------------------------
(* Sizes (buffer.go).                                                      *)

OutputBufferLimit ==
  IF config.maxBufferSize > 0 THEN Smaller(config.maxBufferSize, NativeMax) ELSE DefaultMax

NormalizeConfiguredBufferSize(value, fallback) ==
  Larger(IF value > 0 THEN value ELSE fallback, Conservative)

\* Mutant: a requested capacity is not cut to the limit.
UnboundedOutputCapacity(value) == IF value <= 0 THEN Conservative ELSE value

BoundedOutputCapacity(value) ==
  Smaller(IF value <= 0 THEN Conservative ELSE value, OutputBufferLimit)

OutputInitialCapacity(initial) ==
  IF config.bufferSize > 0
  THEN NormalizeConfiguredBufferSize(config.bufferSize, Conservative)
  ELSE initial

\* A request's own capacity wins over the configured one.
RequestOutputInitialCapacity(requested, initial) ==
  IF requested > 0 THEN requested ELSE OutputInitialCapacity(initial)

EstimatedOutputInitialCapacity(requested, estimated) ==
  IF requested > 0 THEN requested ELSE Larger(OutputInitialCapacity(Conservative), estimated)

\* Mutant: the SDK's own length is taken as the next capacity.
GrowToReported(current, requested) == Smaller(requested, OutputBufferLimit)

\* Mutant: the limit itself is refused.
GrowBelowLimit(current, requested) ==
  IF current * 2 >= OutputBufferLimit THEN current ELSE Larger(current * 2, requested)

GrowCapacity(current, requested) ==
  IF current >= OutputBufferLimit
  THEN current
  ELSE Smaller(Larger(IF current <= OutputBufferLimit \div 2 THEN current * 2
                                                             ELSE OutputBufferLimit,
                      requested),
               OutputBufferLimit)

MinimumOutputGrowth(current, reported) ==
  IF reported > current THEN reported ELSE IF current <= 0 THEN 1 ELSE current + 1

-----------------------------------------------------------------------------

Nothing == [o \in Outputs |-> 0]
Smallest == [o \in Outputs |-> 1]
NoReply == [code |-> "OK", len |-> Nothing, got |-> Nothing, failed |-> FALSE]
NoResult == [status |-> "none", requested |-> 0]

Init ==
  /\ config \in Configs
  /\ phase = "idle" /\ kind = "buffer" /\ active = {} /\ saturated = {}
  /\ hint = 0 /\ need = Nothing /\ cap = Smallest
  /\ reply = NoReply /\ last = "OK" /\ result = NoResult

\* What the wrapper method does before its first native call.
Begin(k, acts, sats, h, n, caps) ==
  /\ phase = "idle"
  /\ kind' = k /\ active' = acts /\ saturated' = sats /\ hint' = h
  /\ need' = [o \in Outputs |-> IF o \in acts THEN n[o] ELSE 0]
  /\ cap' = caps
  /\ phase' = "call"
  /\ UNCHANGED <<config, reply, last, result>>

\* A limit error before any native call.
Reject(k, acts, size) ==
  /\ phase = "idle"
  /\ phase' = "returned" /\ kind' = k /\ active' = acts
  /\ result' = [status |-> "limit", requested |-> size]
  /\ UNCHANGED <<config, saturated, hint, need, cap, reply, last>>

Only(size) == [o \in Outputs |-> IF o = "data" THEN size ELSE 1]

\* SignHash, HashData, GetCertFromCMS, X509CertificateGetInfo, ...
BeginBuffer(n) ==
  \E i \in InitialShort :
    Begin("buffer", {"data"}, {}, 0, n, Only(BoundedOutputCapacity(OutputInitialCapacity(i))))

\* SignXML and SignWSSE ("buffer") and SignData start from an estimate.
BeginSign(n) ==
  \E k \in {"buffer", "sign"}, r \in Requested, e \in Hints :
    Begin(k, {"data"}, {}, 0, n,
          Only(BoundedOutputCapacity(EstimatedOutputInitialCapacity(r, Smaller(e, OutputBufferLimit)))))

\* ZipConVerify refuses a configured maximum below its safety capacity.
BeginZip(n) ==
  LET size == BoundedOutputCapacity(OutputInitialCapacity(Conservative))
  IN  IF config.maxBufferSize > 0 /\ config.maxBufferSize < Conservative
      THEN Reject("zip", {"data"}, Conservative)
      ELSE Begin("zip", {"data"}, {}, 0, n, Only(size))

\* GetTokens and GetCertificatesList.  A full buffer has no terminator.
BeginList(n) ==
  LET size == NormalizeConfiguredBufferSize(config.listBufferSize, DefaultList)
  IN  IF size > OutputBufferLimit
      THEN Reject("list", {"data"}, size)
      ELSE Begin("list", {"data"}, {"data"}, 0, n, Only(size))

RequestedCapacities ==
  {BoundedOutputCapacity(RequestOutputInitialCapacity(r, i)) : r \in Requested, i \in InitialShort}

\* VerifyData: the decoded data is an output only for an attached in-memory CMS.
BeginVerify(n) ==
  \E decoded \in BOOLEAN, h \in Hints, size \in [Outputs -> RequestedCapacities] :
    Begin("verify",
          IF decoded THEN Outputs ELSE Outputs \ {"data"},
          IF decoded THEN {"data"} ELSE {},
          IF decoded THEN h ELSE 0,
          n,
          [o \in Outputs |-> IF o = "data" /\ ~decoded THEN 1 ELSE size[o]])

\* X509ValidateCertificate keeps an OCSP buffer ("cert") it may not consume.
BeginValidate(n) ==
  \E returnOCSP \in BOOLEAN, size \in [Outputs -> RequestedCapacities] :
    Begin("validate",
          IF returnOCSP THEN {"info", "cert"} ELSE {"info"},
          {}, 0, n,
          [size EXCEPT !["data"] = 1])

-----------------------------------------------------------------------------
(* The SDK (external).  Each attempt delivers everything, or says that the   *)
(* buffers are too small with or without the lengths it needs, or truncates  *)
(* and answers OK: with the needed length, or, for decoded data and lists,   *)
(* with a full buffer.  It may fail, with a status or, for the CMS calls,    *)
(* only in the last-error slot.  Lengths it does not set stay the capacity.  *)

Written == [o \in Outputs |-> Smaller(need[o], cap[o])]
Fits == \A o \in active : IF kind = "list" THEN need[o] < cap[o] ELSE need[o] <= cap[o]

\* Mutant: the error slot is not cleared before a native call.
StaleError == last

\* clearErrorLocked leaves no error in the slot for the call to be blamed for.
ClearedError == "OK"

Answer(code, len, slot) ==
  /\ reply' = [code |-> code,
               len |-> [o \in Outputs |-> IF o \in active THEN len[o] ELSE -1],
               got |-> [o \in Outputs |->
                          IF o \notin active THEN 0
                          ELSE IF kind = "list" THEN Written[o]
                          ELSE Larger(0, Smaller(len[o], cap[o]))],
               failed |-> slot = "Failed"]
  /\ last' = IF slot = "OK" THEN ClearedError ELSE slot

Delivers == Fits /\ Answer("OK", need, "OK")
SaysTooSmall == ~Fits /\ \E len \in {need, cap, Nothing} : Answer("TooSmall", len, "TooSmall")
OverReports == ~Fits /\ kind # "list" /\ Answer("OK", need, "OK")
Truncates ==
  /\ ~Fits
  /\ \A o \in active \ saturated : need[o] <= cap[o]
  /\ Answer("OK", Written, "OK")
Fails == Answer("Failed", cap, "Failed")
FailsSilently == kind \in {"sign", "verify"} /\ Answer("OK", cap, "Failed")
ReportsNegative ==
  /\ kind # "list"
  /\ \E code \in Codes : Answer(code, [o \in Outputs |-> -1], code)

SDKAnswers ==
  \/ Delivers \/ SaysTooSmall \/ OverReports \/ Truncates
  \/ Fails \/ FailsSilently \/ ReportsNegative

NativeCall ==
  /\ phase = "call"
  /\ phase' = "decide"
  /\ SDKAnswers
  /\ UNCHANGED <<call, cap, result>>

\* The driver refuses the arguments before it reaches the SDK.
DriverRefuses ==
  /\ phase = "call"
  /\ phase' = "returned"
  /\ last' = ClearedError
  /\ result' = [status |-> "error", requested |-> 0]
  /\ UNCHANGED <<call, cap, reply>>

-----------------------------------------------------------------------------
(* What the loops make of the answer.                                      *)

Return(status, requested) ==
  /\ phase' = "returned"
  /\ result' = [status |-> status, requested |-> requested]
  /\ UNCHANGED <<call, cap, reply, last>>

Retry(caps) ==
  /\ phase' = "call"
  /\ cap' = caps
  /\ UNCHANGED <<call, reply, last, result>>

\* SignData replaces an OK status by the last error before the loop sees it.
Code == IF kind = "sign" /\ reply.code = "OK" THEN last ELSE reply.code

ShouldRetryOutput == Code = "TooSmall" \/ (Code = "OK" /\ reply.len["data"] > cap["data"])

DecideBuffer ==
  LET len == reply.len["data"]
      size == cap["data"]
      newSize == GrowCapacity(size, len)
  IN  /\ phase = "decide" /\ kind \in Loops
      /\ \/ len < 0 /\ Return("length", 0)
         \/ /\ len >= 0 /\ ShouldRetryOutput
            /\ \/ len > OutputBufferLimit /\ Return("limit", len)
               \/ len <= OutputBufferLimit /\ newSize # size /\ Retry([cap EXCEPT !["data"] = newSize])
               \/ len <= OutputBufferLimit /\ newSize = size /\ Return("limit", MinimumOutputGrowth(size, len))
         \/ /\ len >= 0 /\ ~ShouldRetryOutput
            /\ \/ Code # "OK" /\ Return("native", 0)
               \/ Code = "OK" /\ reply.got["data"] # len /\ Return("length", 0)
               \/ Code = "OK" /\ reply.got["data"] = len /\ Return("ok", 0)

DecideList ==
  LET size == cap["data"]
      full == Code = "TooSmall" \/ (Code = "OK" /\ reply.got["data"] = size)
      newSize == GrowCapacity(size, 0)
  IN  /\ phase = "decide" /\ kind = "list"
      /\ \/ full /\ newSize # size /\ Retry([cap EXCEPT !["data"] = newSize])
         \/ full /\ newSize = size /\ Return("limit", MinimumOutputGrowth(size, 0))
         \/ ~full /\ Code # "OK" /\ Return("native", 0)
         \/ ~full /\ Code = "OK" /\ Return("ok", 0)

OutputNeedsGrowth(o) ==
  \/ reply.len[o] > cap[o]
  \/ Code = "TooSmall" /\ reply.len[o] >= cap[o]
  \/ Code = "OK" /\ o \in saturated /\ reply.len[o] = cap[o]

\* An SDK that reports no useful length makes every consumed output grow.
Grow ==
  LET candidates == {o \in active : OutputNeedsGrowth(o)}
  IN  IF Code = "TooSmall" /\ candidates = {} THEN active ELSE candidates

Required(o) ==
  IF o = "data" /\ reply.len[o] >= cap[o] THEN Larger(reply.len[o], hint) ELSE reply.len[o]

NextCapacities ==
  [o \in Outputs |-> IF o \in Grow THEN GrowCapacity(cap[o], Required(o)) ELSE cap[o]]

\* The outputs are examined in the order data, info, cert.
First(S) == IF "data" \in S THEN "data" ELSE IF "info" \in S THEN "info" ELSE "cert"

\* nextOutputBufferCapacities.
GrowOutputs ==
  LET over == {o \in Grow : reply.len[o] > OutputBufferLimit}
      asked == {Larger(reply.len[o], MinimumOutputGrowth(cap[o], reply.len[o])) : o \in Grow}
  IN  \/ over # {} /\ Return("limit", reply.len[First(over)])
      \/ over = {} /\ NextCapacities # cap /\ Retry(NextCapacities)
      \/ over = {} /\ NextCapacities = cap /\ Return("limit", Max(asked))

\* Mutant: a full data buffer counts as complete.
ShouldRetryLonger ==
  \/ Code = "TooSmall"
  \/ Code = "OK" /\ \E o \in active : reply.len[o] > cap[o]

ShouldRetryOutputs ==
  \/ Code = "TooSmall"
  \/ /\ Code = "OK"
     /\ \E o \in active : reply.len[o] > cap[o] \/ (o \in saturated /\ reply.len[o] = cap[o])

\* VerifyData and X509ValidateCertificate; only the first reads the last error.
DecideOutputs ==
  LET silent == kind = "verify" /\ Code = "OK" /\ last # "OK"
      negative == \E o \in active : reply.len[o] < 0
      short == \E o \in active : reply.got[o] # reply.len[o]
  IN  /\ phase = "decide" /\ kind \in {"verify", "validate"}
      /\ \/ silent /\ Return("native", 0)
         \/ ~silent /\ negative /\ Return("length", 0)
         \/ ~silent /\ ~negative /\ ShouldRetryOutputs /\ GrowOutputs
         \/ /\ ~silent /\ ~negative /\ ~ShouldRetryOutputs
            /\ \/ Code # "OK" /\ Return("native", 0)
               \/ Code = "OK" /\ short /\ Return("length", 0)
               \/ Code = "OK" /\ ~short /\ Return("ok", 0)

-----------------------------------------------------------------------------

Start ==
  \E n \in [Outputs -> Needs] :
    \/ BeginBuffer(n) \/ BeginSign(n) \/ BeginZip(n) \/ BeginList(n) \/ BeginVerify(n) \/ BeginValidate(n)

\* The caller has its result; of the call only the last-error slot remains.
Leave ==
  /\ phase = "returned"
  /\ phase' = "idle" /\ kind' = "buffer" /\ active' = {} /\ saturated' = {}
  /\ hint' = 0 /\ need' = Nothing /\ cap' = Smallest
  /\ reply' = NoReply /\ result' = NoResult
  /\ UNCHANGED <<config, last>>

Step == NativeCall \/ DriverRefuses \/ DecideBuffer \/ DecideList \/ DecideOutputs

Next == Start \/ Step \/ Leave

Spec == Init /\ [][Next]_vars

-----------------------------------------------------------------------------
(* Properties.                                                             *)

\* Every buffer handed to the SDK respects the hard limit, and the two calls
\* that may write before they check anything never get less than the 64 KiB
\* safety capacity (callListLocked, ZipConVerify).
CapacityBounded ==
  phase \in {"call", "decide"} =>
    /\ \A o \in Outputs : cap[o] \in 1..OutputBufferLimit
    /\ kind \in {"zip", "list"} => cap["data"] >= Conservative

\* A retry never shrinks a buffer and always enlarges one, so the loops of
\* buffer.go, verify.go and x509.go make progress towards the limit.
RetryGrows ==
  phase = "decide" /\ phase' = "call" =>
    /\ \A o \in Outputs : cap'[o] >= cap[o]
    /\ \E o \in Outputs : cap'[o] > cap[o]

\* The capacities of every wrapper call are within their bounds, and its retries
\* approach the limit: no sequence of SDK answers keeps a loop going.
GrowsWithinLimit == [][CapacityBounded' /\ RetryGrows]_vars

\* A result is that of the call's own last attempt, whatever mixture of truncated
\* and mute answers came before.  A success returns every output the call
\* consumes in full, and an SDK failure recorded only in the last-error slot is
\* never returned as success; an error that an earlier call left there never
\* fails a later one.
ResultIsTrue ==
  /\ result.status = "ok" => ~reply.failed /\ \A o \in active : reply.got[o] = need[o]
  /\ result.status = "native" => reply.failed

\* An OutputBufferLimitError asks for more than the limit, and is returned only
\* when some output cannot be told complete within it, or when the operation
\* needs a larger first buffer than the configuration allows.
LimitErrorJustified ==
  result.status = "limit" =>
    /\ result.requested > OutputBufferLimit
    /\ \/ \E o \in active : need[o] > OutputBufferLimit
       \/ \E o \in saturated : need[o] = OutputBufferLimit
       \/ kind \in {"zip", "list"} /\ reply = NoReply
=============================================================================
