------------------------- MODULE OpenRequestProofs -------------------------
(***************************************************************************)
(* Proofs about package kalkan outside the gate.  Open, for any number of    *)
(* handles, goroutines and trusted certificates: it uses ckalkan's process  *)
(* slot only as ckalkan allows, and gives it back.  Requests: the estimates *)
(* of outputs are exact for inputs of every int64 size, and what a caller   *)
(* asks for is what the library is told and what its buffers are sized by.  *)
(***************************************************************************)
EXTENDS OpenClient, Requests, TLAPS

\* The slot has one owner at most; a loaded handle owns it and is open; once
\* poisoned, nothing is loaded and the slot stays taken.
SlotInv ==
  /\ SlotTypeOK
  /\ \A h \in Handles : ownsSlot[h] => active
  /\ \A g, h \in Handles : ownsSlot[g] /\ ownsSlot[h] => g = h
  /\ \A h \in Handles : ctx[h] => ownsSlot[h] /\ ~closed[h] /\ h \in live /\ ~poisoned
  /\ \A h \in Handles : h \notin live => ~ctx[h] /\ ~ownsSlot[h]
  /\ \A h \in Handles : ownsSlot[h] /\ ~ctx[h] => poisoned
  /\ poisoned => active
  /\ ~poisoned => (active <=> \E h \in Handles : ownsSlot[h])
  /\ NothingInherited

\* Every step keeps SlotInv.
LEMMA SlotInductive == SlotInv /\ [SlotNext]_slotVars => SlotInv'
<1> SUFFICES ASSUME SlotInv, [SlotNext]_slotVars PROVE SlotInv'
  BY Zenon
<1> USE DEF SlotInv, SlotTypeOK, NothingInherited
<1>1. ASSUME NEW h \in Handles, New(h) PROVE SlotInv'
  BY Zenon, <1>1 DEF New, MayOpen, Allocate
<1>2. ASSUME NEW h \in Handles, ZeroClient(h) PROVE SlotInv'
  BY <1>2 DEF ZeroClient, Allocate
<1>3. ASSUME NEW h \in Handles, InitLibrary(h) \/ Finalize(h) PROVE SlotInv'
  BY Zenon, <1>3 DEF InitLibrary, Finalize
<1>4. ASSUME NEW h \in Handles, CloseAgain(h) PROVE SlotInv'
  BY Zenon, <1>4 DEF CloseAgain
<1>5. ASSUME NEW h \in Handles, CloseUnloads(h) PROVE SlotInv'
  BY Zenon, <1>5 DEF CloseUnloads
<1>6. ASSUME NEW h \in Handles, CloseFails(h) PROVE SlotInv'
  BY Zenon, <1>6 DEF CloseFails
<1>7. ASSUME NEW h \in Handles, Drop(h) PROVE SlotInv'
  BY <1>7 DEF Drop
<1>8. CASE UNCHANGED slotVars
  BY Zenon, <1>8 DEF slotVars
<1> QED
  BY Zenon, <1>1, <1>2, <1>3, <1>4, <1>5, <1>6, <1>7, <1>8 DEF SlotNext, Close

\* Every reachable state of the slot satisfies SlotInv.
LEMMA SlotInvariance == SlotSpec => []SlotInv
<1>1. SlotInit => SlotInv
  BY Zenon DEF SlotInit, SlotInv, SlotTypeOK, NothingInherited
<1> QED
  BY <1>1, SlotInductive, PTL DEF SlotSpec

\* However many handles are opened and closed, stale ones included, at most one
\* has the library loaded, and Close neither leaks the slot nor frees the slot
\* of another handle.
THEOREM Accounted == SlotSpec => []SlotAccounted
<1>1. SlotInv => SlotAccounted
  BY Zenon DEF SlotInv, SlotAccounted
<1> QED
  BY SlotInvariance, <1>1, PTL

\* Nobody inherits an initialized library.
THEOREM Uninherited == SlotSpec => []NothingInherited
<1>1. SlotInv => NothingInherited
  BY Zenon DEF SlotInv
<1> QED
  BY SlotInvariance, <1>1, PTL

\* A process that failed to unload the library never loads it again.
THEOREM PoisonedForGood == SlotSpec => PoisonIsFinal
<1> DEFINE Final == poisoned => poisoned' /\ active' /\ \A h \in Handles : ~ctx'[h]
<1>1. SlotInv /\ SlotInv' /\ [SlotNext]_slotVars => [Final]_slotVars
  <2> SUFFICES ASSUME SlotInv, SlotInv', SlotNext, poisoned PROVE Final
    BY Zenon
  <2>1. poisoned'
    BY Zenon DEF SlotNext, New, ZeroClient, InitLibrary, Finalize, Close, CloseAgain, CloseUnloads,
           CloseFails, Drop
  <2> QED
    BY Zenon, <2>1 DEF SlotInv, SlotTypeOK
<1> QED
  BY SlotInvariance, <1>1, PTL DEF PoisonIsFinal, SlotSpec

-----------------------------------------------------------------------------
PCs == SetupCalls \cup {"idle", "new", "cleanup", "failed", "open", "closed"}

\* A goroutine has a client exactly between a successful New and its Close;
\* while it is being opened, and until its owner closes it, nobody else uses it.
OpenInv ==
  /\ SlotInv
  /\ pc \in [Handles -> PCs]
  /\ \A h \in Handles :
       /\ pc[h] = "new" => h \notin live
       /\ pc[h] \in SetupCalls \cup {"cleanup", "open"} => h \in live
       /\ pc[h] \in {"failed", "closed"} => ~ctx[h] /\ (ownsSlot[h] => poisoned)

\* Every step of Open is a step of the slot or leaves it alone.
LEMMA OpenUsesSlot == Next => [SlotNext]_slotVars
BY Zenon DEF Next, Direct, Open, Cancel, Opening, Refused, Created, SetupFails, SetupCall, LoadTrusted,
       KeepOpen, CleanUp, CloseClient, Again, SlotNext

\* A step of the slot touches the handle that takes it; the others keep their
\* library and their slot.
LEMMA OthersKept ==
  ASSUME SlotInv, NEW h \in Handles, NEW g \in Handles, g # h,
         New(h) \/ ZeroClient(h) \/ InitLibrary(h) \/ Finalize(h) \/ Close(h) \/ Drop(h)
  PROVE  /\ ctx'[g] = ctx[g] /\ ownsSlot'[g] = ownsSlot[g] /\ (g \in live' <=> g \in live)
         /\ poisoned => poisoned'
BY Zenon DEF SlotInv, SlotTypeOK, New, ZeroClient, InitLibrary, Finalize, Close, CloseAgain, CloseUnloads,
       CloseFails, Drop, Allocate

\* Every reachable state satisfies OpenInv.
LEMMA OpenInvariance == Spec => []OpenInv
<1>1. Init => OpenInv
  BY Zenon DEF Init, SlotInit, OpenInv, SlotInv, SlotTypeOK, NothingInherited, PCs, SetupCalls
<1>2. OpenInv /\ [Next]_vars => OpenInv'
  <2> SUFFICES ASSUME OpenInv, [Next]_vars PROVE OpenInv'
    BY Zenon
  <2>1. SlotInv'
    BY Zenon, OpenUsesSlot, SlotInductive DEF OpenInv, vars, slotVars
  <2>2. CASE UNCHANGED vars
    BY Zenon, <2>1, <2>2 DEF OpenInv, vars, slotVars
  <2>3. ASSUME NEW h \in Handles, NEW l \in PCs, Goto(h, l), UNCHANGED slotVars,
               l = "new" => h \notin live,
               l \in SetupCalls \cup {"cleanup", "open"} => h \in live,
               l \in {"failed", "closed"} => ~ctx[h] /\ (ownsSlot[h] => poisoned)
        PROVE  OpenInv'
    BY Zenon, <2>1, <2>3 DEF OpenInv, Goto, slotVars
  <2>4. ASSUME NEW h \in Handles, NEW l \in PCs, Goto(h, l),
               New(h) \/ InitLibrary(h) \/ Close(h) \/ Drop(h),
               l # "new",
               l \in SetupCalls \cup {"cleanup", "open"} => h \in live',
               l \in {"failed", "closed"} => ~ctx'[h] /\ (ownsSlot'[h] => poisoned')
        PROVE  OpenInv'
    BY <2>1, <2>4, OthersKept DEF OpenInv, Goto
  <2>5. ASSUME NEW h \in Handles, Close(h)
        PROVE  ~ctx'[h] /\ (ownsSlot'[h] => poisoned')
    BY <2>5 DEF OpenInv, SlotInv, SlotTypeOK, Close, CloseAgain, CloseUnloads, CloseFails
  <2>6. ASSUME NEW h \in Handles, Direct(h) PROVE OpenInv'
    BY <2>1, <2>6, OthersKept DEF Direct, OpenInv, SetupCalls
  <2>7. ASSUME NEW h \in Handles, Open(h) \/ Refused(h) \/ SetupFails(h) \/ KeepOpen(h)
        PROVE  OpenInv'
    BY Zenon, <2>3, <2>7 DEF Open, Refused, SetupFails, KeepOpen, OpenInv, SlotInv, PCs, SetupCalls
  <2>8. ASSUME NEW h \in Handles, Cancel(h) \/ LoadTrusted(h) PROVE OpenInv'
    BY <2>1, <2>8 DEF Cancel, LoadTrusted, OpenInv, slotVars
  <2>9. ASSUME NEW h \in Handles, Created(h) PROVE OpenInv'
    BY Zenon, <2>4, <2>9 DEF Created, New, Allocate, PCs, SetupCalls
  <2>10. ASSUME NEW h \in Handles, SetupCall(h) PROVE OpenInv'
    <3>1. PICK l \in Following(pc[h]) : Goto(h, l)
      BY Zenon, <2>10 DEF SetupCall
    <3>2. l \in SetupCalls /\ h \in live
      BY Zenon, <2>10, <3>1 DEF SetupCall, Following, SetupCalls, OpenInv
    <3>3. CASE UNCHANGED slotVars
      BY Zenon, <2>3, <3>1, <3>2, <3>3 DEF PCs, SetupCalls
    <3>4. CASE InitLibrary(h)
      BY Zenon, <2>4, <3>1, <3>2, <3>4 DEF PCs, SetupCalls, InitLibrary
    <3> QED
      BY Zenon, <2>10, <3>3, <3>4 DEF SetupCall
  <2>11. ASSUME NEW h \in Handles, CleanUp(h) \/ CloseClient(h) PROVE OpenInv'
    BY Zenon, <2>4, <2>5, <2>11 DEF CleanUp, CloseClient, PCs, SetupCalls
  <2>12. ASSUME NEW h \in Handles, Again(h) PROVE OpenInv'
    BY Zenon, <2>3, <2>4, <2>12 DEF Again, PCs, SetupCalls
  <2> QED
    BY Zenon, <2>2, <2>6, <2>7, <2>8, <2>9, <2>10, <2>11, <2>12 DEF Next, Opening
<1> QED
  BY <1>1, <1>2, PTL DEF Spec

\* However many goroutines race to open a client, an Open that failed or was
\* canceled at any of its steps, and a client that was closed, hold neither the
\* library nor the slot, and leave no initialized state behind.
THEOREM NothingHeld == Spec => []FailedOpenHoldsNothing
<1>1. OpenInv => FailedOpenHoldsNothing
  BY Zenon DEF OpenInv, SlotInv, FailedOpenHoldsNothing
<1> QED
  BY OpenInvariance, <1>1, PTL

\* kalkan.Open and whoever uses ckalkan besides it keep to the slot's protocol,
\* so what is proved of the slot holds of them.
THEOREM OpenImplementsSlot == Spec => SlotSpec
<1>1. Init => SlotInit
  BY Zenon DEF Init
<1>2. [Next]_vars => [SlotNext]_slotVars
  BY Zenon, OpenUsesSlot DEF vars, slotVars
<1> QED
  BY <1>1, <1>2, PTL DEF Spec, SlotSpec

-----------------------------------------------------------------------------
(* OutputEstimate                                                          *)

Sizes == 0..MaxInt64

\* The point of saturation is an int64, one above every native buffer.
LEMMA LimitIsNext ==
  /\ Limit = maxNativeOutputBufferSize + 1 /\ Limit \in Sizes \ {0}
  /\ MaxInt64 \in Nat /\ Limit \in Nat /\ Limit <= MaxInt64
BY EstimateAssumption DEF Limit, Int64, Sizes

\* saturatingEstimateMultiply is multiplication up to Limit.
LEMMA MultiplyExact ==
  ASSUME NEW v \in Sizes, NEW m \in {2, 3, 4}
  PROVE  saturatingEstimateMultiply(v, m) = Minimum(v * m, Limit)
<1>1. CASE m = 2
  BY <1>1, LimitIsNext, EstimateAssumption DEF saturatingEstimateMultiply, Minimum, Int64, Sizes
<1>2. CASE m = 3
  BY <1>2, LimitIsNext, EstimateAssumption DEF saturatingEstimateMultiply, Minimum, Int64, Sizes
<1>3. CASE m = 4
  BY <1>3, LimitIsNext, EstimateAssumption DEF saturatingEstimateMultiply, Minimum, Int64, Sizes
<1> QED
  BY Zenon, <1>1, <1>2, <1>3

\* saturatingEstimateAdd is addition up to Limit.
LEMMA AddExact ==
  ASSUME NEW a \in Sizes, NEW b \in Nat, b \in Sizes
  PROVE  saturatingEstimateAdd(a, b) = Minimum(a + b, Limit)
BY LimitIsNext, EstimateAssumption DEF saturatingEstimateAdd, Minimum, Int64, Sizes

\* ceilPositiveQuotient rounds up, and the quotient cannot wrap.
LEMMA QuotientExact ==
  ASSUME NEW v \in Sizes, NEW d \in {3, 4, 64}
  PROVE  /\ ceilPositiveQuotient(v, d) = Ceiling(v, d)
         /\ Ceiling(v, d) \in 0..v
<1>1. CASE d = 3
  BY <1>1, EstimateAssumption DEF ceilPositiveQuotient, Ceiling, Int64, Sizes
<1>2. CASE d = 4
  BY <1>2, EstimateAssumption DEF ceilPositiveQuotient, Ceiling, Int64, Sizes
<1>3. CASE d = 64
  BY <1>3, EstimateAssumption DEF ceilPositiveQuotient, Ceiling, Int64, Sizes
<1> QED
  BY Zenon, <1>1, <1>2, <1>3

\* A size that saturates is beyond every native buffer: up to Limit, base64 and
\* PEM of a saturated size are those of the size itself.
LEMMA Base64Exact ==
  ASSUME NEW raw \in Nat
  PROVE  /\ base64EncodedEstimate(Minimum(raw, Limit)) = Minimum(Base64Size(raw), Limit)
         /\ Base64Size(raw) \in Nat /\ Base64Size(raw) >= raw
<1> DEFINE r == Minimum(raw, Limit)
<1>1. r \in Sizes
  BY LimitIsNext DEF Minimum, Sizes
<1>2. /\ Base64Size(raw) \in Nat /\ Base64Size(raw) >= raw
      /\ Base64Size(r) \in Nat /\ Base64Size(r) >= r
  BY <1>1, LimitIsNext DEF Base64Size, Ceiling, Sizes
<1>3. base64EncodedEstimate(r) = Minimum(Base64Size(r), Limit)
  <2> HIDE DEF r
  <2>1. ceilPositiveQuotient(r, 3) = Ceiling(r, 3) /\ Ceiling(r, 3) \in Sizes
    BY <1>1, QuotientExact, LimitIsNext DEF Sizes
  <2>2. saturatingEstimateMultiply(Ceiling(r, 3), 4) = Minimum(Ceiling(r, 3) * 4, Limit)
    BY Zenon, <2>1, MultiplyExact
  <2>3. CASE r = 0
    BY <2>3, LimitIsNext DEF base64EncodedEstimate, Base64Size, Ceiling, Minimum, Sizes
  <2>4. CASE r # 0
    BY <1>1, <2>1, <2>2, <2>4, LimitIsNext DEF base64EncodedEstimate, Base64Size, Minimum, Sizes
  <2> QED
    BY Zenon, <2>3, <2>4
<1>4. CASE raw <= Limit
  BY Zenon, <1>2, <1>3, <1>4, LimitIsNext DEF Minimum
<1>5. CASE raw > Limit
  BY <1>2, <1>3, <1>5, LimitIsNext DEF Minimum, Sizes
<1> QED
  BY <1>2, <1>4, <1>5, LimitIsNext DEF Sizes

\* pemEncodedEstimate of a saturated base64 text.
LEMMA PEMExact ==
  ASSUME NEW raw \in Nat
  PROVE  pemEncodedEstimate(Minimum(Base64Size(raw), Limit)) = Minimum(PEMSize(raw), Limit)
<1> DEFINE size == Base64Size(raw)
           e == Minimum(size, Limit)
           lines == Ceiling(e, 64)
           breaks == Minimum(lines * 2, Limit)
           sum == Minimum(e + breaks, Limit)
<1>1. size \in Nat /\ e \in Sizes /\ Limit \in Sizes
  BY Base64Exact, LimitIsNext DEF Minimum, Sizes
<1> HIDE DEF size, e
<1>2. ceilPositiveQuotient(e, 64) = lines /\ lines \in Sizes
  BY <1>1, QuotientExact, LimitIsNext DEF Sizes
<1>3. saturatingEstimateMultiply(lines, 2) = breaks /\ breaks \in Sizes
  BY <1>1, <1>2, MultiplyExact, LimitIsNext DEF Minimum, Sizes
<1>4. saturatingEstimateAdd(e, breaks) = sum /\ sum \in Sizes
  BY <1>1, <1>3, AddExact, LimitIsNext DEF Minimum, Sizes
<1>5. saturatingEstimateAdd(sum, pemEnvelopeOverhead) = Minimum(sum + pemEnvelopeOverhead, Limit)
  BY <1>4, AddExact, EstimateAssumption DEF Sizes
<1>6. pemEncodedEstimate(e) = Minimum(sum + 256, Limit)
  BY <1>2, <1>3, <1>4, <1>5 DEF pemEncodedEstimate, pemLineWidth, pemEnvelopeOverhead
<1>7. PEMSize(raw) = size + 2 * Ceiling(size, 64) + 256
  BY Zenon DEF PEMSize, size, pemLineWidth, pemEnvelopeOverhead
<1>8. Ceiling(size, 64) \in Nat /\ lines \in Nat
  BY <1>1, <1>2, LimitIsNext DEF Ceiling, Sizes
<1>9. Minimum(sum + 256, Limit) = Minimum(size + 2 * Ceiling(size, 64) + 256, Limit)
  <2>1. CASE size <= Limit
    <3>1. e = size /\ lines = Ceiling(size, 64)
      BY Zenon, <2>1 DEF e, Minimum
    <3> HIDE DEF lines
    <3> QED
      BY <1>1, <1>8, <3>1, LimitIsNext DEF Minimum
  <2>2. CASE size > Limit
    <3>1. e = Limit
      BY <1>1, <2>2, LimitIsNext DEF e, Minimum
    <3> HIDE DEF lines
    <3> QED
      BY <1>1, <1>8, <2>2, <3>1, LimitIsNext DEF Minimum
  <2> QED
    BY <1>1, <2>1, <2>2, LimitIsNext
<1> QED
  BY <1>6, <1>7, <1>9 DEF e, size

\* decodedBase64UpperBound saturates at Limit too.
LEMMA DecodedExact ==
  ASSUME NEW size \in Sizes, NEW inBase64 \in BOOLEAN
  PROVE  /\ Decoded(size, inBase64) \in Sizes
         /\ inBase64 => Decoded(size, inBase64) = Minimum(Base64Content(size), Limit)
         /\ ~inBase64 => Decoded(size, inBase64) = size
         /\ Base64Content(size) \in Nat
<1>1. /\ ceilPositiveQuotient(size, 4) = Ceiling(size, 4) /\ Ceiling(size, 4) \in Sizes
      /\ Ceiling(size, 4) \in Nat
  BY QuotientExact, LimitIsNext DEF Sizes
<1>2. saturatingEstimateMultiply(Ceiling(size, 4), 3) = Minimum(Ceiling(size, 4) * 3, Limit)
  BY Zenon, <1>1, MultiplyExact
<1>3. CASE size = 0
  BY <1>3, LimitIsNext DEF Decoded, decodedBase64UpperBound, Base64Content, Ceiling, Minimum, Sizes
<1>4. CASE size # 0
  BY <1>1, <1>2, <1>4, LimitIsNext
     DEF Decoded, decodedBase64UpperBound, Base64Content, Minimum, Sizes
<1> QED
  BY Zenon, <1>3, <1>4

\* The larger of an existing signature and the data, decoded, without bounds.
ContentSize(signature, data, inBase64, embedded) ==
  LET s == IF inBase64 THEN Base64Content(signature) ELSE signature
      d == IF inBase64 THEN Base64Content(data) ELSE data
  IN  IF embedded THEN Maximum(s, d) ELSE s

\* estimateSignDataOutput, for every int64 size of the data and of the signature
\* it is added to, every format and every limit: the first buffer is as large as
\* the encoded output with its overhead, computed without bounds, or as the limit.
THEOREM SignEstimateExact ==
  ASSUME NEW signature \in Sizes, NEW data \in Sizes, NEW inBase64 \in BOOLEAN,
         NEW embedded \in BOOLEAN, NEW outPEM \in BOOLEAN, NEW outBase64 \in BOOLEAN,
         NEW maximum \in 1..maxNativeOutputBufferSize
  PROVE  estimateSignDataOutput(estimateContent(signature, data, inBase64, embedded),
                                outPEM, outBase64, maximum)
           = Minimum(OutputSize(ContentSize(signature, data, inBase64, embedded)
                                  + signatureOutputOverhead, outPEM, outBase64),
                     maximum)
<1> DEFINE content == estimateContent(signature, data, inBase64, embedded)
           exact == ContentSize(signature, data, inBase64, embedded)
           raw == exact + signatureOutputOverhead
           estimate == estimateEncodedOutputSize(
                         saturatingEstimateAdd(content, signatureOutputOverhead), outPEM, outBase64)
<1>1. /\ content \in Sizes /\ exact \in Nat
      /\ content = exact \/ (content >= Limit /\ exact >= Limit)
  <2>1. Decoded(signature, inBase64) \in Sizes /\ Decoded(data, inBase64) \in Sizes
    BY Zenon, DecodedExact
  <2>2. CASE inBase64
    <3>1. /\ Decoded(signature, inBase64) = Minimum(Base64Content(signature), Limit)
          /\ Decoded(data, inBase64) = Minimum(Base64Content(data), Limit)
          /\ Base64Content(signature) \in Nat /\ Base64Content(data) \in Nat
      BY Zenon, <2>2, DecodedExact
    <3>2. \A a, b \in Nat : Maximum(Minimum(a, Limit), Minimum(b, Limit)) = Minimum(Maximum(a, b), Limit)
      BY LimitIsNext DEF Minimum, Maximum
    <3>3. exact \in Nat /\ content = Minimum(exact, Limit)
      BY Zenon, <2>2, <3>1, <3>2 DEF estimateContent, ContentSize, Maximum
    <3> HIDE DEF exact, content
    <3> QED
      BY <3>3, LimitIsNext DEF Minimum, Sizes
  <2>3. CASE ~inBase64
    BY <2>1, <2>3, DecodedExact, LimitIsNext DEF estimateContent, ContentSize, Maximum, Sizes
  <2> QED
    BY Zenon, <2>2, <2>3
<1> HIDE DEF content, exact
<1>2. raw \in Nat /\ saturatingEstimateAdd(content, signatureOutputOverhead) = Minimum(raw, Limit)
  <2>1. signatureOutputOverhead \in Sizes /\ signatureOutputOverhead \in Nat
    BY EstimateAssumption DEF Sizes
  <2>2. saturatingEstimateAdd(content, signatureOutputOverhead)
          = Minimum(content + signatureOutputOverhead, Limit)
    BY Zenon, <1>1, <2>1, AddExact
  <2> QED
    BY <1>1, <2>1, <2>2, LimitIsNext DEF Minimum, Sizes
<1> HIDE DEF raw
<1>3. estimate = Minimum(OutputSize(raw, outPEM, outBase64), Limit)
  BY Zenon, <1>2, Base64Exact, PEMExact DEF estimateEncodedOutputSize, OutputSize
<1>4. OutputSize(raw, outPEM, outBase64) \in Nat
  BY <1>2, Base64Exact DEF OutputSize, PEMSize, Ceiling, pemLineWidth, pemEnvelopeOverhead
<1>5. maximum \in Nat /\ maximum < Limit
  BY LimitIsNext, EstimateAssumption
<1> HIDE DEF estimate
<1>6. Minimum(estimate, maximum) = Minimum(OutputSize(raw, outPEM, outBase64), maximum)
  BY <1>3, <1>4, <1>5, LimitIsNext DEF Minimum
<1> QED
  BY Zenon, <1>6 DEF estimateSignDataOutput, estimate, raw, content, exact

\* estimateSignedXMLOutput, likewise.
THEOREM XMLEstimateExact ==
  ASSUME NEW size \in Sizes, NEW maximum \in 1..maxNativeOutputBufferSize
  PROVE  estimateSignedXMLOutput(size, maximum) = Minimum(size + signatureOutputOverhead, maximum)
<1>1. signatureOutputOverhead \in Sizes /\ signatureOutputOverhead \in Nat
  BY EstimateAssumption DEF Sizes
<1>2. saturatingEstimateAdd(size, signatureOutputOverhead)
        = Minimum(size + signatureOutputOverhead, Limit)
  BY Zenon, <1>1, AddExact
<1> QED
  BY <1>1, <1>2, LimitIsNext, EstimateAssumption DEF estimateSignedXMLOutput, Minimum, Sizes

-----------------------------------------------------------------------------
(* Requests: the flags                                                     *)

\* A request that returned was translated, and what ckalkan derives from the
\* arguments was derived from that translation.
RequestInv ==
  \/ operation = NoOperation
  \/ /\ operation.pc = "returned" /\ operation.request \in Inputs
     /\ operation.call = Translate(operation.request)
     /\ operation.call # Rejected =>
          /\ operation.estimate = Estimate(operation.request, operation.call)
          /\ operation.decoded = /\ operation.call.function = "VerifyData"
                                 /\ verifyDataReturnsDecodedData(operation.call.flags)

\* A flag of one bit is set if the mask has the bit.
LEMMA OneBit ==
  ASSUME NEW flags, NEW bit
  PROVE  Has(flags, {bit}) <=> bit \in flags
BY Zenon DEF Has

Forms == {"PEM", "DER", "base64"}

\* What KalkanCrypt understands, bit by bit.
Means(flags, m) ==
  /\ m.cms = (1 \in flags) /\ m.draft = (0 \in flags) /\ m.second = (5 \in flags)
  /\ m.file = (15 \in flags) /\ m.detached = (6 \in flags) /\ m.timestamp = (8 \in flags)
  /\ m.certificate = (7 \in flags) /\ m.skipTime = (16 \in flags)
  /\ m.input \subseteq Forms
  /\ ("PEM" \in m.input <=> 2 \in flags) /\ ("DER" \in m.input <=> 3 \in flags)
  /\ ("base64" \in m.input <=> 4 \in flags)
  /\ m.output \subseteq Forms
  /\ ("PEM" \in m.output <=> 9 \in flags) /\ ("DER" \in m.output <=> 10 \in flags)
  /\ ("base64" \in m.output <=> 11 \in flags)

\* A record that agrees with the mask in every bit is what KalkanCrypt understands.
LEMMA Meaning ==
  ASSUME NEW flags, NEW m, Means(flags, m),
         m = [cms |-> m.cms, draft |-> m.draft, input |-> m.input, second |-> m.second,
              file |-> m.file, detached |-> m.detached, timestamp |-> m.timestamp,
              certificate |-> m.certificate, output |-> m.output, skipTime |-> m.skipTime]
  PROVE  Understood(flags) = m
  <1>1. /\ Flag.SignCMS = {1} /\ Flag.SignDraft = {0} /\ Flag.In2Base64 = {5} /\ Flag.InFile = {15}
        /\ Flag.DetachedData = {6} /\ Flag.WithTimestamp = {8} /\ Flag.WithCert = {7}
        /\ Flag.NoCheckCertTime = {16}
    BY Zenon DEF Flag
  <1>2. Names(flags, InputNames) = m.input
    <2>1. /\ InputNames["PEM"] = {2} /\ InputNames["DER"] = {3} /\ InputNames["base64"] = {4}
          /\ DOMAIN InputNames = Forms
      BY Zenon DEF InputNames, Flag, Forms
    <2>2. \A n \in Forms : Has(flags, InputNames[n]) <=> n \in m.input
      BY <2>1, OneBit DEF Forms, Means
    <2>3. m.input \subseteq Forms
      BY Zenon DEF Means
    <2> QED BY <2>1, <2>2, <2>3, Zenon DEF Names
  <1>3. Names(flags, OutputNames) = m.output
    <2>1. /\ OutputNames["PEM"] = {9} /\ OutputNames["DER"] = {10} /\ OutputNames["base64"] = {11}
          /\ DOMAIN OutputNames = Forms
      BY Zenon DEF OutputNames, Flag, Forms
    <2>2. \A n \in Forms : Has(flags, OutputNames[n]) <=> n \in m.output
      BY <2>1, OneBit DEF Forms, Means
    <2>3. m.output \subseteq Forms
      BY Zenon DEF Means
    <2> QED BY <2>1, <2>2, <2>3, Zenon DEF Names
  <1>4. /\ Has(flags, {1}) = m.cms /\ Has(flags, {0}) = m.draft /\ Has(flags, {5}) = m.second
        /\ Has(flags, {15}) = m.file /\ Has(flags, {6}) = m.detached
        /\ Has(flags, {8}) = m.timestamp /\ Has(flags, {7}) = m.certificate
        /\ Has(flags, {16}) = m.skipTime
    BY OneBit DEF Has, Means
  <1> QED BY <1>1, <1>2, <1>3, <1>4, Zenon DEF Understood

\* The flags of the encodings, bit by bit.
LEMMA EncodingBits ==
  /\ \A e : inputFlag(e) = IF e = "base64" THEN {4} ELSE IF e = "PEM" THEN {2}
                           ELSE IF e = "DER" THEN {3} ELSE {}
  /\ \A f \in OutputFormats : cmsOutputFlag(f) = IF f = "DER" THEN {10}
                                ELSE IF f = "base64" THEN {11} ELSE {9}
  /\ \A c : certificateTimeCheckFlag(c) = IF c = "skip" THEN {16} ELSE {}
BY Zenon DEF inputFlag, cmsOutputFlag, certificateTimeCheckFlag, When, Flag, OutputFormats

\* The common flags of SignCMS and SignHash, bit by bit.
LEMMA CommonBits ==
  ASSUME NEW req, req.format \in OutputFormats, req.timestamp \in BOOLEAN,
         req.certificate \in BOOLEAN
  PROVE  \A bit : bit \in CommonFlags(req) <=>
           \/ bit = 7 /\ req.certificate
           \/ bit = 8 /\ req.timestamp
           \/ bit = 9 /\ req.format = "PEM"
           \/ bit = 10 /\ req.format = "DER"
           \/ bit = 11 /\ req.format = "base64"
           \/ bit = 16 /\ req.check = "skip"
BY EncodingBits DEF CommonFlags, When, Flag, OutputFormats

\* SignCMS: the mask says what was asked for, and ckalkan reads the same from it.
LEMMA SignCMSMeaning ==
  ASSUME NEW req \in Inputs, req.op = "SignCMS", SignCMS(req) # Rejected
  PROVE  LET flags == SignCMS(req).flags
         IN  /\ Understood(flags) = Asked(req)
             /\ Has(flags, Flag.SignCMS)
             /\ Has(flags, Flag.DetachedData) = req.detached
             /\ Has(flags, Flag.InFile) = req.data.file
             /\ Has(flags, Flag.InBase64) = (req.data.encoding = "base64")
             /\ Has(flags, Flag.OutPEM) = (req.format = "PEM")
             /\ Has(flags, Flag.OutBase64) = (req.format = "base64")
  <1> DEFINE flags == SignCMS(req).flags
             encoding == effectiveEncoding(req.data, "raw")
  <1>1. /\ req.data.file \in BOOLEAN /\ req.detached \in BOOLEAN
        /\ req.timestamp \in BOOLEAN /\ req.certificate \in BOOLEAN
    BY Zenon, InputAssumption DEF SourceValues
  <1>2. /\ req.format \in OutputFormats
        /\ flags = Flag.SignCMS \cup CommonFlags(req) \cup When(req.detached, Flag.DetachedData)
                     \cup When(req.data.file, Flag.InFile) \cup inputFlag(encoding)
    BY Zenon DEF SignCMS, Native
  <1>3. encoding = IF req.data.encoding = "auto" THEN "raw" ELSE req.data.encoding
    BY Zenon DEF effectiveEncoding
  <1> HIDE DEF flags, encoding
  <1>4. \A bit : bit \in flags <=>
           \/ bit = 1
           \/ bit = 2 /\ req.data.encoding = "PEM"
           \/ bit = 3 /\ req.data.encoding = "DER"
           \/ bit = 4 /\ req.data.encoding = "base64"
           \/ bit = 6 /\ req.detached
           \/ bit = 15 /\ req.data.file
           \/ bit = 7 /\ req.certificate
           \/ bit = 8 /\ req.timestamp
           \/ bit = 9 /\ req.format = "PEM"
           \/ bit = 10 /\ req.format = "DER"
           \/ bit = 11 /\ req.format = "base64"
           \/ bit = 16 /\ req.check = "skip"
    <2>1. \A bit : bit \in flags <=>
             \/ bit = 1
             \/ bit \in inputFlag(encoding)
             \/ bit = 6 /\ req.detached
             \/ bit = 15 /\ req.data.file
             \/ bit \in CommonFlags(req)
      BY Zenon, <1>1, <1>2 DEF When, Flag
    <2>2. \A bit : bit \in inputFlag(encoding) <=>
             \/ bit = 2 /\ req.data.encoding = "PEM"
             \/ bit = 3 /\ req.data.encoding = "DER"
             \/ bit = 4 /\ req.data.encoding = "base64"
      BY Zenon, <1>3, EncodingBits
    <2>3. \A bit : bit \in CommonFlags(req) <=>
             \/ bit = 7 /\ req.certificate
             \/ bit = 8 /\ req.timestamp
             \/ bit = 9 /\ req.format = "PEM"
             \/ bit = 10 /\ req.format = "DER"
             \/ bit = 11 /\ req.format = "base64"
             \/ bit = 16 /\ req.check = "skip"
      BY Zenon, <1>1, <1>2, CommonBits
    <2> QED BY <2>1, <2>2, <2>3, Zenon
  <1>5. Asked(req) =
          [cms |-> TRUE, draft |-> FALSE, input |-> InputAs(req.data.encoding), second |-> FALSE,
           file |-> req.data.file, detached |-> req.detached, timestamp |-> req.timestamp,
           certificate |-> req.certificate, output |-> {req.format},
           skipTime |-> req.check = "skip"]
    BY Zenon DEF Asked, SaysNothing
  <1>6. Means(flags, Asked(req))
    <2>1. {req.format} \subseteq Forms /\ InputAs(req.data.encoding) \subseteq Forms
      BY Zenon, <1>2 DEF Forms, OutputFormats, InputAs
    <2>2. /\ (0 \in flags) = FALSE /\ (1 \in flags) = TRUE /\ (5 \in flags) = FALSE
          /\ (6 \in flags) = req.detached /\ (7 \in flags) = req.certificate
          /\ (8 \in flags) = req.timestamp /\ (15 \in flags) = req.data.file
          /\ (16 \in flags) = (req.check = "skip")
      BY <1>1, <1>4
    <2>3. /\ ("PEM" \in InputAs(req.data.encoding) <=> 2 \in flags)
          /\ ("DER" \in InputAs(req.data.encoding) <=> 3 \in flags)
          /\ ("base64" \in InputAs(req.data.encoding) <=> 4 \in flags)
      BY <1>1, <1>4 DEF InputAs
    <2>4. /\ ("PEM" \in {req.format} <=> 9 \in flags) /\ ("DER" \in {req.format} <=> 10 \in flags)
          /\ ("base64" \in {req.format} <=> 11 \in flags)
      BY <1>1, <1>4
    <2>5. /\ Asked(req).cms = TRUE /\ Asked(req).draft = FALSE /\ Asked(req).second = FALSE
          /\ Asked(req).file = req.data.file /\ Asked(req).detached = req.detached
          /\ Asked(req).timestamp = req.timestamp /\ Asked(req).certificate = req.certificate
          /\ Asked(req).skipTime = (req.check = "skip")
          /\ Asked(req).input = InputAs(req.data.encoding) /\ Asked(req).output = {req.format}
      BY <1>5
    <2> QED BY <2>1, <2>2, <2>3, <2>4, <2>5, Zenon DEF Means
  <1>7. /\ Has(flags, Flag.SignCMS)
        /\ Has(flags, Flag.DetachedData) = req.detached
        /\ Has(flags, Flag.InFile) = req.data.file
        /\ Has(flags, Flag.InBase64) = (req.data.encoding = "base64")
        /\ Has(flags, Flag.OutPEM) = (req.format = "PEM")
        /\ Has(flags, Flag.OutBase64) = (req.format = "base64")
    <2>1. /\ Flag.SignCMS = {1} /\ Flag.DetachedData = {6} /\ Flag.InFile = {15}
          /\ Flag.InBase64 = {4} /\ Flag.OutPEM = {9} /\ Flag.OutBase64 = {11}
      BY Zenon DEF Flag
    <2>2. /\ 1 \in flags /\ (6 \in flags <=> req.detached) /\ (15 \in flags <=> req.data.file)
          /\ (4 \in flags <=> req.data.encoding = "base64")
          /\ (9 \in flags <=> req.format = "PEM") /\ (11 \in flags <=> req.format = "base64")
      BY <1>1, <1>4
    <2> QED BY <1>1, <2>1, <2>2, OneBit DEF Has
  <1> QED BY Zenon, <1>5, <1>6, <1>7, Meaning DEF flags

\* SignHash, whose digest has no encoding and is no file.
LEMMA SignHashMeaning ==
  ASSUME NEW req \in Inputs, req.op = "SignHash", SignHash(req) # Rejected
  PROVE  Understood(SignHash(req).flags) = Asked(req)
  <1> DEFINE flags == SignHash(req).flags
  <1>1. req.timestamp \in BOOLEAN /\ req.certificate \in BOOLEAN
    BY Zenon, InputAssumption
  <1>2. req.format \in OutputFormats /\ flags = Flag.SignCMS \cup CommonFlags(req)
    BY Zenon DEF SignHash, Native
  <1> HIDE DEF flags
  <1>3. \A bit : bit \in flags <=>
           \/ bit = 1
           \/ bit = 7 /\ req.certificate
           \/ bit = 8 /\ req.timestamp
           \/ bit = 9 /\ req.format = "PEM"
           \/ bit = 10 /\ req.format = "DER"
           \/ bit = 11 /\ req.format = "base64"
           \/ bit = 16 /\ req.check = "skip"
    <2>1. \A bit : bit \in flags <=> bit = 1 \/ bit \in CommonFlags(req)
      BY Zenon, <1>2 DEF Flag
    <2>2. \A bit : bit \in CommonFlags(req) <=>
             \/ bit = 7 /\ req.certificate
             \/ bit = 8 /\ req.timestamp
             \/ bit = 9 /\ req.format = "PEM"
             \/ bit = 10 /\ req.format = "DER"
             \/ bit = 11 /\ req.format = "base64"
             \/ bit = 16 /\ req.check = "skip"
      BY Zenon, <1>1, <1>2, CommonBits
    <2> QED BY <2>1, <2>2, Zenon
  <1>4. Asked(req) =
          [cms |-> TRUE, draft |-> FALSE, input |-> {}, second |-> FALSE, file |-> FALSE,
           detached |-> FALSE, timestamp |-> req.timestamp, certificate |-> req.certificate,
           output |-> {req.format}, skipTime |-> req.check = "skip"]
    BY Zenon DEF Asked, SaysNothing
  <1>5. Means(flags, Asked(req))
    <2>1. {req.format} \subseteq Forms
      BY Zenon, <1>2 DEF Forms, OutputFormats
    <2>2. /\ (0 \in flags) = FALSE /\ (1 \in flags) = TRUE /\ (5 \in flags) = FALSE
          /\ (6 \in flags) = FALSE /\ (7 \in flags) = req.certificate
          /\ (8 \in flags) = req.timestamp /\ (15 \in flags) = FALSE
          /\ (16 \in flags) = (req.check = "skip")
      BY <1>1, <1>3
    <2>3. 2 \notin flags /\ 3 \notin flags /\ 4 \notin flags
      BY <1>1, <1>3
    <2>4. /\ ("PEM" \in {req.format} <=> 9 \in flags) /\ ("DER" \in {req.format} <=> 10 \in flags)
          /\ ("base64" \in {req.format} <=> 11 \in flags)
      BY <1>1, <1>3
    <2>5. /\ Asked(req).cms = TRUE /\ Asked(req).draft = FALSE /\ Asked(req).second = FALSE
          /\ Asked(req).file = FALSE /\ Asked(req).detached = FALSE
          /\ Asked(req).timestamp = req.timestamp /\ Asked(req).certificate = req.certificate
          /\ Asked(req).skipTime = (req.check = "skip")
          /\ Asked(req).input = {} /\ Asked(req).output = {req.format}
      BY <1>4
    <2> QED BY <2>1, <2>2, <2>3, <2>4, <2>5, Zenon DEF Means
  <1> QED BY Zenon, <1>4, <1>5, Meaning DEF flags

\* Hash, whose output is never a text.
LEMMA HashMeaning ==
  ASSUME NEW req \in Inputs, req.op = "Hash", HashData(req) # Rejected
  PROVE  /\ Understood(HashData(req).flags) = Asked(req)
         /\ 9 \notin HashData(req).flags /\ 11 \notin HashData(req).flags
  <1> DEFINE flags == HashData(req).flags
             encoding == effectiveEncoding(req.data, "raw")
  <1>1. req.data.file \in BOOLEAN
    BY Zenon, InputAssumption DEF SourceValues
  <1>2. flags = inputFlag(encoding) \cup When(req.data.file, Flag.InFile)
    BY Zenon DEF HashData, Native
  <1>3. encoding = IF req.data.encoding = "auto" THEN "raw" ELSE req.data.encoding
    BY Zenon DEF effectiveEncoding
  <1> HIDE DEF flags, encoding
  <1>4. \A bit : bit \in flags <=>
           \/ bit = 2 /\ req.data.encoding = "PEM"
           \/ bit = 3 /\ req.data.encoding = "DER"
           \/ bit = 4 /\ req.data.encoding = "base64"
           \/ bit = 15 /\ req.data.file
    BY Zenon, <1>1, <1>2, <1>3, EncodingBits DEF When, Flag
  <1>5. Asked(req) =
          [cms |-> FALSE, draft |-> FALSE, input |-> InputAs(req.data.encoding), second |-> FALSE,
           file |-> req.data.file, detached |-> FALSE, timestamp |-> FALSE,
           certificate |-> FALSE, output |-> {}, skipTime |-> FALSE]
    BY Zenon DEF Asked, SaysNothing
  <1>6. Means(flags, Asked(req))
    <2>1. InputAs(req.data.encoding) \subseteq Forms
      BY Zenon DEF Forms, InputAs
    <2>2. /\ (0 \in flags) = FALSE /\ (1 \in flags) = FALSE /\ (5 \in flags) = FALSE
          /\ (6 \in flags) = FALSE /\ (7 \in flags) = FALSE /\ (8 \in flags) = FALSE
          /\ (15 \in flags) = req.data.file /\ (16 \in flags) = FALSE
      BY <1>1, <1>4
    <2>3. /\ ("PEM" \in InputAs(req.data.encoding) <=> 2 \in flags)
          /\ ("DER" \in InputAs(req.data.encoding) <=> 3 \in flags)
          /\ ("base64" \in InputAs(req.data.encoding) <=> 4 \in flags)
      BY <1>4 DEF InputAs
    <2>4. 9 \notin flags /\ 10 \notin flags /\ 11 \notin flags
      BY <1>4
    <2>5. /\ Asked(req).cms = FALSE /\ Asked(req).draft = FALSE /\ Asked(req).second = FALSE
          /\ Asked(req).file = req.data.file /\ Asked(req).detached = FALSE
          /\ Asked(req).timestamp = FALSE /\ Asked(req).certificate = FALSE
          /\ Asked(req).skipTime = FALSE
          /\ Asked(req).input = InputAs(req.data.encoding) /\ Asked(req).output = {}
      BY <1>5
    <2> QED BY <2>1, <2>2, <2>3, <2>4, <2>5, Zenon DEF Means
  <1>7. 9 \notin flags /\ 11 \notin flags
    BY <1>4
  <1> QED BY Zenon, <1>5, <1>6, <1>7, Meaning DEF flags

\* VerifyCMS, where encoding and file are those of the signature and the encoding
\* of detached data has a flag of its own.
LEMMA VerifyCMSMeaning ==
  ASSUME NEW req \in Inputs, req.op = "VerifyCMS", VerifyCMS(req) # Rejected
  PROVE  /\ Understood(VerifyCMS(req).flags) = Asked(req)
         /\ 1 \in VerifyCMS(req).flags /\ (6 \in VerifyCMS(req).flags) = req.detached
         /\ (15 \in VerifyCMS(req).flags) = req.signature.file
  <1> DEFINE flags == VerifyCMS(req).flags
             e == IF req.signature.encoding = "auto" THEN req.encoding ELSE req.signature.encoding
             input == IF e \in {"auto", "raw"} THEN {"DER"} ELSE {e}
             second == req.detached /\ req.data.encoding = "base64"
  <1>1. req.detached \in BOOLEAN /\ req.signature.file \in BOOLEAN /\ req.data.set \in BOOLEAN
    BY Zenon, InputAssumption DEF SourceValues
  <1>2. /\ flags = cmsSignatureInput(req.signature, req.encoding) \cup cmsDataInput(req.data)
                     \cup Flag.SignCMS \cup When(req.detached, Flag.DetachedData)
                     \cup certificateTimeCheckFlag(req.check) \cup When(req.signature.file, Flag.InFile)
        /\ cmsSignatureInput(req.signature, req.encoding) # {}
        /\ req.detached = req.data.set
    BY Zenon DEF VerifyCMS, Native
  <1>3. /\ e \in {"auto", "raw", "DER", "base64", "PEM"}
        /\ cmsSignatureInput(req.signature, req.encoding) =
             IF e \in {"auto", "raw", "DER"} THEN {3} ELSE IF e = "base64" THEN {4} ELSE {2}
    BY Zenon, <1>2 DEF cmsSignatureInput, effectiveEncoding, Flag
  <1>4. cmsDataInput(req.data) = IF second THEN {5} ELSE {}
    BY Zenon, <1>1, <1>2 DEF cmsDataInput, effectiveEncoding, When, Flag
  <1> HIDE DEF flags, e, second
  <1>5. \A bit : bit \in flags <=>
           \/ bit = 1
           \/ bit = 2 /\ e = "PEM"
           \/ bit = 3 /\ e \in {"auto", "raw", "DER"}
           \/ bit = 4 /\ e = "base64"
           \/ bit = 5 /\ second
           \/ bit = 6 /\ req.detached
           \/ bit = 15 /\ req.signature.file
           \/ bit = 16 /\ req.check = "skip"
    BY <1>1, <1>2, <1>3, <1>4, EncodingBits DEF When, Flag
  <1>6. Asked(req) =
          [cms |-> TRUE, draft |-> FALSE, input |-> input, second |-> second,
           file |-> req.signature.file, detached |-> req.detached, timestamp |-> FALSE,
           certificate |-> FALSE, output |-> {}, skipTime |-> req.check = "skip"]
    BY Zenon DEF Asked, SaysNothing, e, second
  <1>7. Means(flags, Asked(req))
    <2>1. input \subseteq Forms
      BY Zenon, <1>3 DEF Forms
    <2>2. /\ (0 \in flags) = FALSE /\ (1 \in flags) = TRUE /\ (5 \in flags) = second
          /\ (6 \in flags) = req.detached /\ (7 \in flags) = FALSE /\ (8 \in flags) = FALSE
          /\ (15 \in flags) = req.signature.file /\ (16 \in flags) = (req.check = "skip")
      BY <1>1, <1>5 DEF second
    <2>3. /\ ("PEM" \in input <=> 2 \in flags) /\ ("DER" \in input <=> 3 \in flags)
          /\ ("base64" \in input <=> 4 \in flags)
      BY <1>3, <1>5
    <2>4. 9 \notin flags /\ 10 \notin flags /\ 11 \notin flags
      BY <1>5
    <2> HIDE DEF input
    <2>5. /\ Asked(req).cms = TRUE /\ Asked(req).draft = FALSE /\ Asked(req).second = second
          /\ Asked(req).file = req.signature.file /\ Asked(req).detached = req.detached
          /\ Asked(req).timestamp = FALSE /\ Asked(req).certificate = FALSE
          /\ Asked(req).skipTime = (req.check = "skip")
          /\ Asked(req).input = input /\ Asked(req).output = {}
      BY <1>6
    <2> QED BY <2>1, <2>2, <2>3, <2>4, <2>5, Zenon DEF Means
  <1>8. 1 \in flags /\ (6 \in flags) = req.detached /\ (15 \in flags) = req.signature.file
    BY <1>1, <1>5
  <1> HIDE DEF input
  <1> QED BY Zenon, <1>6, <1>7, <1>8, Meaning DEF flags

\* A selector of canonicalization is not part of another one with the bit of the
\* certificate's time.
LEMMA XMLMeaning ==
  ASSUME NEW req \in Inputs, req.op \in XMLOperations, XMLOperation(req) # Rejected
  PROVE  UnderstoodXML(XMLOperation(req).flags) =
           [selectors |-> {req.canonicalization}, skipTime |-> req.check = "skip"]
  <1> DEFINE flags == XMLOperation(req).flags
  <1>1. /\ req.canonicalization \in Canonicalizations
        /\ flags = XMLFlag[req.canonicalization] \cup certificateTimeCheckFlag(req.check)
    BY Zenon DEF XMLOperation, Native, xmlSignatureFlags, xmlCanonicalizationFlag
  <1> HIDE DEF flags
  <1> DEFINE low == [XMLInclC14N |-> 0, XMLInclC14NComment |-> 1, XMLInclC14N11 |-> 2,
                     XMLInclC14N11Comment |-> 3, XMLExclC14N |-> 4, XMLExclC14NComment |-> 5]
  <1>2. \A s \in Canonicalizations : XMLFlag[s] = {24, low[s]} /\ low[s] \in 0..5
    BY DEF Canonicalizations, XMLFlag
  <1>3. \A s, t \in Canonicalizations : low[s] = low[t] => s = t
    BY DEF Canonicalizations, XMLFlag
  <1> HIDE DEF low
  <1>4. \A s \in Canonicalizations : XMLFlag[s] \subseteq flags <=> s = req.canonicalization
    <2> SUFFICES ASSUME NEW s \in Canonicalizations, XMLFlag[s] \subseteq flags
                 PROVE  s = req.canonicalization
      BY Zenon, <1>1
    <2>1. low[s] \in {24, low[req.canonicalization]} \cup certificateTimeCheckFlag(req.check)
      BY <1>1, <1>2
    <2>2. low[s] = low[req.canonicalization]
      BY <1>2, <2>1, EncodingBits
    <2> QED BY Zenon, <1>1, <1>3, <2>2
  <1>5. {s \in Canonicalizations : XMLFlag[s] \subseteq flags} = {req.canonicalization}
    BY Zenon, <1>1, <1>4
  <1>6. Has(flags, Flag.NoCheckCertTime) = (req.check = "skip")
    <2>1. Flag.NoCheckCertTime = {16}
      BY Zenon DEF Flag
    <2>2. 16 \in flags <=> req.check = "skip"
      BY <1>1, <1>2, EncodingBits
    <2> QED BY <2>1, <2>2, OneBit DEF Has
  <1> QED BY <1>5, <1>6, Zenon DEF UnderstoodXML, flags

-----------------------------------------------------------------------------
(* Requests: the theorems                                                  *)

\* Every reachable state satisfies RequestInv.
LEMMA RequestInvariance == RequestSpec => []RequestInv
  <1>1. RequestInit => RequestInv
    BY Zenon DEF RequestInit, RequestInv
  <1>2. RequestInv /\ [RequestNext]_requestVars => RequestInv'
    <2> SUFFICES ASSUME RequestInv, [RequestNext]_requestVars
                 PROVE  RequestInv'
      BY Zenon
    <2>1. ASSUME NEW req \in Inputs, Request(req)
          PROVE  RequestInv'
      <3> DEFINE native == Translate(req)
      <3>1. /\ operation'.pc = "returned" /\ operation'.request = req /\ operation'.call = native
            /\ operation'.estimate = IF native = Rejected THEN 0 ELSE Estimate(req, native)
            /\ operation'.decoded = (/\ native # Rejected /\ native.function = "VerifyData"
                                     /\ verifyDataReturnsDecodedData(native.flags))
        BY <2>1, Zenon DEF Request
      <3> HIDE DEF native
      <3>2. native # Rejected =>
              /\ operation'.estimate = Estimate(req, native)
              /\ operation'.decoded = (/\ native.function = "VerifyData"
                                       /\ verifyDataReturnsDecodedData(native.flags))
        BY <3>1, Zenon
      <3> QED BY <3>1, <3>2, Zenon DEF RequestInv, native
    <2>2. CASE operation' = NoOperation
      BY Zenon, <2>2 DEF RequestInv
    <2>3. CASE UNCHANGED requestVars
      BY Zenon, <2>3 DEF requestVars, RequestInv
    <2> QED BY Zenon, <2>1, <2>2, <2>3 DEF RequestNext
  <1> QED BY <1>1, <1>2, PTL DEF RequestSpec

\* Every combination of options, encodings and sources that is not refused reaches
\* the library as it was asked for, and with nothing else (cms.go, hash.go, xml.go).
THEOREM Survives == RequestSpec => []RequestSurvives
  <1>1. RequestInv => RequestSurvives
    <2> SUFFICES ASSUME RequestInv, operation.pc = "returned", operation.call # Rejected
                 PROVE  RequestSurvives
      BY Zenon DEF RequestSurvives
    <2>1. PICK req : req = operation.request
      BY Zenon
    <2>2. req \in Inputs /\ operation.call = Translate(req) /\ Translate(req) # Rejected
      <3>1. operation # NoOperation
        BY DEF NoOperation
      <3> QED BY Zenon, <2>1, <3>1 DEF RequestInv
    <2>3. req.op \in {"SignCMS", "VerifyCMS", "Hash", "SignHash"} \cup XMLOperations
      BY Zenon, <2>2, InputAssumption
    <2>4. CASE req.op = "SignCMS"
      BY Zenon, <2>1, <2>2, <2>4, SignCMSMeaning DEF Translate, XMLOperations, RequestSurvives
    <2>5. CASE req.op = "VerifyCMS"
      BY Zenon, <2>1, <2>2, <2>5, VerifyCMSMeaning DEF Translate, XMLOperations, RequestSurvives
    <2>6. CASE req.op = "Hash"
      BY Zenon, <2>1, <2>2, <2>6, HashMeaning DEF Translate, XMLOperations, RequestSurvives
    <2>7. CASE req.op = "SignHash"
      BY Zenon, <2>1, <2>2, <2>7, SignHashMeaning DEF Translate, XMLOperations, RequestSurvives
    <2>8. CASE req.op \in XMLOperations
      <3>1. Translate(req) = XMLOperation(req)
        BY Zenon, <2>8 DEF Translate, XMLOperations
      <3>2. UnderstoodXML(operation.call.flags) =
              [selectors |-> {req.canonicalization}, skipTime |-> req.check = "skip"]
        BY Zenon, <2>2, <2>8, <3>1, XMLMeaning
      <3> QED BY <2>1, <2>8, <3>2, Zenon DEF RequestSurvives
    <2> QED BY Zenon, <2>3, <2>4, <2>5, <2>6, <2>7, <2>8
  <1> QED BY <1>1, RequestInvariance, PTL

\* The estimate for a SignData call.
LEMMA SignCMSEstimate ==
  ASSUME NEW req \in Inputs, req.op = "SignCMS", SignCMS(req) # Rejected
  PROVE  Estimate(req, SignCMS(req)) =
           Minimum(OutputSize(Content(req) + signatureOutputOverhead, req.format = "PEM",
                              req.format = "base64"), OutputLimit)
  <1> DEFINE flags == SignCMS(req).flags
             data == estimateInputSize(req.data, Has(flags, Flag.InFile))
             in64 == Has(flags, Flag.InBase64)
             embedded == Has(flags, Flag.SignCMS) /\ ~Has(flags, Flag.DetachedData)
             pem == Has(flags, Flag.OutPEM)
             base64 == Has(flags, Flag.OutBase64)
  <1>1. /\ req.data.file \in BOOLEAN /\ req.detached \in BOOLEAN /\ req.data.exists \in BOOLEAN
        /\ req.data.size \in Sizes /\ req.data.path \in Sizes
    BY Zenon, InputAssumption DEF SourceValues, Sizes
  <1>2. SignCMS(req).function = "SignData" /\ SignCMS(req).data = req.data
    BY Zenon DEF SignCMS, Native
  <1>3. /\ in64 = (req.data.encoding = "base64") /\ embedded = ~req.detached
        /\ pem = (req.format = "PEM") /\ base64 = (req.format = "base64")
        /\ Has(flags, Flag.InFile) = req.data.file
    BY Zenon, <1>1, SignCMSMeaning
  <1>4. data = IF req.data.file /\ ~req.data.exists THEN req.data.path ELSE req.data.size
    BY Zenon, <1>1, <1>3 DEF estimateInputSize
  <1>5. Estimate(req, SignCMS(req)) =
          estimateSignDataOutput(estimateContent(0, data, in64, embedded), pem, base64, OutputLimit)
    BY <1>2, Zenon DEF Estimate, SignDataContent
  <1>6. /\ 0 \in Sizes /\ data \in Sizes /\ in64 \in BOOLEAN /\ embedded \in BOOLEAN
        /\ pem \in BOOLEAN /\ base64 \in BOOLEAN /\ OutputLimit \in 1..maxNativeOutputBufferSize
    <2>1. 0 \in Sizes
      BY EstimateAssumption DEF Sizes
    <2>2. data \in Sizes
      BY Zenon, <1>1, <1>4
    <2> QED BY Zenon, <1>1, <1>3, <2>1, <2>2, RequestAssumption
  <1> HIDE DEF data, in64, embedded, pem, base64
  <1>7. Estimate(req, SignCMS(req)) =
          Minimum(OutputSize(ContentSize(0, data, in64, embedded) + signatureOutputOverhead,
                             pem, base64), OutputLimit)
    BY <1>5, <1>6, SignEstimateExact
  <1>8. ContentSize(0, data, in64, embedded) = Content(req)
    <2>1. Base64Content(0) = 0 /\ Base64Content(data) \in Nat /\ data \in Nat
      BY <1>6, DecodedExact, EstimateAssumption DEF Base64Content, Ceiling, Sizes
    <2> DEFINE d == IF in64 THEN Base64Content(data) ELSE data
    <2>2. ContentSize(0, data, in64, embedded) = IF embedded THEN Maximum(0, d) ELSE 0
      BY Zenon, <2>1 DEF ContentSize
    <2>3. d \in Nat /\ Maximum(0, d) = d
      BY <2>1 DEF Maximum
    <2>4. Content(req) = IF req.detached THEN 0 ELSE d
      BY Zenon, <1>3, <1>4 DEF Content
    <2> QED BY Zenon, <1>1, <1>3, <2>2, <2>3, <2>4
  <1> QED BY Zenon, <1>3, <1>7, <1>8

\* The estimate for SignXML and SignWSSE.
LEMMA XMLEstimate ==
  ASSUME NEW req \in Inputs, req.op \in XMLOperations, XMLOperation(req) # Rejected
  PROVE  Estimate(req, XMLOperation(req)) =
           IF req.op = "VerifyXML" THEN 0
           ELSE Minimum(req.data.size + (IF req.wrap THEN SOAPOverhead ELSE 0)
                          + signatureOutputOverhead, OutputLimit)
  <1>1. XMLOperation(req).function = req.op /\ XMLOperation(req).data = XMLDocument(req)
    BY Zenon DEF XMLOperation, Native
  <1>2. CASE req.op = "VerifyXML"
    BY Zenon, <1>1, <1>2 DEF Estimate
  <1>3. CASE req.op \in {"SignXML", "SignWSSE"}
    <2> DEFINE size == XMLDocument(req).size
    <2>1. /\ req.data.size \in Sizes /\ SOAPOverhead \in Nat /\ size <= MaxInt64
          /\ req.wrap \in BOOLEAN /\ (req.wrap => req.op = "SignWSSE")
      BY Zenon, InputAssumption, RequestAssumption DEF SourceValues, Sizes
    <2>2. xmlInput(req)
      BY Zenon DEF XMLOperation
    <2>3. size = req.data.size + (IF req.wrap THEN SOAPOverhead ELSE 0)
      BY <2>1 DEF XMLDocument, Sizes
    <2>4. size \in Sizes
      BY <2>1, <2>3, EstimateAssumption DEF Sizes
    <2>5. Estimate(req, XMLOperation(req)) = estimateSignedXMLOutput(size, OutputLimit)
      BY Zenon, <1>1, <1>3 DEF Estimate
    <2>6. estimateSignedXMLOutput(size, OutputLimit) = Minimum(size + signatureOutputOverhead, OutputLimit)
      BY Zenon, <2>4, XMLEstimateExact, RequestAssumption
    <2> QED BY Zenon, <1>3, <2>3, <2>5, <2>6
  <1> QED BY Zenon, <1>2, <1>3 DEF XMLOperations

\* The native function that a request becomes.
LEMMA NativeFunction ==
  ASSUME NEW req
  PROVE  /\ SignCMS(req) # Rejected => SignCMS(req).function = "SignData"
         /\ VerifyCMS(req) # Rejected => VerifyCMS(req).function = "VerifyData"
         /\ HashData(req) # Rejected => HashData(req).function = "HashData"
         /\ SignHash(req) # Rejected => SignHash(req).function = "SignHash"
  <1>1. SignCMS(req) # Rejected => SignCMS(req).function = "SignData"
    BY Zenon DEF SignCMS, Native
  <1>2. VerifyCMS(req) # Rejected => VerifyCMS(req).function = "VerifyData"
    BY Zenon DEF VerifyCMS, Native
  <1>3. HashData(req) # Rejected => HashData(req).function = "HashData"
    BY Zenon DEF HashData, Native
  <1>4. SignHash(req) # Rejected => SignHash(req).function = "SignHash"
    BY Zenon DEF SignHash, Native
  <1> QED BY Zenon, <1>1, <1>2, <1>3, <1>4

\* Whatever is requested, the first capacity of an output is the exact size of it
\* or the limit, and decoded data is taken for an output exactly when it is one:
\* for requests with inputs of every int64 size, files and paths.
THEOREM EstimatesFollowRequests == RequestSpec => []EstimateIsExact
  <1>1. RequestInv => EstimateIsExact
    <2> SUFFICES ASSUME RequestInv, operation.pc = "returned", operation.call # Rejected
                 PROVE  EstimateIsExact
      BY Zenon DEF EstimateIsExact
    <2>1. PICK req : req = operation.request
      BY Zenon
    <2> DEFINE native == Translate(req)
               decoded == /\ native.function = "VerifyData"
                          /\ verifyDataReturnsDecodedData(native.flags)
               size == CASE req.op = "SignCMS" ->
                              Minimum(OutputSize(Content(req) + signatureOutputOverhead,
                                                 req.format = "PEM", req.format = "base64"),
                                      OutputLimit)
                         [] req.op \in {"SignXML", "SignWSSE"} ->
                              Minimum(req.data.size + (IF req.wrap THEN SOAPOverhead ELSE 0)
                                        + signatureOutputOverhead, OutputLimit)
                         [] req.op = "Hash" -> digestSize[req.algorithm]
                         [] OTHER -> 0
               asked == req.op = "VerifyCMS" /\ ~req.detached /\ ~req.signature.file
    <2>2. /\ req \in Inputs /\ operation.call = native /\ native # Rejected
          /\ operation.estimate = Estimate(req, native) /\ operation.decoded = decoded
      <3>1. operation # NoOperation
        BY DEF NoOperation
      <3> QED BY <2>1, <3>1, Zenon DEF RequestInv
    <2>3. req.op \in {"SignCMS", "VerifyCMS", "Hash", "SignHash"} \cup XMLOperations
      BY Zenon, <2>2, InputAssumption
    <2>4. CASE req.op = "SignCMS"
      <3>1. native = SignCMS(req) /\ native.function = "SignData"
        <4>1. native = SignCMS(req)
          BY Zenon, <2>4 DEF Translate, XMLOperations
        <4> QED BY Zenon, <2>2, <4>1, NativeFunction
      <3>2. Estimate(req, native) = size
        BY Zenon, <2>2, <2>4, <3>1, SignCMSEstimate
      <3> QED BY Zenon, <2>1, <2>2, <2>4, <3>1, <3>2 DEF EstimateIsExact
    <2>5. CASE req.op = "VerifyCMS"
      <3>1. native = VerifyCMS(req) /\ native.function = "VerifyData"
        <4>1. native = VerifyCMS(req)
          BY Zenon, <2>5 DEF Translate, XMLOperations
        <4> QED BY Zenon, <2>2, <4>1, NativeFunction
      <3>2. Estimate(req, native) = 0 /\ size = 0
        BY Zenon, <2>5, <3>1 DEF Estimate
      <3>3. /\ Flag.SignCMS = {1} /\ Flag.DetachedData = {6} /\ Flag.InFile = {15}
        BY Zenon DEF Flag
      <3>4. verifyDataReturnsDecodedData(native.flags) = (~req.detached /\ ~req.signature.file)
        <4>1. /\ 1 \in native.flags /\ (6 \in native.flags) = req.detached
              /\ (15 \in native.flags) = req.signature.file
          BY Zenon, <2>2, <2>5, <3>1, VerifyCMSMeaning
        <4> HIDE DEF native
        <4> req.detached \in BOOLEAN /\ req.signature.file \in BOOLEAN
          BY Zenon, <2>2, <2>5, InputAssumption DEF SourceValues
        <4>2. /\ Has(native.flags, Flag.SignCMS)
              /\ Has(native.flags, Flag.DetachedData) <=> req.detached
              /\ Has(native.flags, Flag.InFile) <=> req.signature.file
          BY <3>3, <4>1, OneBit
        <4> QED BY Zenon, <4>2 DEF verifyDataReturnsDecodedData
      <3>5. decoded = asked
        BY Zenon, <2>5, <3>1, <3>4
      <3> HIDE DEF decoded, native, asked, size
      <3> QED BY <2>1, <2>2, <3>2, <3>5, Zenon DEF EstimateIsExact, size, asked
    <2>6. CASE req.op = "Hash"
      <3>1. native = HashData(req) /\ native.function = "HashData"
        <4>1. native = HashData(req)
          BY Zenon, <2>6 DEF Translate, XMLOperations
        <4> QED BY Zenon, <2>2, <4>1, NativeFunction
      <3>2. Flag.OutBase64 \cup Flag.OutPEM = {9, 11}
        BY Zenon DEF Flag
      <3>3. Estimate(req, native) = size
        <4>1. 9 \notin native.flags /\ 11 \notin native.flags
          BY Zenon, <2>2, <2>6, <3>1, HashMeaning
        <4> QED BY <2>6, <3>1, <3>2, <4>1 DEF Estimate, initialHashOutputCapacity, Has
      <3> QED BY Zenon, <2>1, <2>2, <2>6, <3>1, <3>3 DEF EstimateIsExact
    <2>7. CASE req.op = "SignHash"
      <3>1. native = SignHash(req) /\ native.function = "SignHash"
        <4>1. native = SignHash(req)
          BY Zenon, <2>7 DEF Translate, XMLOperations
        <4> QED BY Zenon, <2>2, <4>1, NativeFunction
      <3>2. Estimate(req, native) = 0 /\ size = 0
        BY Zenon, <2>7, <3>1 DEF Estimate
      <3> QED BY Zenon, <2>1, <2>2, <2>7, <3>1, <3>2 DEF EstimateIsExact
    <2>8. CASE req.op \in XMLOperations
      <3>1. native = XMLOperation(req) /\ native.function = req.op
        BY Zenon, <2>2, <2>8 DEF Translate, XMLOperations, XMLOperation, Native
      <3>2. Estimate(req, native) = size
        BY Zenon, <2>2, <2>8, <3>1, XMLEstimate DEF XMLOperations
      <3>3. req.op \in {"SignXML", "SignWSSE", "VerifyXML"}
        BY Zenon, <2>8 DEF XMLOperations
      <3> QED BY Zenon, <2>1, <2>2, <3>1, <3>2, <3>3 DEF EstimateIsExact
    <2> QED BY Zenon, <2>3, <2>4, <2>5, <2>6, <2>7, <2>8
  <1> QED BY <1>1, RequestInvariance, PTL
=============================================================================
