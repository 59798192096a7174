------------------------- MODULE OutputBufferProofs -------------------------
(***************************************************************************)
(* The bounds and the progress of the output-buffer loops, for all sizes,  *)
(* configurations and answers of the SDK.                                  *)
(***************************************************************************)
EXTENDS OutputBuffer, TLAPS

\* The state that capacities are computed from.
BufferInv ==
  /\ config \in Configs
  /\ hint \in Nat
  /\ active \subseteq Outputs
  /\ need \in [Outputs -> Nat]
  /\ cap \in [Outputs -> Nat \ {0}]
  /\ reply.len \in [Outputs -> Int]
  /\ CapacityBounded

\* The limit is positive and never above the C int maximum.
LEMMA LimitBounds ==
  ASSUME config \in Configs
  PROVE  /\ OutputBufferLimit \in 1..NativeMax
         /\ ~(config.maxBufferSize > 0 /\ config.maxBufferSize < Conservative) =>
              Conservative <= OutputBufferLimit
BY SizeAssumption DEF OutputBufferLimit, Smaller

\* growCapacity never shrinks a buffer, never exceeds the limit, and enlarges
\* every buffer that is below it.
LEMMA GrowBounds ==
  ASSUME config \in Configs, NEW c \in Nat \ {0}, c <= OutputBufferLimit, NEW r \in Int
  PROVE  /\ GrowCapacity(c, r) \in c..OutputBufferLimit
         /\ c < OutputBufferLimit => GrowCapacity(c, r) > c
BY LimitBounds DEF GrowCapacity, Larger, Smaller

\* boundedOutputCapacity turns any wish into a usable capacity.
LEMMA BoundedBounds ==
  ASSUME config \in Configs, NEW v \in Int
  PROVE  BoundedOutputCapacity(v) \in 1..OutputBufferLimit
BY LimitBounds, SizeAssumption DEF BoundedOutputCapacity, Smaller

\* The first capacities are natural numbers.
LEMMA WishesAreNat ==
  ASSUME config \in Configs
  PROVE  /\ \A i \in Nat : OutputInitialCapacity(i) \in Nat
         /\ \A r, i \in Nat : RequestOutputInitialCapacity(r, i) \in Nat
         /\ \A r, e \in Nat : EstimatedOutputInitialCapacity(r, e) \in Nat
BY Zenon, SizeAssumption DEF OutputInitialCapacity, NormalizeConfiguredBufferSize, Larger,
   RequestOutputInitialCapacity, EstimatedOutputInitialCapacity

-----------------------------------------------------------------------------
(* BufferInv is inductive.                                                 *)

\* Nothing is allocated before the first call.
LEMMA BufferInit == Init => BufferInv
BY DEF Init, BufferInv, CapacityBounded, Nothing, Smallest, NoReply, Outputs

\* Every operation starts with capacities within its bounds.
LEMMA BeginBounds ==
  ASSUME BufferInv, NEW k \in Kinds, NEW acts \in SUBSET Outputs, NEW sats, NEW h \in Nat,
         NEW n \in [Outputs -> Needs], NEW caps \in [Outputs -> 1..OutputBufferLimit],
         k \in {"zip", "list"} => caps["data"] >= Conservative,
         Begin(k, acts, sats, h, n, caps)
  PROVE  BufferInv'
<1>1. OutputBufferLimit' = OutputBufferLimit /\ config' = config
  BY Zenon DEF Begin, OutputBufferLimit
<1>2. need' \in [Outputs -> Nat]
  BY Zenon, SizeAssumption DEF Begin
<1>3. caps \in [Outputs -> Nat \ {0}]
  BY LimitBounds DEF BufferInv
<1> QED
  BY Zenon, <1>1, <1>2, <1>3 DEF Begin, BufferInv, CapacityBounded

\* ... and so does each wrapper method.
LEMMA StartBounds ==
  ASSUME BufferInv, Start
  PROVE  BufferInv'
<1> PICK n \in [Outputs -> Needs] :
      \/ BeginBuffer(n) \/ BeginSign(n) \/ BeginZip(n) \/ BeginList(n)
      \/ BeginVerify(n) \/ BeginValidate(n)
  BY Zenon DEF Start
<1>1. config \in Configs /\ OutputBufferLimit \in Nat \ {0} /\ Conservative \in Nat
  BY LimitBounds, SizeAssumption DEF BufferInv
<1>2. \A size \in 1..OutputBufferLimit :
        /\ Only(size) \in [Outputs -> 1..OutputBufferLimit]
        /\ Only(size)["data"] = size
  BY <1>1 DEF Only, Outputs
<1>3. RequestedCapacities \subseteq 1..OutputBufferLimit
  BY <1>1, BoundedBounds, WishesAreNat, SizeAssumption DEF RequestedCapacities
<1>4. ASSUME NEW k, NEW acts, NEW size, Reject(k, acts, size), acts \subseteq Outputs
      PROVE  BufferInv'
  BY Zenon, <1>4 DEF Reject, BufferInv, CapacityBounded
<1>5. CASE BeginBuffer(n)
  <2>1. PICK i \in InitialShort :
          Begin("buffer", {"data"}, {}, 0, n, Only(BoundedOutputCapacity(OutputInitialCapacity(i))))
    BY Zenon, <1>5 DEF BeginBuffer
  <2>2. BoundedOutputCapacity(OutputInitialCapacity(i)) \in 1..OutputBufferLimit
    BY <1>1, BoundedBounds, WishesAreNat, SizeAssumption
  <2> QED
    BY Zenon, <1>2, <2>1, <2>2, BeginBounds DEF Kinds, Loops, Outputs
<1>6. CASE BeginSign(n)
  <2>1. PICK k \in {"buffer", "sign"}, r \in Requested, e \in Hints :
          Begin(k, {"data"}, {}, 0, n,
                Only(BoundedOutputCapacity(
                       EstimatedOutputInitialCapacity(r, Smaller(e, OutputBufferLimit)))))
    BY Zenon, <1>6 DEF BeginSign
  <2>2. r \in Nat /\ Smaller(e, OutputBufferLimit) \in Nat
    BY Zenon, <1>1, SizeAssumption DEF Smaller
  <2>3. EstimatedOutputInitialCapacity(r, Smaller(e, OutputBufferLimit)) \in Int
    BY <1>1, <2>2, WishesAreNat
  <2>4. BoundedOutputCapacity(EstimatedOutputInitialCapacity(r, Smaller(e, OutputBufferLimit)))
          \in 1..OutputBufferLimit
    BY Zenon, <1>1, <2>3, BoundedBounds
  <2> QED
    BY Zenon, <1>2, <2>1, <2>4, BeginBounds DEF Kinds, Loops, Outputs
<1>7. CASE BeginZip(n)
  <2> DEFINE size == BoundedOutputCapacity(OutputInitialCapacity(Conservative))
  <2>1. CASE config.maxBufferSize > 0 /\ config.maxBufferSize < Conservative
    BY Zenon, <1>4, <1>7, <2>1 DEF BeginZip, Outputs
  <2>2. CASE ~(config.maxBufferSize > 0 /\ config.maxBufferSize < Conservative)
    <3>1. Begin("zip", {"data"}, {}, 0, n, Only(size))
      BY Zenon, <1>7, <2>2 DEF BeginZip
    <3>2. size \in 1..OutputBufferLimit
      BY <1>1, BoundedBounds, WishesAreNat
    <3>3. OutputInitialCapacity(Conservative) >= Conservative
      BY <1>1, SizeAssumption DEF OutputInitialCapacity, NormalizeConfiguredBufferSize, Larger
    <3>4. size >= Conservative
      BY <1>1, <2>2, <3>3, LimitBounds, WishesAreNat DEF BoundedOutputCapacity, Smaller
    <3> HIDE DEF size
    <3> QED
      BY Zenon, <1>2, <3>1, <3>2, <3>4, BeginBounds DEF Kinds, Loops, Outputs
  <2> QED
    BY Zenon, <2>1, <2>2
<1>8. CASE BeginList(n)
  <2> DEFINE size == NormalizeConfiguredBufferSize(config.listBufferSize, DefaultList)
  <2>1. size \in Nat \ {0} /\ size >= Conservative
    BY <1>1, SizeAssumption DEF NormalizeConfiguredBufferSize, Larger
  <2>2. \/ Reject("list", {"data"}, size)
        \/ size <= OutputBufferLimit /\ Begin("list", {"data"}, {"data"}, 0, n, Only(size))
    BY <1>1, <1>8, <2>1 DEF BeginList
  <2> HIDE DEF size
  <2>3. CASE Reject("list", {"data"}, size)
    BY Zenon, <1>4, <2>3 DEF Outputs
  <2>4. CASE size <= OutputBufferLimit /\ Begin("list", {"data"}, {"data"}, 0, n, Only(size))
    BY <1>1, <1>2, <2>1, <2>4, BeginBounds DEF Kinds, Loops, Outputs
  <2> QED
    BY Zenon, <2>2, <2>3, <2>4
<1>9. CASE BeginVerify(n)
  <2>1. PICK decoded \in BOOLEAN, h \in Hints, size \in [Outputs -> RequestedCapacities] :
          Begin("verify",
                IF decoded THEN Outputs ELSE Outputs \ {"data"},
                IF decoded THEN {"data"} ELSE {},
                IF decoded THEN h ELSE 0,
                n,
                [o \in Outputs |-> IF o = "data" /\ ~decoded THEN 1 ELSE size[o]])
    BY Zenon, <1>9 DEF BeginVerify
  <2> DEFINE caps == [o \in Outputs |-> IF o = "data" /\ ~decoded THEN 1 ELSE size[o]]
  <2>2. caps \in [Outputs -> 1..OutputBufferLimit]
    <3>1. \A o \in Outputs : size[o] \in 1..OutputBufferLimit
      BY Zenon, <1>3
    <3>2. 1 \in 1..OutputBufferLimit
      BY <1>1
    <3> QED
      BY Zenon, <3>1, <3>2
  <2>3. (IF decoded THEN h ELSE 0) \in Nat
    BY Zenon, SizeAssumption
  <2>4. (IF decoded THEN Outputs ELSE Outputs \ {"data"}) \in SUBSET Outputs
    BY Zenon
  <2> QED
    BY Zenon, <2>1, <2>2, <2>3, <2>4, BeginBounds DEF Kinds
<1>10. CASE BeginValidate(n)
  <2>1. PICK returnOCSP \in BOOLEAN, size \in [Outputs -> RequestedCapacities] :
          Begin("validate",
                IF returnOCSP THEN {"info", "cert"} ELSE {"info"},
                {}, 0, n,
                [size EXCEPT !["data"] = 1])
    BY Zenon, <1>10 DEF BeginValidate
  <2>2. [size EXCEPT !["data"] = 1] \in [Outputs -> 1..OutputBufferLimit]
    <3>1. \A o \in Outputs : size[o] \in 1..OutputBufferLimit
      BY Zenon, <1>3
    <3>2. 1 \in 1..OutputBufferLimit
      BY <1>1
    <3> QED
      BY Zenon, <3>1, <3>2
  <2>3. (IF returnOCSP THEN {"info", "cert"} ELSE {"info"}) \in SUBSET Outputs
    BY Zenon DEF Outputs
  <2> QED
    BY Zenon, <2>1, <2>2, <2>3, BeginBounds DEF Kinds
<1> QED
  BY Zenon, <1>5, <1>6, <1>7, <1>8, <1>9, <1>10

\* The SDK changes no capacity and reports integers.
LEMMA AnswerBounds ==
  ASSUME BufferInv, NativeCall
  PROVE  BufferInv'
<1>1. ASSUME NEW code, NEW len \in [Outputs -> Int], NEW slot, Answer(code, len, slot)
      PROVE  reply'.len \in [Outputs -> Int]
  BY <1>1 DEF Answer
<1>2. /\ need \in [Outputs -> Int] /\ cap \in [Outputs -> Int]
      /\ Written \in [Outputs -> Int] /\ Nothing \in [Outputs -> Int]
      /\ [o \in Outputs |-> -1] \in [Outputs -> Int]
  BY DEF BufferInv, Written, Nothing, Smaller
<1>3. reply'.len \in [Outputs -> Int]
  BY Zenon, <1>1, <1>2 DEF NativeCall, SDKAnswers, Delivers, SaysTooSmall, OverReports, Truncates, Fails,
                    FailsSilently, ReportsNegative
<1>4. /\ OutputBufferLimit' = OutputBufferLimit
      /\ UNCHANGED <<config, hint, active, need, cap, kind>> /\ phase = "call"
  BY Zenon DEF NativeCall, call, OutputBufferLimit
<1> QED
  BY Zenon, <1>3, <1>4 DEF BufferInv, CapacityBounded

\* Every step after the SDK's answer returns, or retries with capacities that
\* grew within the limit.
LEMMA DecideBounds ==
  ASSUME BufferInv, DecideBuffer \/ DecideList \/ DecideOutputs
  PROVE  /\ phase = "decide" /\ UNCHANGED <<call, reply>>
         /\ \/ phase' = "returned" /\ cap' = cap
            \/ /\ phase' = "call" /\ cap' # cap
               /\ cap' \in [Outputs -> Nat \ {0}]
               /\ \A o \in Outputs : cap'[o] \in cap[o]..OutputBufferLimit
<1>1. /\ config \in Configs /\ OutputBufferLimit \in Nat
      /\ cap \in [Outputs -> Nat \ {0}] /\ reply.len \in [Outputs -> Int] /\ hint \in Nat
      /\ "data" \in Outputs
  BY LimitBounds DEF BufferInv, Outputs
<1>2. phase = "decide" => \A o \in Outputs : cap[o] <= OutputBufferLimit
  BY <1>1 DEF BufferInv, CapacityBounded
<1>3. ASSUME NEW r \in Int, phase = "decide", GrowCapacity(cap["data"], r) # cap["data"],
             Retry([cap EXCEPT !["data"] = GrowCapacity(cap["data"], r)])
      PROVE  /\ phase' = "call" /\ cap' # cap
             /\ cap' \in [Outputs -> Nat \ {0}]
             /\ \A o \in Outputs : cap'[o] \in cap[o]..OutputBufferLimit
  <2>1. GrowCapacity(cap["data"], r) \in cap["data"]..OutputBufferLimit
    BY Zenon, <1>1, <1>2, <1>3, GrowBounds
  <2> QED
    BY <1>1, <1>2, <1>3, <2>1 DEF Retry
<1>4. CASE DecideBuffer
  BY Zenon, <1>1, <1>3, <1>4 DEF DecideBuffer, Return, Retry, call
<1>5. CASE DecideList
  BY <1>1, <1>3, <1>5 DEF DecideList, Return, Retry, call
<1>6. CASE DecideOutputs
  <2>1. phase = "decide"
    BY Zenon, <1>6 DEF DecideOutputs
  <2>2. \A o \in Outputs : Required(o) \in Int
    BY <1>1 DEF Required, Larger
  <2>3. \A o \in Outputs : NextCapacities[o] \in cap[o]..OutputBufferLimit
    <3> TAKE o \in Outputs
    <3>1. cap[o] \in Nat \ {0} /\ cap[o] <= OutputBufferLimit
      BY Zenon, <1>1, <1>2, <2>1
    <3>2. GrowCapacity(cap[o], Required(o)) \in cap[o]..OutputBufferLimit
      BY Zenon, <1>1, <2>2, <3>1, GrowBounds
    <3> QED
      BY <1>1, <3>1, <3>2 DEF NextCapacities
  <2>4. NextCapacities \in [Outputs -> Nat \ {0}]
    <3>1. \A o \in Outputs : NextCapacities[o] \in Nat \ {0}
      BY <1>1, <2>3
    <3> QED
      BY Zenon, <3>1 DEF NextCapacities
  <2>5. \/ phase' = "returned" /\ cap' = cap
        \/ NextCapacities # cap /\ Retry(NextCapacities)
    BY Zenon, <1>6 DEF DecideOutputs, GrowOutputs, Return
  <2>6. UNCHANGED <<call, reply>>
    BY Zenon, <1>6 DEF DecideOutputs, GrowOutputs, Return, Retry
  <2> QED
    BY Zenon, <2>1, <2>3, <2>4, <2>5, <2>6 DEF Retry
<1> QED
  BY Zenon, <1>4, <1>5, <1>6

\* Every step keeps BufferInv.
LEMMA BufferInductive == BufferInv /\ [Next]_vars => BufferInv'
<1> SUFFICES ASSUME BufferInv, [Next]_vars PROVE BufferInv'
  BY Zenon
<1>1. CASE DecideBuffer \/ DecideList \/ DecideOutputs
  <2>1. /\ OutputBufferLimit' = OutputBufferLimit
        /\ UNCHANGED <<config, hint, active, need, kind, reply>>
    BY Zenon, <1>1, DecideBounds DEF call, OutputBufferLimit
  <2>2. cap' \in [Outputs -> Nat \ {0}]
    BY Zenon, <1>1, DecideBounds DEF BufferInv
  <2>3. CapacityBounded'
    <3>1. OutputBufferLimit \in Nat /\ Conservative \in Nat /\ "data" \in Outputs
      BY LimitBounds, SizeAssumption DEF BufferInv, Outputs
    <3>2. CASE phase' = "returned"
      BY Zenon, <3>2 DEF CapacityBounded
    <3>3. CASE phase' = "call"
      <4>1. phase = "decide" /\ \A o \in Outputs : cap'[o] \in cap[o]..OutputBufferLimit
        BY Zenon, <1>1, <3>3, DecideBounds
      <4>2. /\ \A o \in Outputs : cap[o] \in Nat \ {0}
            /\ kind \in {"zip", "list"} => cap["data"] >= Conservative
        BY Zenon, <4>1 DEF BufferInv, CapacityBounded
      <4> QED
        BY <2>1, <3>1, <4>1, <4>2 DEF CapacityBounded
    <3> QED
      BY Zenon, <1>1, <3>2, <3>3, DecideBounds
  <2> QED
    BY Zenon, <2>1, <2>2, <2>3 DEF BufferInv
<1>2. CASE DriverRefuses
  BY Zenon, <1>2 DEF DriverRefuses, call, BufferInv, CapacityBounded
<1>3. CASE Leave
  BY <1>3 DEF Leave, BufferInv, CapacityBounded, Nothing, Smallest, NoReply
<1>4. CASE UNCHANGED vars
  BY Zenon, <1>4 DEF vars, BufferInv, CapacityBounded, OutputBufferLimit
<1> QED
  BY Zenon, <1>1, <1>2, <1>3, <1>4, StartBounds, AnswerBounds DEF Next, Step

\* Every reachable state satisfies BufferInv.
LEMMA BufferInvariance == Spec => []BufferInv
BY BufferInit, BufferInductive, PTL DEF Spec

-----------------------------------------------------------------------------
\* No native call gets a buffer above the hard limit, and list and ZIP calls
\* get at least the safety capacity.
THEOREM Bounded == Spec => []CapacityBounded
<1>1. BufferInv => CapacityBounded
  BY Zenon DEF BufferInv
<1> QED
  BY BufferInvariance, <1>1, PTL

\* Each retry enlarges some buffer and shrinks none, so no call is retried more
\* often than its buffers have bytes to grow by.
THEOREM Growth == Spec => [][RetryGrows]_vars
<1>1. BufferInv /\ [Next]_vars => [RetryGrows]_vars
  <2> SUFFICES ASSUME BufferInv, Next, phase = "decide", phase' = "call" PROVE RetryGrows
    BY Zenon DEF RetryGrows
  <2>1. DecideBuffer \/ DecideList \/ DecideOutputs
    BY DEF Next, Step, Start, BeginBuffer, BeginSign, BeginZip, BeginList, BeginVerify,
           BeginValidate, Begin, Reject, NativeCall, DriverRefuses, Leave
  <2>2. /\ cap' # cap /\ cap' \in [Outputs -> Nat \ {0}] /\ cap \in [Outputs -> Nat \ {0}]
        /\ \A o \in Outputs : cap'[o] \in cap[o]..OutputBufferLimit
    BY Zenon, <2>1, DecideBounds DEF BufferInv
  <2>3. \E o \in Outputs : cap'[o] # cap[o]
    BY <2>2
  <2> QED
    BY <2>2, <2>3, LimitBounds DEF BufferInv, RetryGrows
<1> QED
  BY BufferInvariance, <1>1, PTL DEF Spec

\* Both: the loops of buffer.go, verify.go and x509.go end.
THEOREM GrowthBounded == Spec => GrowsWithinLimit
BY Bounded, Growth, PTL DEF GrowsWithinLimit

-----------------------------------------------------------------------------
(* What the results say.                                                   *)

\* Which outputs an operation consumes, and what is left between calls.
ShapeInv ==
  /\ kind \in Kinds /\ phase \in {"idle", "call", "decide", "returned"}
  /\ phase # "returned" => result = NoResult
  /\ phase = "idle" => reply = NoReply
  /\ phase \in {"call", "decide"} =>
       /\ active # {} /\ active \subseteq Outputs /\ saturated \subseteq active
       /\ kind \in Loops => active = {"data"} /\ saturated = {}
       /\ kind = "list" => active = {"data"} /\ saturated = {"data"}

\* What the status, the lengths, the bytes and the error slot of the latest
\* attempt have to do with what the SDK had to write.
ReplyInv ==
  phase = "decide" =>
    /\ reply.code \in Codes /\ last \in Codes
    /\ reply.failed <=> last = "Failed"
    /\ reply.code = "Failed" => reply.failed
    /\ reply.code = "OK" => last # "TooSmall" /\ (reply.failed => kind \in {"sign", "verify"})
    /\ \A o \in active :
         /\ kind # "list" => reply.got[o] = Larger(0, Smaller(reply.len[o], cap[o]))
         /\ kind = "list" => reply.got[o] = Smaller(need[o], cap[o]) /\ reply.len[o] >= 0
         /\ reply.len[o] > cap[o] => reply.len[o] = need[o]
    /\ reply.code = "TooSmall" =>
         \/ \A o \in active : reply.len[o] = -1
         \/ /\ ~Fits
            /\ \/ \A o \in active : reply.len[o] = need[o]
               \/ \A o \in active : reply.len[o] = cap[o]
               \/ \A o \in active : reply.len[o] = 0
    /\ reply.code = "OK" /\ ~reply.failed =>
         \/ \A o \in active : reply.len[o] = -1
         \/ \A o \in active : reply.len[o] = need[o]
         \/ /\ ~Fits
            /\ \A o \in active : reply.len[o] = Smaller(need[o], cap[o])
            /\ \A o \in active \ saturated : need[o] <= cap[o]

ResultInv == ShapeInv /\ ReplyInv /\ ResultIsTrue /\ LimitErrorJustified

\* Nothing was called.
LEMMA ResultInit == Init => ResultInv
BY DEF Init, ResultInv, ShapeInv, ReplyInv, ResultIsTrue, LimitErrorJustified, NoResult, Kinds,
       Loops

\* An operation starts without a result of an earlier one, or is refused because
\* its first buffer would exceed the limit.
LEMMA ResultStart ==
  ASSUME BufferInv, ResultInv, Start
  PROVE  ResultInv'
<1> PICK n \in [Outputs -> Needs] :
      \/ BeginBuffer(n) \/ BeginSign(n) \/ BeginZip(n) \/ BeginList(n)
      \/ BeginVerify(n) \/ BeginValidate(n)
  BY Zenon DEF Start
<1>1. config \in Configs /\ OutputBufferLimit \in Nat /\ Conservative \in Nat
  BY LimitBounds, SizeAssumption DEF BufferInv
<1>2. ASSUME NEW k \in Kinds, NEW acts \in SUBSET Outputs, NEW sats \in SUBSET acts, NEW h, NEW caps,
             acts # {},
             k \in Loops => acts = {"data"} /\ sats = {},
             k = "list" => acts = {"data"} /\ sats = {"data"},
             Begin(k, acts, sats, h, n, caps)
      PROVE  ResultInv'
  <2>1. result' = NoResult /\ phase' = "call" /\ kind' = k /\ active' = acts /\ saturated' = sats
    BY Zenon, <1>2 DEF Begin, ResultInv, ShapeInv
  <2>2. ShapeInv'
    BY Zenon, <1>2, <2>1 DEF ShapeInv
  <2>3. ReplyInv' /\ ResultIsTrue' /\ LimitErrorJustified'
    BY Zenon, <2>1 DEF ReplyInv, ResultIsTrue, LimitErrorJustified, NoResult
  <2> QED
    BY Zenon, <2>2, <2>3 DEF ResultInv
<1>3. ASSUME NEW k \in {"zip", "list"}, NEW size \in Nat, size > OutputBufferLimit,
             Reject(k, {"data"}, size)
      PROVE  ResultInv'
  <2>1. OutputBufferLimit' = OutputBufferLimit
    BY Zenon, <1>3 DEF Reject, OutputBufferLimit
  <2> QED
    BY Zenon, <1>3, <2>1 DEF Reject, ResultInv, ShapeInv, ReplyInv, ResultIsTrue, LimitErrorJustified,
                      Kinds, Loops
<1>4. CASE BeginBuffer(n) \/ BeginSign(n)
  BY Zenon, <1>2, <1>4 DEF BeginBuffer, BeginSign, Kinds, Loops, Outputs
<1>5. CASE BeginZip(n)
  <2>1. CASE config.maxBufferSize > 0 /\ config.maxBufferSize < Conservative
    <3>1. Conservative > OutputBufferLimit
      BY <1>1, <2>1, SizeAssumption DEF OutputBufferLimit, Smaller
    <3>2. Reject("zip", {"data"}, Conservative)
      BY Zenon, <1>5, <2>1 DEF BeginZip
    <3> QED
      BY Zenon, <1>1, <1>3, <3>1, <3>2
  <2>2. CASE ~(config.maxBufferSize > 0 /\ config.maxBufferSize < Conservative)
    BY Zenon, <1>2, <1>5, <2>2 DEF BeginZip, Kinds, Loops, Outputs
  <2> QED
    BY Zenon, <2>1, <2>2
<1>6. CASE BeginList(n)
  <2> DEFINE size == NormalizeConfiguredBufferSize(config.listBufferSize, DefaultList)
  <2>1. size \in Nat
    BY Zenon, <1>1, SizeAssumption DEF NormalizeConfiguredBufferSize, Larger
  <2>2. \/ size > OutputBufferLimit /\ Reject("list", {"data"}, size)
        \/ Begin("list", {"data"}, {"data"}, 0, n, Only(size))
    BY Zenon, <1>6 DEF BeginList
  <2> HIDE DEF size
  <2> QED
    BY Zenon, <1>2, <1>3, <2>1, <2>2 DEF Kinds, Loops, Outputs
<1>7. CASE BeginVerify(n)
  <2>1. PICK decoded \in BOOLEAN :
          \E h, caps :
            Begin("verify", IF decoded THEN Outputs ELSE Outputs \ {"data"},
                  IF decoded THEN {"data"} ELSE {}, h, n, caps)
    BY Zenon, <1>7 DEF BeginVerify
  <2> QED
    BY <1>2, <2>1 DEF Kinds, Loops, Outputs
<1>8. CASE BeginValidate(n)
  <2>1. PICK returnOCSP \in BOOLEAN :
          \E caps :
            Begin("validate", IF returnOCSP THEN {"info", "cert"} ELSE {"info"}, {}, 0, n, caps)
    BY Zenon, <1>8 DEF BeginValidate
  <2> QED
    BY Zenon, <1>2, <2>1 DEF Kinds, Loops, Outputs
<1> QED
  BY Zenon, <1>4, <1>5, <1>6, <1>7, <1>8

\* Every answer of the SDK is one that ReplyInv describes.
LEMMA ResultAnswer ==
  ASSUME BufferInv, ResultInv, NativeCall
  PROVE  ResultInv'
<1>1. /\ need \in [Outputs -> Nat] /\ cap \in [Outputs -> Nat \ {0}]
      /\ active \subseteq Outputs /\ active # {}
      /\ UNCHANGED <<config, kind, active, saturated, need, cap, result>>
      /\ phase = "call" /\ phase' = "decide" /\ result = NoResult
  BY Zenon DEF BufferInv, ResultInv, ShapeInv, NativeCall, call
<1>2. ShapeInv' /\ ResultIsTrue' /\ LimitErrorJustified'
  BY Zenon, <1>1 DEF ResultInv, ShapeInv, ResultIsTrue, LimitErrorJustified, NoResult
<1> SUFFICES ReplyInv'
  BY Zenon, <1>2 DEF ResultInv
<1>3. Fits' <=> Fits
  BY Zenon, <1>1 DEF Fits
<1>4. ASSUME NEW code \in Codes, NEW len \in [Outputs -> Int], NEW slot \in Codes,
             Answer(code, len, slot)
      PROVE  /\ reply'.code = code /\ last' = slot /\ (reply'.failed <=> slot = "Failed")
             /\ \A o \in active :
                  /\ reply'.len[o] = len[o]
                  /\ kind # "list" => reply'.got[o] = Larger(0, Smaller(len[o], cap[o]))
                  /\ kind = "list" => reply'.got[o] = Smaller(need[o], cap[o])
  BY Zenon, <1>1, <1>4 DEF Answer, ClearedError, Written
<1>5. CASE Delivers
  BY <1>1, <1>3, <1>4, <1>5 DEF Delivers, ReplyInv, Codes
<1>6. CASE SaysTooSmall
  BY <1>1, <1>3, <1>4, <1>6 DEF SaysTooSmall, ReplyInv, Codes, Nothing
<1>7. CASE OverReports
  BY <1>1, <1>3, <1>4, <1>7 DEF OverReports, ReplyInv, Codes
<1>8. CASE Truncates
  BY <1>1, <1>3, <1>4, <1>8 DEF Truncates, ReplyInv, Codes, Written, Smaller
<1>9. CASE Fails \/ FailsSilently
  BY <1>1, <1>4, <1>9 DEF Fails, FailsSilently, ReplyInv, Codes
<1>10. CASE ReportsNegative
  BY <1>1, <1>4, <1>10 DEF ReportsNegative, ReplyInv, Codes
<1>11. SDKAnswers
  BY Zenon DEF NativeCall
<1> QED
  BY Zenon, <1>5, <1>6, <1>7, <1>8, <1>9, <1>10, <1>11 DEF SDKAnswers

\* A buffer that cannot grow is at the limit, and its next byte is beyond it.
LEMMA StuckAtLimit ==
  ASSUME config \in Configs, NEW c \in Nat \ {0}, c <= OutputBufferLimit, NEW r \in Int,
         GrowCapacity(c, r) = c
  PROVE  /\ c = OutputBufferLimit
         /\ \A len \in Int : len <= OutputBufferLimit =>
              MinimumOutputGrowth(c, len) = OutputBufferLimit + 1
<1>1. OutputBufferLimit \in Nat
  BY LimitBounds, SizeAssumption
<1>2. ~(c < OutputBufferLimit)
  BY GrowBounds
<1> QED
  BY <1>1, <1>2 DEF MinimumOutputGrowth

\* The loops read the answer correctly.
LEMMA ResultDecide ==
  ASSUME BufferInv, ResultInv, DecideBuffer \/ DecideList \/ DecideOutputs
  PROVE  ResultInv'
<1>1. /\ phase = "decide" /\ UNCHANGED <<config, kind, active, saturated, need, reply>>
      /\ OutputBufferLimit' = OutputBufferLimit
  BY Zenon, DecideBounds DEF call, OutputBufferLimit
<1>2. /\ config \in Configs /\ OutputBufferLimit \in Nat
      /\ need \in [Outputs -> Nat] /\ cap \in [Outputs -> Nat \ {0}]
      /\ reply.len \in [Outputs -> Int] /\ hint \in Nat
      /\ \A o \in Outputs : cap[o] <= OutputBufferLimit
  BY <1>1, LimitBounds DEF BufferInv, CapacityBounded
<1>3. ASSUME NEW caps, Retry(caps) PROVE ResultInv'
  BY Zenon, <1>1, <1>3 DEF Retry, ResultInv, ShapeInv, ReplyInv, ResultIsTrue, LimitErrorJustified, NoResult
<1>4. ASSUME Return("length", 0) PROVE ResultInv'
  BY Zenon, <1>1, <1>4 DEF Return, ResultInv, ShapeInv, ReplyInv, ResultIsTrue, LimitErrorJustified
<1>5. ASSUME Return("native", 0), reply.failed PROVE ResultInv'
  BY Zenon, <1>1, <1>5 DEF Return, ResultInv, ShapeInv, ReplyInv, ResultIsTrue, LimitErrorJustified
<1>6. ASSUME Return("ok", 0), ~reply.failed, \A o \in active : reply.got[o] = need[o]
      PROVE  ResultInv'
  BY Zenon, <1>1, <1>6 DEF Return, ResultInv, ShapeInv, ReplyInv, ResultIsTrue, LimitErrorJustified
<1>7. ASSUME NEW r \in Int, Return("limit", r), r > OutputBufferLimit,
             \/ \E o \in active : need[o] > OutputBufferLimit
             \/ \E o \in saturated : need[o] = OutputBufferLimit
      PROVE  ResultInv'
  BY Zenon, <1>1, <1>7 DEF Return, ResultInv, ShapeInv, ReplyInv, ResultIsTrue, LimitErrorJustified
<1>8. /\ Code \in Codes
      /\ Code = "OK" => reply.code = "OK" /\ (reply.failed => kind = "verify")
      /\ Code = "TooSmall" => reply.code = "TooSmall"
      /\ Code = "Failed" => reply.failed
  BY Zenon, <1>1 DEF Code, ResultInv, ReplyInv, Codes
<1>9. CASE DecideBuffer
  <2> DEFINE len == reply.len["data"]
             size == cap["data"]
             newSize == GrowCapacity(size, len)
  <2>1. /\ kind \in Loops /\ kind \notin {"list", "verify"}
        /\ active = {"data"} /\ saturated = {} /\ "data" \in Outputs
    BY Zenon, <1>1, <1>9 DEF DecideBuffer, ResultInv, ShapeInv, Loops, Outputs
  <2>2. /\ len \in Int /\ size \in Nat \ {0} /\ size <= OutputBufferLimit /\ need["data"] \in Nat
        /\ reply.got["data"] = Larger(0, Smaller(len, size))
        /\ len > size => len = need["data"]
        /\ Fits <=> need["data"] <= size
    BY Zenon, <1>1, <1>2, <2>1 DEF ResultInv, ReplyInv, Fits
  <2>3. CASE len < 0
    BY <1>4, <1>9, <2>2, <2>3 DEF DecideBuffer
  <2>4. CASE len >= 0 /\ ShouldRetryOutput
    <3>1. Code = "TooSmall" => need["data"] > size
      BY <1>1, <1>8, <2>1, <2>2, <2>4 DEF ResultInv, ReplyInv
    <3>2. need["data"] > size
      BY Zenon, <2>2, <2>4, <3>1 DEF ShouldRetryOutput
    <3>3. CASE len > OutputBufferLimit
      <4>1. ~(len < 0) /\ ~(len <= OutputBufferLimit) /\ need["data"] > OutputBufferLimit
        BY <1>2, <2>2, <3>3
      <4>2. Return("limit", len)
        BY Zenon, <1>9, <2>4, <4>1 DEF DecideBuffer
      <4> QED
        BY Zenon, <1>7, <2>1, <2>2, <3>3, <4>1, <4>2
    <3>4. CASE len <= OutputBufferLimit /\ newSize # size
      <4>1. ~(len < 0) /\ ~(len > OutputBufferLimit)
        BY <1>2, <2>2, <2>4, <3>4
      <4> QED
        BY Zenon, <1>3, <1>9, <2>4, <3>4, <4>1 DEF DecideBuffer
    <3>5. CASE len <= OutputBufferLimit /\ newSize = size
      <4>1. size = OutputBufferLimit /\ MinimumOutputGrowth(size, len) = OutputBufferLimit + 1
        BY Zenon, <1>2, <2>2, <3>5, StuckAtLimit
      <4>2. ~(len < 0) /\ ~(len > OutputBufferLimit)
        BY <1>2, <2>2, <2>4, <3>5
      <4>3. Return("limit", MinimumOutputGrowth(size, len))
        BY Zenon, <1>9, <2>4, <3>5, <4>2 DEF DecideBuffer
      <4> QED
        BY <1>2, <1>7, <2>1, <3>2, <4>1, <4>3
    <3> QED
      BY <1>2, <2>2, <3>3, <3>4, <3>5
  <2>5. CASE len >= 0 /\ ~ShouldRetryOutput
    <3>1. Code = "OK" => ~reply.failed /\ reply.got["data"] = need["data"]
      <4> SUFFICES ASSUME Code = "OK" PROVE ~reply.failed /\ reply.got["data"] = need["data"]
        BY Zenon
      <4>1. reply.code = "OK" /\ ~reply.failed /\ ~(len > size)
        BY Zenon, <1>8, <2>1, <2>5 DEF ShouldRetryOutput
      <4>2. len = -1 \/ len = need["data"] \/ (~Fits /\ need["data"] <= size)
        BY Zenon, <1>1, <2>1, <4>1 DEF ResultInv, ReplyInv
      <4>3. len = need["data"]
        BY <2>2, <2>5, <4>2
      <4> QED
        BY <2>2, <2>5, <4>1, <4>3 DEF Larger, Smaller
    <3>2. Code # "OK" => reply.failed
      BY Zenon, <1>8, <2>5 DEF ShouldRetryOutput, Codes
    <3> QED
      BY Zenon, <1>4, <1>5, <1>6, <1>9, <2>1, <2>2, <2>5, <3>1, <3>2 DEF DecideBuffer
  <2> QED
    BY <2>2, <2>3, <2>4, <2>5
<1>10. CASE DecideList
  <2> DEFINE size == cap["data"]
             full == Code = "TooSmall" \/ (Code = "OK" /\ reply.got["data"] = size)
             newSize == GrowCapacity(size, 0)
  <2>1. /\ kind = "list" /\ active = {"data"} /\ saturated = {"data"} /\ "data" \in Outputs
    BY Zenon, <1>1, <1>10 DEF DecideList, ResultInv, ShapeInv, Outputs
  <2>2. /\ size \in Nat \ {0} /\ size <= OutputBufferLimit /\ need["data"] \in Nat
        /\ reply.got["data"] = Smaller(need["data"], size) /\ reply.len["data"] >= 0
        /\ Fits <=> need["data"] < size
    BY Zenon, <1>1, <1>2, <2>1 DEF ResultInv, ReplyInv, Fits
  <2>3. full => need["data"] >= size
    BY <1>1, <1>8, <2>1, <2>2 DEF ResultInv, ReplyInv, Smaller
  <2>4. CASE full /\ newSize # size
    BY Zenon, <1>3, <1>10, <2>4 DEF DecideList
  <2>5. CASE full /\ newSize = size
    <3>1. size = OutputBufferLimit /\ MinimumOutputGrowth(size, 0) = OutputBufferLimit + 1
      BY <1>2, <2>2, <2>5, StuckAtLimit
    <3>2. Return("limit", MinimumOutputGrowth(size, 0))
      BY Zenon, <1>10, <2>5 DEF DecideList
    <3> QED
      BY <1>2, <1>7, <2>1, <2>2, <2>3, <2>5, <3>1, <3>2
  <2>6. CASE ~full
    <3>1. Code = "OK" => ~reply.failed /\ reply.got["data"] = need["data"]
      BY Zenon, <1>8, <2>1, <2>2, <2>6 DEF Smaller
    <3>2. Code # "OK" => reply.failed
      BY Zenon, <1>8, <2>6 DEF Codes
    <3> QED
      BY Zenon, <1>5, <1>6, <1>10, <2>1, <2>6, <3>1, <3>2 DEF DecideList
  <2> QED
    BY Zenon, <2>4, <2>5, <2>6
<1>11. CASE DecideOutputs
  <2> DEFINE silent == kind = "verify" /\ Code = "OK" /\ last # "OK"
             negative == \E o \in active : reply.len[o] < 0
             short == \E o \in active : reply.got[o] # reply.len[o]
  <2>1. /\ kind \in {"verify", "validate"} /\ kind # "list"
        /\ active # {} /\ active \subseteq Outputs /\ saturated \subseteq active
    BY Zenon, <1>1, <1>11 DEF DecideOutputs, ResultInv, ShapeInv
  <2>2. /\ \A o \in active :
             /\ need[o] \in Nat /\ cap[o] \in Nat \ {0} /\ cap[o] <= OutputBufferLimit
             /\ reply.len[o] \in Int
             /\ reply.len[o] > cap[o] => reply.len[o] = need[o]
        /\ Fits <=> \A o \in active : need[o] <= cap[o]
    BY Zenon, <1>1, <1>2, <2>1 DEF ResultInv, ReplyInv, Fits
  <2>3. CASE silent
    <3>1. reply.failed
      BY Zenon, <1>1, <1>8, <2>3 DEF ResultInv, ReplyInv, Codes
    <3> QED
      BY Zenon, <1>5, <1>11, <2>3, <3>1 DEF DecideOutputs
  <2>4. CASE ~silent /\ negative
    BY Zenon, <1>4, <1>11, <2>4 DEF DecideOutputs
  <2>5. CASE ~silent /\ ~negative /\ ~ShouldRetryOutputs
    <3>1. Code # "OK" => reply.failed
      BY Zenon, <1>8, <2>5 DEF ShouldRetryOutputs, Codes
    <3>2. Code = "OK" => ~reply.failed
      BY Zenon, <1>1, <1>8, <2>5 DEF ResultInv, ReplyInv
    <3>3. Code = "OK" /\ ~short => \A o \in active : reply.got[o] = need[o]
      <4> SUFFICES ASSUME Code = "OK", ~short PROVE \A o \in active : reply.len[o] = need[o]
        BY Zenon
      <4>1. \A o \in active : ~(reply.len[o] > cap[o]) /\ ~(o \in saturated /\ reply.len[o] = cap[o])
        BY Zenon, <2>5 DEF ShouldRetryOutputs
      <4>2. \/ \A o \in active : reply.len[o] = -1
            \/ \A o \in active : reply.len[o] = need[o]
            \/ /\ ~Fits
               /\ \A o \in active : reply.len[o] = Smaller(need[o], cap[o])
               /\ \A o \in active \ saturated : need[o] <= cap[o]
        BY Zenon, <1>1, <1>8, <3>2 DEF ResultInv, ReplyInv
      <4> QED
        BY <2>1, <2>2, <2>5, <4>1, <4>2 DEF Smaller
    <3> QED
      BY Zenon, <1>4, <1>5, <1>6, <1>11, <2>5, <3>1, <3>2, <3>3 DEF DecideOutputs
  <2>6. CASE ~silent /\ ~negative /\ ShouldRetryOutputs
    <3> DEFINE over == {o \in Grow : reply.len[o] > OutputBufferLimit}
               asked == {Larger(reply.len[o], MinimumOutputGrowth(cap[o], reply.len[o])) : o \in Grow}
    <3>1. Grow \subseteq active /\ \A o \in active : OutputNeedsGrowth(o) => o \in Grow
      BY Zenon DEF Grow
    <3>2. \E o \in Grow : need[o] > cap[o] \/ (o \in saturated /\ need[o] >= cap[o])
      <4>1. CASE Code = "TooSmall"
        <5>1. reply.code = "TooSmall" /\ ~negative
          BY Zenon, <1>8, <2>6, <4>1
        <5>2. PICK o \in active : need[o] > cap[o]
          BY <1>1, <2>1, <2>2, <5>1 DEF ResultInv, ReplyInv
        <5>3. \/ \A p \in active : reply.len[p] = need[p]
              \/ \A p \in active : reply.len[p] = cap[p]
              \/ \A p \in active : reply.len[p] = 0
          BY <1>1, <2>1, <2>2, <5>1 DEF ResultInv, ReplyInv
        <5>4. o \in Grow
          <6>1. CASE reply.len[o] >= cap[o]
            BY Zenon, <3>1, <4>1, <6>1 DEF OutputNeedsGrowth
          <6>2. CASE \A p \in active : reply.len[p] = 0
            BY <2>2, <4>1, <6>2 DEF Grow, OutputNeedsGrowth
          <6> QED
            BY <2>2, <5>2, <5>3, <6>1, <6>2
        <5> QED
          BY Zenon, <5>2, <5>4
      <4>2. CASE Code = "OK"
        <5>1. PICK o \in active : reply.len[o] > cap[o] \/ (o \in saturated /\ reply.len[o] = cap[o])
          BY Zenon, <2>6, <4>2 DEF ShouldRetryOutputs
        <5>2. o \in Grow
          BY Zenon, <3>1, <4>2, <5>1 DEF OutputNeedsGrowth
        <5>3. ~reply.failed
          BY Zenon, <1>1, <1>8, <2>6, <4>2 DEF ResultInv, ReplyInv
        <5>4. reply.len[o] = need[o] \/ reply.len[o] = Smaller(need[o], cap[o])
          BY <1>1, <1>8, <2>2, <2>6, <4>2, <5>3 DEF ResultInv, ReplyInv
        <5> QED
          BY <2>2, <5>1, <5>2, <5>4 DEF Smaller
      <4> QED
        BY Zenon, <2>6, <4>1, <4>2 DEF ShouldRetryOutputs
    <3>3. \/ over # {} /\ Return("limit", reply.len[First(over)])
          \/ over = {} /\ NextCapacities # cap /\ Retry(NextCapacities)
          \/ over = {} /\ NextCapacities = cap /\ Return("limit", Max(asked))
      BY Zenon, <1>11, <2>6 DEF DecideOutputs, GrowOutputs
    <3>4. CASE over # {} /\ Return("limit", reply.len[First(over)])
      <4> DEFINE first == First(over)
      <4>1. first \in over
        BY Zenon, <2>1, <3>1, <3>4 DEF First, Outputs
      <4>2. Return("limit", reply.len[first])
        BY Zenon, <3>4
      <4> HIDE DEF first
      <4>3. first \in active /\ reply.len[first] > OutputBufferLimit
        BY Zenon, <3>1, <4>1
      <4>4. reply.len[first] \in Int /\ need[first] > OutputBufferLimit
        BY <1>2, <2>2, <4>3
      <4> QED
        BY Zenon, <1>2, <1>7, <4>2, <4>3, <4>4
    <3>5. CASE over = {} /\ NextCapacities = cap /\ Return("limit", Max(asked))
      <4>1. \A o \in Grow : /\ cap[o] = OutputBufferLimit
                            /\ MinimumOutputGrowth(cap[o], reply.len[o]) = OutputBufferLimit + 1
                            /\ reply.len[o] <= OutputBufferLimit
        <5> TAKE o \in Grow
        <5>1. o \in Outputs /\ o \in active /\ reply.len[o] <= OutputBufferLimit
          BY <1>2, <2>1, <2>2, <3>1, <3>5
        <5>2. GrowCapacity(cap[o], Required(o)) = cap[o]
          BY Zenon, <3>5, <5>1 DEF NextCapacities
        <5>3. Required(o) \in Int
          BY <1>2, <5>1 DEF Required, Larger
        <5> QED
          BY Zenon, <1>2, <2>2, <5>1, <5>2, <5>3, StuckAtLimit
      <4>2. asked = {OutputBufferLimit + 1}
        BY <1>2, <2>2, <3>1, <3>2, <4>1 DEF Larger
      <4>3. Max(asked) = OutputBufferLimit + 1
        BY <1>2, <4>2 DEF Max
      <4>4. \/ \E o \in active : need[o] > OutputBufferLimit
            \/ \E o \in saturated : need[o] = OutputBufferLimit
        BY <1>2, <2>2, <3>1, <3>2, <4>1
      <4> QED
        BY <1>2, <1>7, <3>5, <4>3, <4>4
    <3> QED
      BY Zenon, <1>3, <3>3, <3>4, <3>5
  <2> QED
    BY Zenon, <2>3, <2>4, <2>5, <2>6
<1> QED
  BY Zenon, <1>9, <1>10, <1>11

\* Every reachable state satisfies ResultInv.
LEMMA ResultInvariance == Spec => []ResultInv
<1>1. BufferInv /\ ResultInv /\ [Next]_vars => ResultInv'
  <2> SUFFICES ASSUME BufferInv, ResultInv, [Next]_vars PROVE ResultInv'
    BY Zenon
  <2>1. CASE DriverRefuses
    BY Zenon, <2>1 DEF DriverRefuses, call, ResultInv, ShapeInv, ReplyInv, ResultIsTrue,
                       LimitErrorJustified
  <2>2. CASE Leave
    BY <2>2 DEF Leave, ResultInv, ShapeInv, ReplyInv, ResultIsTrue, LimitErrorJustified, NoResult,
                Kinds, Loops
  <2>3. CASE UNCHANGED vars
    <3>1. ShapeInv'
      BY Zenon, <2>3 DEF vars, ResultInv, ShapeInv
    <3>2. Fits' <=> Fits
      BY Zenon, <2>3 DEF vars, Fits
    <3>3. ReplyInv'
      BY Zenon, <2>3, <3>2 DEF vars, ResultInv, ReplyInv
    <3>4. ResultIsTrue' /\ LimitErrorJustified'
      BY Zenon, <2>3 DEF vars, ResultInv, ResultIsTrue, LimitErrorJustified, OutputBufferLimit
    <3> QED
      BY Zenon, <3>1, <3>3, <3>4 DEF ResultInv
  <2> QED
    BY Zenon, <2>1, <2>2, <2>3, ResultStart, ResultAnswer, ResultDecide DEF Next, Step
<1> QED
  BY ResultInit, BufferInvariance, <1>1, PTL DEF Spec

\* Whatever the sizes, the configuration and the answers of the SDK: a success
\* delivers every output whole, and a failure is the failure of this call.
THEOREM ResultsAreTrue == Spec => []ResultIsTrue
<1>1. ResultInv => ResultIsTrue
  BY Zenon DEF ResultInv
<1> QED
  BY ResultInvariance, <1>1, PTL

\* A limit error is returned only for an output that needs more than the limit,
\* or cannot be told complete at it.
THEOREM LimitsAreJustified == Spec => []LimitErrorJustified
<1>1. ResultInv => LimitErrorJustified
  BY Zenon DEF ResultInv
<1> QED
  BY ResultInvariance, <1>1, PTL
=============================================================================
