--------------------------- MODULE OutputEstimate ---------------------------
(***************************************************************************)
(* The estimates of a signature's size that choose the first output buffer  *)
(* (ckalkan/output_estimate.go).  The arithmetic is done in int64 and        *)
(* saturates one above the largest native buffer.                           *)
(***************************************************************************)
EXTENDS Integers

CONSTANTS MaxInt64,                   \* the largest int64
          maxNativeOutputBufferSize,  \* the largest C int
          signatureOutputOverhead     \* 64 KiB

pemEnvelopeOverhead == 256
pemLineWidth == 64

ASSUME EstimateAssumption ==
  /\ MaxInt64 \in Nat /\ maxNativeOutputBufferSize \in Nat /\ maxNativeOutputBufferSize < MaxInt64
  /\ {signatureOutputOverhead, pemEnvelopeOverhead} \subseteq 0..maxNativeOutputBufferSize

\* The result of an int64 operation: it wraps.
Int64(x) ==
  IF x \in (-MaxInt64 - 1)..MaxInt64 THEN x
  ELSE ((x + MaxInt64 + 1) % (2 * MaxInt64 + 2)) - MaxInt64 - 1

Minimum(a, b) == IF a <= b THEN a ELSE b
Maximum(a, b) == IF a >= b THEN a ELSE b

Limit == Int64(maxNativeOutputBufferSize + 1)

saturatingEstimateMultiply(value, multiplier) ==
  IF value <= 0 \/ multiplier <= 0 THEN 0
  ELSE IF value >= Limit \/ value > Limit \div multiplier THEN Limit
  ELSE Int64(value * multiplier)

\* Mutant: the sum is computed before it is compared, and wraps.
saturatingEstimateAddFirst(left, right) ==
  IF Int64(left + right) > Limit THEN Limit ELSE Int64(left + right)

saturatingEstimateAdd(left, right) ==
  IF left >= Limit \/ right >= Limit \/ left > Int64(Limit - right) THEN Limit
  ELSE Int64(left + right)

ceilPositiveQuotient(value, divisor) ==
  IF value % divisor # 0 THEN Int64((value \div divisor) + 1) ELSE value \div divisor

decodedBase64UpperBound(encoded) ==
  IF encoded <= 0 THEN 0 ELSE saturatingEstimateMultiply(ceilPositiveQuotient(encoded, 4), 3)

base64EncodedEstimate(raw) ==
  IF raw <= 0 THEN 0 ELSE saturatingEstimateMultiply(ceilPositiveQuotient(raw, 3), 4)

pemEncodedEstimate(encoded) ==
  saturatingEstimateAdd(
    saturatingEstimateAdd(encoded,
      saturatingEstimateMultiply(ceilPositiveQuotient(encoded, pemLineWidth), 2)),
    pemEnvelopeOverhead)

\* The flags select the format; OutPEM comes first.
estimateEncodedOutputSize(raw, outPEM, outBase64) ==
  IF outPEM THEN pemEncodedEstimate(base64EncodedEstimate(raw))
  ELSE IF outBase64 THEN base64EncodedEstimate(raw)
  ELSE raw

Decoded(size, inBase64) == IF inBase64 THEN decodedBase64UpperBound(size) ELSE size

\* The content is the larger of an existing signature and the data that goes
\* into the container.
estimateContent(signature, data, inBase64, embedded) ==
  IF embedded THEN Maximum(Decoded(signature, inBase64), Decoded(data, inBase64))
  ELSE Decoded(signature, inBase64)

\* boundedOutputEstimate; the maximum is the client's output limit.
estimateSignDataOutput(content, outPEM, outBase64, maximum) ==
  Minimum(estimateEncodedOutputSize(saturatingEstimateAdd(content, signatureOutputOverhead),
                                    outPEM, outBase64),
          maximum)

estimateSignedXMLOutput(size, maximum) ==
  Minimum(saturatingEstimateAdd(size, signatureOutputOverhead), maximum)

-----------------------------------------------------------------------------
(* The sizes themselves, without bounds *)

Ceiling(value, divisor) == (value + divisor - 1) \div divisor

Base64Size(raw) == 4 * Ceiling(raw, 3)

PEMSize(raw) == Base64Size(raw) + 2 * Ceiling(Base64Size(raw), pemLineWidth) + pemEnvelopeOverhead

OutputSize(raw, outPEM, outBase64) ==
  IF outPEM THEN PEMSize(raw) ELSE IF outBase64 THEN Base64Size(raw) ELSE raw

Base64Content(size) == 3 * Ceiling(size, 4)
=============================================================================
