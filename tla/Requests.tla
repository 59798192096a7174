------------------------------ MODULE Requests ------------------------------
(***************************************************************************)
(* From the request of a caller to the arguments of the native call: SignCMS *)
(* and VerifyCMS (cms.go), Hash and SignHash (hash.go), the flags of the XML  *)
(* operations (xml.go), sources (source.go), and what ckalkan derives from    *)
(* the flags it is given: the first output capacities and whether decoded     *)
(* data is an output.  A flag is a set of bit numbers of the native mask.     *)
(***************************************************************************)
EXTENDS OutputEstimate, FiniteSets

CONSTANTS Inputs,          \* the requests that are made
          maxInputSize,    \* WithMaxInputSize; 0 for none
          OutputLimit,     \* outputBufferLimit of the client
          maxSignerID,
          SOAPOverhead     \* what wrapSOAPBody puts around a document

ASSUME RequestAssumption ==
  /\ {maxInputSize, maxSignerID, SOAPOverhead} \subseteq Nat
  /\ OutputLimit \in 1..maxNativeOutputBufferSize

VARIABLE operation         \* the request, and the native call made for it

requestVars == <<operation>>

-----------------------------------------------------------------------------
(* ckalkan/constants.go *)

Flag ==
  [SignDraft |-> {0}, SignCMS |-> {1}, InPEM |-> {2}, InDER |-> {3}, InBase64 |-> {4},
   In2Base64 |-> {5}, DetachedData |-> {6}, WithCert |-> {7}, WithTimestamp |-> {8},
   OutPEM |-> {9}, OutDER |-> {10}, OutBase64 |-> {11}, InFile |-> {15},
   NoCheckCertTime |-> {16}]

\* The selectors of XML canonicalization share the low bits.
XMLFlag ==
  [XMLInclC14N |-> {24, 0}, XMLInclC14NComment |-> {24, 1}, XMLInclC14N11 |-> {24, 2},
   XMLInclC14N11Comment |-> {24, 3}, XMLExclC14N |-> {24, 4}, XMLExclC14NComment |-> {24, 5}]

Has(flags, flag) == flags \cap flag # {}

When(condition, flag) == IF condition THEN flag ELSE {}

-----------------------------------------------------------------------------
(* source.go and limits.go *)

SourceEncodings == {"auto", "raw", "base64", "PEM", "DER"}

\* size: the bytes in memory or of the file, if there is one; path: the length
\* of the path, which nul says to hold a NUL byte.
Memory(encoding, size) ==
  [set |-> TRUE, file |-> FALSE, encoding |-> encoding, size |-> size, path |-> 0,
   nul |-> FALSE, exists |-> FALSE]

File(encoding, path, nul, exists, size) ==
  [set |-> TRUE, file |-> TRUE, encoding |-> encoding, size |-> size, path |-> path,
   nul |-> nul, exists |-> exists]

NoSource == [Memory("auto", 0) EXCEPT !.set = FALSE]

effectiveEncoding(source, fallback) ==
  CASE source.encoding # "auto"                         -> source.encoding
    [] source.encoding = "auto" /\ fallback # "auto"    -> fallback
    [] OTHER                                            -> "raw"

validateEncoding(encoding) == encoding \in SourceEncodings

validateMemorySourceSize(source) ==
  maxInputSize > 0 /\ source.set /\ ~source.file => source.size <= maxInputSize

\* validateNativePathString, of a file
bytesOrPath(source) == source.file => source.path > 0 /\ ~source.nul

-----------------------------------------------------------------------------
(* Flags *)

inputFlag(encoding) ==
  CASE encoding = "base64" -> Flag.InBase64
    [] encoding = "PEM"    -> Flag.InPEM
    [] encoding = "DER"    -> Flag.InDER
    [] OTHER               -> {}

OutputFormats == {"DER", "base64", "PEM"}

cmsOutputFlag(format) ==
  CASE format = "DER"    -> Flag.OutDER
    [] format = "base64" -> Flag.OutBase64
    [] format = "PEM"    -> Flag.OutPEM

TimeChecks == {"default", "skip"}

certificateTimeCheckFlag(check) == When(check = "skip", Flag.NoCheckCertTime)

Canonicalizations == DOMAIN XMLFlag

xmlCanonicalizationFlag(canonicalization) == XMLFlag[canonicalization]

-----------------------------------------------------------------------------
(* cms.go, hash.go and xml.go.  nul: a name of the request, such as the      *)
(* alias, holds a NUL byte.                                                  *)

Rejected == [status |-> "rejected"]

Native(function, flags, data, signature) ==
  [status |-> "called", function |-> function, flags |-> flags, data |-> data,
   signature |-> signature]

CommonFlags(req) ==
  cmsOutputFlag(req.format) \cup When(req.timestamp, Flag.WithTimestamp)
    \cup When(req.certificate, Flag.WithCert) \cup certificateTimeCheckFlag(req.check)

SignCMS(req) ==
  IF /\ ~req.nul /\ req.data.set /\ validateEncoding(req.data.encoding)
     /\ validateMemorySourceSize(req.data) /\ bytesOrPath(req.data)
     /\ req.format \in OutputFormats /\ req.check \in TimeChecks
  THEN Native("SignData",
              Flag.SignCMS \cup CommonFlags(req) \cup When(req.detached, Flag.DetachedData)
                \cup When(req.data.file, Flag.InFile)
                \cup inputFlag(effectiveEncoding(req.data, "raw")),
              req.data, NoSource)
  ELSE Rejected

\* The flags of a CMS signature to be verified, or {} for an unknown encoding.
cmsSignatureInput(source, fallback) ==
  CASE effectiveEncoding(source, fallback) \in {"auto", "raw", "DER"} -> Flag.InDER
    [] effectiveEncoding(source, fallback) = "base64"                 -> Flag.InBase64
    [] effectiveEncoding(source, fallback) = "PEM"                    -> Flag.InPEM
    [] OTHER                                                          -> {}

\* Mutant: detached data in base64 is marked like the signature.
cmsDataInputAsSignature(source) ==
  When(source.set /\ effectiveEncoding(source, "raw") = "base64", Flag.InBase64)

cmsDataInput(source) ==
  When(source.set /\ effectiveEncoding(source, "raw") = "base64", Flag.In2Base64)

VerifyCMS(req) ==
  IF /\ ~req.nul /\ validateEncoding(req.encoding)
     /\ req.signerID \in 0..maxSignerID
     /\ req.detached = req.data.set
     /\ req.signature.set /\ validateMemorySourceSize(req.signature) /\ bytesOrPath(req.signature)
     /\ req.signature.file \/ req.signature.size > 0
     /\ cmsSignatureInput(req.signature, req.encoding) # {}
     /\ validateMemorySourceSize(req.data) /\ bytesOrPath(req.data)
     /\ req.data.set => effectiveEncoding(req.data, "raw") \in {"raw", "base64"}
     /\ ~(req.detached /\ req.data.file)
     /\ req.check \in TimeChecks
  THEN Native("VerifyData",
              cmsSignatureInput(req.signature, req.encoding) \cup cmsDataInput(req.data)
                \cup Flag.SignCMS \cup When(req.detached, Flag.DetachedData)
                \cup certificateTimeCheckFlag(req.check) \cup When(req.signature.file, Flag.InFile),
              req.data, req.signature)
  ELSE Rejected

\* digestInfo: the digests the wrapper knows and their sizes.
digestSize == [SHA256 |-> 32, GOST95 |-> 32, GOST2015_256 |-> 32, GOST2015_512 |-> 64]

HashData(req) ==
  IF /\ req.data.set /\ req.algorithm \in DOMAIN digestSize
     /\ validateEncoding(req.data.encoding)
     /\ validateMemorySourceSize(req.data) /\ bytesOrPath(req.data)
  THEN Native("HashData",
              inputFlag(effectiveEncoding(req.data, "raw")) \cup When(req.data.file, Flag.InFile),
              req.data, NoSource)
  ELSE Rejected

SignHash(req) ==
  IF /\ ~req.nul /\ req.data.size > 0 /\ validateMemorySourceSize(req.data)
     /\ req.algorithm \in DOMAIN digestSize
     /\ req.data.size = digestSize[req.algorithm]
     /\ req.format \in OutputFormats /\ req.check \in TimeChecks
  THEN Native("SignHash", Flag.SignCMS \cup CommonFlags(req), req.data, NoSource)
  ELSE Rejected

\* blank: the document is white space.
xmlInput(req) ==
  /\ req.data.set /\ ~req.data.file /\ req.data.encoding \in {"auto", "raw"}
  /\ validateMemorySourceSize(req.data)
  /\ req.data.size > 0 /\ ~req.blank

\* The document given to the library: SignWSSE may put it into an envelope.
XMLDocument(req) ==
  IF req.op = "SignWSSE" /\ req.wrap
  THEN [req.data EXCEPT !.size = @ + SOAPOverhead]
  ELSE req.data

xmlSignatureFlags(req) ==
  xmlCanonicalizationFlag(req.canonicalization) \cup certificateTimeCheckFlag(req.check)

\* SignXML, SignWSSE and VerifyXML; what they ask of identifiers and of the
\* document's structure is in XmlSignature.
XMLOperation(req) ==
  IF /\ ~req.nul /\ xmlInput(req) /\ validateMemorySourceSize(XMLDocument(req))
     /\ req.canonicalization \in Canonicalizations /\ req.check \in TimeChecks
  THEN Native(req.op, xmlSignatureFlags(req), XMLDocument(req), NoSource)
  ELSE Rejected

XMLOperations == {"SignXML", "SignWSSE", "VerifyXML"}

Translate(req) ==
  CASE req.op = "SignCMS"          -> SignCMS(req)
    [] req.op = "VerifyCMS"        -> VerifyCMS(req)
    [] req.op = "Hash"             -> HashData(req)
    [] req.op = "SignHash"         -> SignHash(req)
    [] req.op \in XMLOperations    -> XMLOperation(req)

\* Switches are Boolean, sizes are those of Go slices, files and paths; so is the
\* size of a document with the envelope that is put around it in memory.
SourceValues ==
  [set : BOOLEAN, file : BOOLEAN, encoding : STRING, size : 0..MaxInt64, path : 0..MaxInt64,
   nul : BOOLEAN, exists : BOOLEAN]

ASSUME InputAssumption ==
  \A req \in Inputs :
    /\ req.op \in {"SignCMS", "VerifyCMS", "Hash", "SignHash"} \cup XMLOperations
    /\ req.data \in SourceValues
    /\ req.op \in {"SignCMS", "SignHash"} => {req.timestamp, req.certificate} \subseteq BOOLEAN
    /\ req.op \in {"SignCMS", "VerifyCMS"} => req.detached \in BOOLEAN
    /\ req.op = "VerifyCMS" => req.signature \in SourceValues
    /\ req.op \in XMLOperations => /\ req.wrap \in BOOLEAN
                                   /\ req.wrap => req.op = "SignWSSE"
                                   /\ XMLDocument(req).size <= MaxInt64

-----------------------------------------------------------------------------
(* ckalkan: what is derived from the arguments of the native call           *)

\* A file that cannot be examined counts for as much as its path, which is what
\* the argument holds.
estimateInputSize(source, file) ==
  IF file /\ source.exists THEN source.size
  ELSE IF source.file THEN source.path ELSE source.size

verifyDataReturnsDecodedData(flags) ==
  Has(flags, Flag.SignCMS) /\ ~Has(flags, Flag.DetachedData) /\ ~Has(flags, Flag.InFile)

initialHashOutputCapacity(algorithm, flags) ==
  IF Has(flags, Flag.OutBase64 \cup Flag.OutPEM) THEN 256 ELSE digestSize[algorithm]

\* The content of the container, of a SignData call without an existing signature.
SignDataContent(source, flags) ==
  estimateContent(0, estimateInputSize(source, Has(flags, Flag.InFile)),
                  Has(flags, Flag.InBase64),
                  Has(flags, Flag.SignCMS) /\ ~Has(flags, Flag.DetachedData))

\* The part of the first capacity that depends on the request; OutputBuffer has
\* the rest.
Estimate(req, call) ==
  CASE call.function = "SignData" ->
         estimateSignDataOutput(SignDataContent(call.data, call.flags),
           Has(call.flags, Flag.OutPEM), Has(call.flags, Flag.OutBase64), OutputLimit)
    [] call.function \in {"SignXML", "SignWSSE"} ->
         estimateSignedXMLOutput(call.data.size, OutputLimit)
    [] call.function = "HashData" -> initialHashOutputCapacity(req.algorithm, call.flags)
    [] OTHER -> 0

-----------------------------------------------------------------------------
NoOperation ==
  [pc |-> "idle", request |-> [op |-> "none"], call |-> Rejected, estimate |-> 0,
   decoded |-> FALSE]

Request(req) ==
  LET call == Translate(req)
  IN  operation' =
        [pc |-> "returned", request |-> req, call |-> call,
         estimate |-> IF call = Rejected THEN 0 ELSE Estimate(req, call),
         decoded |-> /\ call # Rejected /\ call.function = "VerifyData"
                     /\ verifyDataReturnsDecodedData(call.flags)]

RequestInit == operation = NoOperation

RequestNext ==
  \/ operation.pc = "idle" /\ \E req \in Inputs : Request(req)
  \/ operation.pc = "returned" /\ operation' = NoOperation

RequestSpec == RequestInit /\ [][RequestNext]_requestVars

-----------------------------------------------------------------------------
(* Properties *)

\* External: what KalkanCrypt makes of the mask, by the comments of constants.go
\* and requests.go.  InFile and the input encodings belong to the signature in
\* VerifyData and to the data everywhere else.
Names(flags, flagOf) == {name \in DOMAIN flagOf : Has(flags, flagOf[name])}

InputNames == [PEM |-> Flag.InPEM, DER |-> Flag.InDER, base64 |-> Flag.InBase64]
OutputNames == [PEM |-> Flag.OutPEM, DER |-> Flag.OutDER, base64 |-> Flag.OutBase64]

Understood(flags) ==
  [cms |-> Has(flags, Flag.SignCMS), draft |-> Has(flags, Flag.SignDraft),
   input |-> Names(flags, InputNames), second |-> Has(flags, Flag.In2Base64),
   file |-> Has(flags, Flag.InFile), detached |-> Has(flags, Flag.DetachedData),
   timestamp |-> Has(flags, Flag.WithTimestamp), certificate |-> Has(flags, Flag.WithCert),
   output |-> Names(flags, OutputNames), skipTime |-> Has(flags, Flag.NoCheckCertTime)]

\* A choice of canonicalization is the one selector whose bits are all set.
UnderstoodXML(flags) ==
  [selectors |-> {s \in Canonicalizations : XMLFlag[s] \subseteq flags},
   skipTime |-> Has(flags, Flag.NoCheckCertTime)]

InputAs(encoding) == IF encoding \in {"PEM", "DER", "base64"} THEN {encoding} ELSE {}

SaysNothing ==
  [cms |-> FALSE, draft |-> FALSE, input |-> {}, second |-> FALSE, file |-> FALSE,
   detached |-> FALSE, timestamp |-> FALSE, certificate |-> FALSE, output |-> {},
   skipTime |-> FALSE]

Asked(req) ==
  CASE req.op = "SignCMS" ->
         [SaysNothing EXCEPT
            !.cms = TRUE, !.input = InputAs(req.data.encoding), !.file = req.data.file,
            !.detached = req.detached, !.timestamp = req.timestamp,
            !.certificate = req.certificate, !.output = {req.format},
            !.skipTime = req.check = "skip"]
    [] req.op = "SignHash" ->
         [SaysNothing EXCEPT
            !.cms = TRUE, !.timestamp = req.timestamp, !.certificate = req.certificate,
            !.output = {req.format}, !.skipTime = req.check = "skip"]
    [] req.op = "Hash" ->
         [SaysNothing EXCEPT !.input = InputAs(req.data.encoding), !.file = req.data.file]
    [] req.op = "VerifyCMS" ->
         [SaysNothing EXCEPT
            !.cms = TRUE,
            !.input = LET e == IF req.signature.encoding = "auto" THEN req.encoding
                               ELSE req.signature.encoding
                      IN  IF e \in {"auto", "raw"} THEN {"DER"} ELSE {e},
            !.second = req.detached /\ req.data.encoding = "base64",
            !.file = req.signature.file, !.detached = req.detached,
            !.skipTime = req.check = "skip"]

\* Whatever of its inputs a caller describes (encoding, file or memory, presence),
\* of the signature and of the checks is what the library finds in the mask: no
\* flag is lost, and none that means something else to this call is set.
RequestSurvives ==
  operation.pc = "returned" /\ operation.call # Rejected =>
    LET req == operation.request
        flags == operation.call.flags
    IN  IF req.op \in XMLOperations
        THEN UnderstoodXML(flags) =
               [selectors |-> {req.canonicalization}, skipTime |-> req.check = "skip"]
        ELSE Understood(flags) = Asked(req)

Content(req) ==
  IF req.detached THEN 0
  ELSE LET size == IF req.data.file /\ ~req.data.exists THEN req.data.path ELSE req.data.size
       IN  IF req.data.encoding = "base64" THEN Base64Content(size) ELSE size

\* The estimate of an output is its size computed from the request without
\* bounds, or the limit: it is never taken from an overflow, from the length of
\* a path instead of its file, from the content of a detached signature or from
\* a flag that means something else.  A digest fits its first buffer exactly,
\* and decoded data is an output exactly if the content is in a signature that
\* was given in memory.
EstimateIsExact ==
  operation.pc = "returned" /\ operation.call # Rejected =>
    LET req == operation.request
    IN  /\ operation.estimate =
             CASE req.op = "SignCMS" ->
                    Minimum(OutputSize(Content(req) + signatureOutputOverhead, req.format = "PEM",
                                       req.format = "base64"), OutputLimit)
               [] req.op \in {"SignXML", "SignWSSE"} ->
                    Minimum(req.data.size + (IF req.wrap THEN SOAPOverhead ELSE 0)
                              + signatureOutputOverhead, OutputLimit)
               [] req.op = "Hash" -> digestSize[req.algorithm]
               [] OTHER -> 0
        /\ operation.decoded =
             (req.op = "VerifyCMS" /\ ~req.detached /\ ~req.signature.file)
=============================================================================
