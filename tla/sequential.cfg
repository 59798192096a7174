SPECIFICATION SequentialSpec
CONSTANTS
  Containers <- SomeContainers
  Documents <- SomeDocuments
  MaxSize = 3
  maxExtractedSignerCertificates = 2
  Growth = 2
  BlockSize = 3
  ByteBits = 2
  Written = {1, 3}
  MaxChunk = 4
  MaxMessage = 7
  Curves <- SmallCurves
  Base = 5
  PointSize = 2
  Points <- AllBytes
  Digests <- AllDigests
  SignatureBytes <- AllBytes
  Inputs <- AllInputs
  maxInputSize = 64
  OutputLimit = 1500
  maxSignerID = 2
  SOAPOverhead = 30
  MaxInt64 = 9000
  maxNativeOutputBufferSize = 2000
  signatureOutputOverhead = 100
INVARIANTS
  SignersAreComplete
  OnlyIdsRemoved
  StreamedIsWhole
  VerifiesTheEquation
  RequestSurvives
  EstimateIsExact
