SPECIFICATION Spec
CONSTANTS
  MaxMetadata = 450
  MaxBlocks = 30
  MaxDepth = 3
  Sentinels = {"errMetadataTooLarge", "ErrClosed", "Canceled"}
  Messages <- MCMessages
INVARIANTS Delivered TruncationDetected
