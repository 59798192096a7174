SPECIFICATION FairSpec
INVARIANTS
  InStep
  BorrowedBytes
PROPERTIES
  FailureIsReal
  CloseResultFinal
  CanceledReturns
  Reaped
CONSTANTS
  Threads = {t1, t2}
  Opener = Opener
  Closer = Closer
  Reaper = Reaper
  Nobody = Nobody
  MaxRequests = 3
