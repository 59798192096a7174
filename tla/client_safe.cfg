CONSTANTS
  Threads = {t1, t2}
  Certs = {c1, c2}
  Proxies = {p1}
  NoProxy = NoProxy
  NoArg = NoArg
  Ops <- Operations
  Properties = 2
SPECIFICATION Spec
SYMMETRY Symmetry
INVARIANTS NativeAgrees OneTrustPerValidation NativeSerialized ClosedIsClean OneCloseResult
PROPERTIES ImplementsSession
