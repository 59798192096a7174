SPECIFICATION Spec
CONSTANTS
  s1 = s1
  s2 = s2
  s3 = s3
  c1 = c1
  c2 = c2
  Signers = {s1, s2, s3}
  Clients = {c1, c2}
  Settings <- MCSettings
  Nobody = Nobody
INVARIANTS PublishedIsWhole ReportedIsOwn
PROPERTY AtomicNeverReplaces
SYMMETRY Symmetry
