CONSTANTS
  Threads = {t1, t2}
  Certs = {c1}
  Proxies = {p1}
  NoProxy = NoProxy
  NoArg = NoArg
  Ops <- Operations
  Properties = 2
SPECIFICATION FairSpec
PROPERTIES CallsReturn ImplementsFairSession
