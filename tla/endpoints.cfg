SPECIFICATION PolicySpec
CONSTANTS
  Policies <- SomePolicies
  URLs <- SomeURLs
  Configured <- OptionURLs
  DefaultTSA <- Default
  DefaultOCSP <- Default
  NoPort = NoPort
  NoPolicy = NoPolicy
  Empty = Empty
INVARIANTS
  ContactsArePermitted
