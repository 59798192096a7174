SPECIFICATION Spec
CONSTANTS
  Drafts <- MCDrafts
  Documents <- MCDocuments
  Items <- MCItems
  Ids <- MCIds
  MaxEdits = 2
  MaxDraftEdits = 1
  MaxInputSize = 12
INVARIANTS
  VerifiedIsDelivered
  SignedIsVerifiable
CHECK_DEADLOCK FALSE
