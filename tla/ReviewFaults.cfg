\* SE faults, power loss at any time, a reply that malloc denies.
SPECIFICATION Spec
CONSTANTS
  Inputs <- TheInputs
  MaxInputs = 4
  SeFaults = {"derive", "sign", "delete"}
  PowerFails = TRUE
  HeapFails = TRUE
  HostTxs <- TheTxs
  Demo <- TheDemo
  None = None
  Cosigner = Cosigner
INVARIANTS
  ReviewTypeOK
  SelectionIsOwned
  ConfirmedBeforeSigning
  KeyFitsInput
  FailureReturnsNothing
  SuccessIsComplete
PROPERTY SignedAsAsked
