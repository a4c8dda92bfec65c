\* No power loss, signatures that fail: one reply for each PSBT taken up.
SPECIFICATION FairSpec
CONSTANTS
  Inputs <- TheInputs
  MaxInputs = 4
  SeFaults = {"sign"}
  PowerFails = FALSE
  HeapFails = FALSE
  HostTxs <- TheTxs
  Demo <- TheDemo
  None = None
  Cosigner = Cosigner
PROPERTIES
  ServesRequests
INVARIANT ScratchKeyDeleted
