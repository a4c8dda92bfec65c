\* Inputs in the form of BIP 174 and DEMO_PSBT.
SPECIFICATION SignerSpec
CONSTANTS
  Inputs <- StandardInputs
  MaxInputs = 2
  SeFaults = {}
  None = None
  Cosigner = Cosigner
INVARIANT OwnSegwitSigned
CHECK_DEADLOCK FALSE
