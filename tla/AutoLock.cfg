SPECIFICATION Spec
CONSTANTS
  Short = 1
  Saver = 4
  Abandon = 8
  DispMs <- MCDispMs
  LockMs <- MCLockMs
  Forever = 9
  Contrasts = 2
  ContrastStep = 1
  Right = 3
  Bottom = 2
INVARIANTS
  IdleWalletLocks
