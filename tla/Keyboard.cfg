SPECIFICATION Spec
CONSTANTS
  Words <- MCWords
  LastLetter = 3
  PrefixMax = 3
  Phrase = 2
  Targets = {3, 6, 8, 9}
INVARIANTS
  KeyboardTypeOK
  CandidatesAreCurrent
PROPERTIES
  OneWordPerPress
  EveryWordCanBeEntered
CHECK_DEADLOCK FALSE
