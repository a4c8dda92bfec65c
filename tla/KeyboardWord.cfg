SPECIFICATION Spec
CONSTANTS
  Words <- MCWords
  LastLetter = 3
  PrefixMax = 3
  Phrase = 2
  Targets = {2}
PROPERTIES
  EveryWordCanBeEntered
CHECK_DEADLOCK FALSE
