\* A generator that exits non-zero is taken for frozen material.
SPECIFICATION Spec
CONSTANTS
  CORPORA <- MCCORPORA
  Contents <- MCContents
  Text <- MCText
  Missing = Missing
  Torn = Torn
  Nothing = Nothing
  MaxChecks = 2
INVARIANT
  PassIsGenerated
CHECK_DEADLOCK FALSE
