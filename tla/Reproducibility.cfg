\* Every state of two corpora, every generator, two checks with kills.
SPECIFICATION Spec
CONSTANTS
  CORPORA <- MCCORPORA
  Contents <- MCContents
  Text <- MCText
  Missing = Missing
  Torn = Torn
  Nothing = Nothing
  MaxChecks = 2
INVARIANTS
  IInv
  LeavesCorporaAlone
  NothingLost
  PassMatchesHead
  PassIsRegenerated
CHECK_DEADLOCK FALSE
