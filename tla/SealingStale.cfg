\* The results file is of a run on another corpus, or on an earlier content.
SPECIFICATION Spec
CONSTANTS
  Ids = {"v1", "v2"}
  Contents <- MCContents
  Canon <- MCCanon
  Anchored = {"good"}
  Cells = {"python", "go"}
  Keys = {"kaf", "other"}
  KAF_KID = "kaf"
  Behaviours <- MCBehaviours
  Missing = Missing
  Torn = Torn
  Interleaved = FALSE
  MaxStarts <- SerialStarts
INVARIANT
  CellsRanOnSealed
CHECK_DEADLOCK FALSE
