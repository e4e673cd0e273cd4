\* One tool at a time, killed anywhere; two corpora share one results file.
SPECIFICATION Spec
CONSTANTS
  Ids = {"v1", "v2"}
  Contents <- MCContents
  Canon <- MCCanon
  Anchored = {"good"}
  Cells = {"python", "go"}
  Keys = {"kaf", "other"}
  KAF_KID = "kaf"
  Behaviours <- MCBehaviours
  Missing = Missing
  Torn = Torn
  Interleaved = FALSE
  MaxStarts <- SerialStarts
INVARIANTS
  IInv
  SealedIsSignedArtifact
  StackImpliesKaf
PROPERTY
  SealEndsValid
CHECK_DEADLOCK FALSE
