\* Every tool and the reproducibility check at once in one checkout.
SPECIFICATION CheckoutSpec
CONSTANTS
  Ids = {"v1"}
  Contents <- MCContents
  Canon <- MCCanon
  Text <- MCCanon
  Anchored = {"crlf", "lf"}
  Cells = {"python", "go"}
  Keys = {"kaf"}
  KAF_KID = "kaf"
  Behaviours <- MCBehaviours
  Missing = Missing
  Torn = Torn
  Nothing = Nothing
  Interleaved = TRUE
  MaxStarts <- MCStarts
  CORPORA <- MCCORPORA
  MaxChecks = 1
  Emits <- MCEmits
INVARIANTS
  ValidWasSigned
  CheckSurvivesTools
  CheckoutInv
CHECK_DEADLOCK FALSE
