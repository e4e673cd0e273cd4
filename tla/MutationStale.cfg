\* A v1 or v2 corpus, which has no rsa_verify section.
SPECIFICATION Spec
CONSTANTS
  Sections <- MCSections
  MUTATIONS <- MCMutations
  Runners = {"python", "go", "c"}
  Vacuous = {"go"}
  Replaying = {"go"}
  Corpora <- MCOldCorpora
  NoFile = NoFile
INVARIANT
  PassMeansAllMutated
CHECK_DEADLOCK FALSE
