\* Every field of three runners, every corpus, with and without python3.
SPECIFICATION Spec
CONSTANTS
  Sections <- MCSections
  MUTATIONS <- MCMutations
  Runners = {"python", "go", "c"}
  Vacuous = {"go"}
  Replaying = {"go"}
  Corpora <- MCCorpora
  NoFile = NoFile
INVARIANTS
  IInv
  EchoedSectionIsReported
  HonestRunnerSuffices
CHECK_DEADLOCK FALSE
