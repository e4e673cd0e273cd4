\* Every script, its real table, one broken or echoing runner, fewer tools; and
\* every host and every runner behaviour for a small script, twice.
SPECIFICATION MCSpec
CONSTANTS
  Suites <- MCSuites
  Tools <- ToolNames
  Contents = {"signed", "drifted"}
  Missing = Missing
  KatPasses = {"signed"}
  Installations <- MCInstallations
  Behaviours <- MCBehaviours
  RequireArgs <- MCRequireArgs
  Default = Default
  NotANumber = NotANumber
  SkipKats = {TRUE, FALSE}
  PathForms = {"absolute", "relative"}
  MaxRuns = 2
INVARIANTS
  IInv
  GreenIsEarned
  FullFieldImpliesKat
PROPERTY
  Implements
CHECK_DEADLOCK FALSE
