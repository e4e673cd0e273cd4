\* The corpus is extended and signed anew between two invocations.
SPECIFICATION Spec
CONSTANTS
  Suites <- CoreOnly
  Tools <- ToolNames
  Contents = {"signed", "resigned"}
  Missing = Missing
  KatPasses = {"signed", "resigned"}
  Installations <- FullHost
  Behaviours <- MissesTheNewCase
  RequireArgs = {Default}
  Default = Default
  NotANumber = NotANumber
  SkipKats = {FALSE}
  PathForms = {"absolute"}
  MaxRuns = 2
INVARIANT
  GreenMeansReproduced
CHECK_DEADLOCK FALSE
