SPECIFICATION PipelineSpec
CONSTANTS
  Suites = {"jws_v0"}
  Frozen = {"jws_v0", "cose_v0", "pqc_mldsa_v0"}
  Augmented = {"pqc_mldsa_v0"}
  Builds <- MCBuilds
  Rules <- MCRules
  Probed <- MCProbed
  Without <- MCWithout
  Nothing = Nothing
  Torn = Torn
  Refused = Refused
  MaxKeys = 3
  MaxFreezings = 3
  MaxKills = 2
  SectionsOf <- MCSectionsOf
  PortsOf <- MCPortsOf
  Judge <- MCJudge
  Files <- MCFiles
  Unreadable = Unreadable
  Missing = Missing
  Correct <- MCCorrect
  Emitted <- MCEmitted
  KatRederives <- MCKatRederives
  KatReads <- MCKatReads
  KatChecks <- MCKatChecks
  Null = Null
  Absent = Absent
  Gone = Missing
  Lower <- NegLower
  Sextet <- NegSextet
  Letters = {"A", "B", "Q", "s"}
  Undecodable = Undecodable
  NotAList = NotAList
CHECK_DEADLOCK FALSE
INVARIANT EveryRuleIsProbed
