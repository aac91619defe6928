SPECIFICATION AllSpec
CONSTANTS
  LogLine = {l1, l2}
  Ingester = {i1}
  Evaluator = {e1}
  NoLine = NoLine
  MaxCrashes = 2
  Configs <- MCConfigs
  NoConfig = NoConfig
  OwnConfig <- MCOwnConfig
  DefaultConfig <- MCDefaultConfig
  MaxCalls = 3
  Path = {1, 2}
  Content = {v1, v2}
  PatchSets <- MCPatchSets
  MaxSeconds = 1
  Goals <- MCGoals
  Request = {r1}
  Torn = Torn
  MaxLives = 2
  MaxArtifacts = 2
  Setup <- MCSetups
  Leftovers <- MCLeftovers
  Patience = 2
  MaxRuns = 2
  MaxOthers = 1
  Dependency <- MCDependencies
  DependencyLists <- MCDependencyLists
  MaxMade = 3
  Requests <- MCRequests
  Configurations <- MCConfigurations
  Containers <- MCContainers
  Offered <- MCOffered
  Touched <- MCTouched
  MaxServed = 4
  Scorable <- MCScorable
  Sayable <- MCSayable
  Length <- MCLength
  StopWords <- MCStopWords
  TestWords <- MCTestWords
  Generated <- MCGenerated
  TestFile <- MCTestFile
  MaxWords = 3
  Task <- MCTask
  Flows <- MCFlows
  StepsOf <- MCStepsOf
  StepInName <- MCStepInName
  Elsewhere <- MCElsewhere
  None = None
  Unset = Unset
  Garbage = Garbage
  Invalid = Invalid
  Bad = Bad
  Parked = Parked
  v1 = v1
  v2 = v2
  m1 = m1
  t1 = t1
INVARIANTS
  MemoryIsKept VerdictsAreEarned ChangesAreTold LoopIsBounded LivesAreApart
  ScriptsAreFair WorkIsAsPlanned InputIsRead InstancesAreShared OrderIsKept
PROPERTIES NothingIsUndone CallsEnd
CHECK_DEADLOCK FALSE
