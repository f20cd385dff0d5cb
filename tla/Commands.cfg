SPECIFICATION Spec
CONSTANTS
  Projects = {"p"}
  Repositories = {"repo"}
  RefNames = {"main"}
  Patterns = {"m*"}
  Matches <- MCMatches
  KeyIds = {1}
  Policies = {"aggressive", "balanced", "conservative", "custom"}
  PinNames = {"pin"}
  UpstreamNames = {"u"}
  Refs <- MCRefs
  CustomSets <- MCCustomSets
  U64 = 1000000000
  Administrators = {"a", "b"}
  Settings <- MCSettings
  MaxFaults = 2
INVARIANT TypeOK
PROPERTIES
  ScriptsAchieve
  MilderProfileKeepsMore
CHECK_DEADLOCK FALSE
