SPECIFICATION Spec
CONSTANTS
  Projects = {"p", "q"}
  Repositories = {"repo"}
  RefNames = {"main", "dev"}
  Patterns = {"m*"}
  Matches <- MCMatches
  KeyIds = {1, 2}
  Policies = {"policy"}
  PinNames = {"pin"}
  UpstreamNames = {"u"}
  Handlers = {1, 2}
  Settings <- MCAbroad
  MaxEvents = 1
PROPERTY ExpiredTokenIsRejected
CHECK_DEADLOCK FALSE
