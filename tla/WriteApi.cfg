SPECIFICATION Spec
CONSTANTS
  Projects = {"p", "q"}
  Repositories = {"repo"}
  RefNames = {"main", "dev"}
  Patterns = {"m*"}
  Matches <- MCMatches
  KeyIds = {1, 2}
  Policies = {"policy"}
  PinNames = {"pin"}
  UpstreamNames = {"u"}
  Handlers = {1, 2}
  Settings <- MCSettings
  MaxEvents = 1
INVARIANTS
  TypeOK
  EntitledWhenActing
  EntitledIsAdmitted
  UpsertedProjectHasKey
  NumberedKeysDiffer
PROPERTIES
  PinsStayInScope
  UpsertSparesKeys
  PolicyHasRules
  RequestsEnd
CHECK_DEADLOCK FALSE
