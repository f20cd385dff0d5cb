SPECIFICATION Spec
CONSTANTS
  Storages <- MCStorages
  DefaultStorage = 2
  Upstreams <- MCUpstreams
  Settings <- MCSettings
  MaxBuilds = 1
  MaxChanges = 1
INVARIANT TypeOK
PROPERTIES
  NotFoundIsTrue
  LocalComesFirst
  HiddenStaysHidden
  PublishedIsFound
  RequestsEnd
