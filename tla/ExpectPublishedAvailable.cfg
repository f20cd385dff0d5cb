SPECIFICATION Spec
CONSTANTS
  p1 = p1  p2 = p2  n1 = n1  n2 = n2  b1 = b1  b2 = b2  r1 = r1
  h1 = h1  h2 = h2  c1 = c1  c2 = c2  x1 = x1
  Q1 = Q1  Q2 = Q2  NoBuild = NoBuild  NoPath = NoPath  NoRef = NoRef
  NoPolicy = NoPolicy  Latest = Latest  Forever = Forever
  Base = 2
  Places = 1
  Paths <- OnePath
  Nars <- OneNar
  NarOf <- OneOwnNar
  References <- OneNoReferences
  Upstream = {}
  Builds = {b1, b2}
  Refs = {r1}
  RefOf <- SameRef
  Projects = {"project"}
  ProjectOf <- OneProject
  Policies = {Q1}
  KeepLatest <- KeepLatestOf
  RuleFor <- OneOrNone
  Ttls = {}
  PinNames = {}
  MaxClock = 2
  Handlers = {h1}
  MaxFaults = 0
  Collectors = {c1}
  GraceZero <- DefaultGrace
PROPERTY PublishedIsAvailable
ACTION_CONSTRAINT GraceOutlastsAll
