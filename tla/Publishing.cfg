SPECIFICATION Spec
CONSTANTS
  p1 = p1  p2 = p2  n1 = n1  n2 = n2  b1 = b1  b2 = b2  r1 = r1
  h1 = h1  h2 = h2  c1 = c1  c2 = c2  x1 = x1
  Q1 = Q1  Q2 = Q2  NoBuild = NoBuild  NoPath = NoPath  NoRef = NoRef
  NoPolicy = NoPolicy  Latest = Latest  Forever = Forever
  Base = 2
  Places = 1
  Paths <- TwoPaths
  Nars <- TwoNars
  NarOf <- OwnNar
  References <- TwoNoReferences
  Upstream = {}
  Builds = {b1, b2}
  Refs = {r1}
  RefOf <- SameRef
  Projects = {"project"}
  ProjectOf <- OneProject
  Policies = {Q2}
  KeepLatest <- KeepLatestOf
  RuleFor <- OneOrTwo
  Ttls = {}
  PinNames = {}
  MaxClock = 2
  Handlers = {h1, h2}
  MaxFaults = 0
  Collectors = {c1}
  GraceZero <- DefaultGrace
INVARIANTS TypeOK SteadyNotCondemned KeptServed PublishedIsLinked
PROPERTY KeepsPublication
SYMMETRY PathSymmetry
CONSTRAINT OneOrTheOther
