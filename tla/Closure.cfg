SPECIFICATION Spec
CONSTANTS
  p1 = p1  p2 = p2  n1 = n1  n2 = n2  b1 = b1  b2 = b2  r1 = r1
  h1 = h1  h2 = h2  c1 = c1  c2 = c2  x1 = x1
  Q1 = Q1  Q2 = Q2  NoBuild = NoBuild  NoPath = NoPath  NoRef = NoRef
  NoPolicy = NoPolicy  Latest = Latest  Forever = Forever
  Base = 2
  Places = 1
  Paths <- TwoPaths
  Nars <- TwoNars
  NarOf <- OwnNar
  References <- Chain
  Upstream = {n2}
  Builds = {b1}
  Refs = {r1}
  RefOf <- SameRef
  Projects = {"project"}
  ProjectOf <- OneProject
  Policies = {}
  KeepLatest <- KeepLatestOf
  RuleFor <- OneForGood
  Ttls = {}
  PinNames = {x1}
  MaxClock = 1
  Handlers = {h1}
  MaxFaults = 0
  Collectors = {c1}
  GraceZero <- BothGraces
INVARIANTS KeptServed PublicationInv
