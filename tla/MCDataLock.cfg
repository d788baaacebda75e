CONSTANTS
  coreA = coreA  coreB = coreB  coreC = coreC  hatched = hatched  legacy = legacy  d1 = d1  d2 = d2  d3 = d3
  NoOne = NoOne  Corrupt = Corrupt
  Dirs = {d1, d2, d3}
  Existing = {d1, d3}
  Legacy = {legacy}
  Procs = {coreA, coreB, hatched, legacy}
  Hatch = {hatched}
  Records <- MCRecords
  Anchors <- MCAnchors
  MaxInodes = 4
  MaxFaults = 1
SPECIFICATION Spec
INVARIANT RefusalLeavesNothing
PROPERTIES ImplementsGate LiveOwnerKeepsRecord AcquireEnds
CHECK_DEADLOCK FALSE
