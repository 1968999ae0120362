SPECIFICATION Spec
CONSTANTS
  MaxSeq = 1
  k1 = k1
  k2 = k2
  i1 = i1
  i2 = i2
  d1 = d1
  g1 = g1
  g2 = g2
  p1 = p1
  r1 = r1
  Kinds <- MCKinds
  Inputs <- MCInputs
  Deadlines <- MCDeadlines
  Gates <- MCGates
  Payloads <- MCPayloads
  Readings <- MCReadings
  Versions <- MCVersions
  NoArg = NoArg
SYMMETRY Symmetry
INVARIANTS
  TypeOK
  CursorTracksHistory
  FreshIdentity
  RedeliversTheOpenBoundary
PROPERTIES
  FaultIsFinal
  ConsumesLegalHistory
