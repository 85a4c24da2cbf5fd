CONSTANTS
  u1 = u1
  u2 = u2
  u3 = u3
  c1 = c1
  c2 = c2
  c3 = c3
  Room = Room
  NoCall = NoCall
  Parties <- ThreeUsers
  Reachable <- TwoUsers
  CallIds <- ThreeCalls
  Server = TRUE
  StatusRouted = TRUE
SPECIFICATION CallsSpec
SYMMETRY CallSymmetry
INVARIANTS
  CountedInOwnCall
  CalleeCountedOnceAccepted
PROPERTY
  OnlyLateDeclineStrands
