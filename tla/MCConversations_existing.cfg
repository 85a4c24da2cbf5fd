CONSTANTS
  u1 = u1
  u2 = u2
  u3 = u3
  c1 = c1
  c2 = c2
  n1 = n1
  p1 = p1
  p2 = p2
  NoUser = NoUser
  NoConv = NoConv
  NoName = NoName
  Users <- ThreeUsers
  Convs <- TwoConvs
  Names <- OneName
  Slots <- OneSlot
  Friendships <- Line
  MaxSecond = 0
SPECIFICATION Spec
INVARIANTS
  ExistingIsShared
