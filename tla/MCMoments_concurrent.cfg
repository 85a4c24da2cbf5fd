CONSTANTS
  u1 = u1
  u2 = u2
  m1 = m1
  k1 = k1
  s1 = s1
  s2 = s2
  NoUser = NoUser
  NoPost = NoPost
  Users <- TwoUsers
  Posts <- OnePost
  Comments <- OneComment
  Slots <- TwoSlots
  MaxDrift = 0
SPECIFICATION Spec
SYMMETRY Symmetry
INVARIANTS
  CountersExact
  CountersNeverHigh
