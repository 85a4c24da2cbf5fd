CONSTANTS
  u1 = u1
  u2 = u2
  u3 = u3
  p1 = p1
  p2 = p2
  p3 = p3
  NoUser = NoUser
  Users <- TwoUsers
  Active <- TwoUsers
  Slots <- TwoSlots
SPECIFICATION Spec
INVARIANTS
  NoFriendshipOnRejection
