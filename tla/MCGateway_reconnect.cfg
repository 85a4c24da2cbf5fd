CONSTANTS
  u1 = u1
  u2 = u2
  d1 = d1
  d2 = d2
  d3 = d3
  d4 = d4
  c1 = c1
  c2 = c2
  NoUser = NoUser
  NoSocket = NoSocket
  Users <- TwoUsers
  Sockets <- FourSockets
  Conversations <- OneRoom
SPECIFICATION Spec
SYMMETRY Symmetry
INVARIANTS
  OnlineByNewest
  PresenceIsCurrent
  RoomsAreRecorded
