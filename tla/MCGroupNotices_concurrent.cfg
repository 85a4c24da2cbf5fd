CONSTANTS
  u1 = u1
  u2 = u2
  c1 = c1
  n1 = n1
  p1 = p1
  p2 = p2
  k1 = k1
  NoUser = NoUser
  NoConv = NoConv
  NoName = NoName
  Users <- TwoUsers
  Convs <- OneConv
  Names <- OneName
  Slots <- TwoSlots
  Sockets <- OneSocket
  Friendships <- Nobody
  MaxSecond = 0
SPECIFICATION NoticesSpec
INVARIANTS
  HeardIsTrue
PROPERTIES
  LastToLeaveDeletes
