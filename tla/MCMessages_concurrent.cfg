CONSTANTS
  u1 = u1
  u2 = u2
  c1 = c1
  m1 = m1
  m2 = m2
  s1 = s1
  s2 = s2
  NoUser = NoUser
  NoConversation = NoConversation
  NoMessage = NoMessage
  Users <- TwoUsers
  Conversations <- OneConversation
  Messages <- TwoMessages
  Slots <- TwoSlots
  MaxTime = 2
SYMMETRY Alike
SPECIFICATION Spec
INVARIANTS
  SendAnnouncesItsOwn
  UnreadIsUnmarked
PROPERTY
  OnlyMembersWrite
