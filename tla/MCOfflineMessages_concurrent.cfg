CONSTANTS
  u1 = u1
  u2 = u2
  m1 = m1
  m2 = m2
  m3 = m3
  c1 = c1
  c2 = c2
  s1 = s1
  s2 = s2
  s3 = s3
  NoUser = NoUser
  NoMessage = NoMessage
  Users <- OneUser
  Messages <- ThreeMessages
  Conversations <- TwoRooms
  Slots <- ThreeSlots
  Reachable <- OneUser
  conversationOf <- RoomOf
  createdAt <- Created
  MaxDelivered = 2
SYMMETRY AnySlot
SPECIFICATION Spec
INVARIANTS
  NothingIsLost
  DeliveredOnce
  ListsExpire
  BatchesAreOrdered
