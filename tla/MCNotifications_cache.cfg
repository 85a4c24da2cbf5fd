CONSTANTS
  u1 = u1
  u2 = u2
  n1 = n1
  n2 = n2
  k1 = k1
  s1 = s1
  s2 = s2
  NoUser = NoUser
  NoNote = NoNote
  NoKind = NoKind
  Users <- TwoUsers
  Notes <- TwoNotes
  Kinds <- OneKind
  Slots <- TwoSlots
  Reachable <- OneUser
  MaxSecond = 1
SYMMETRY Alike
SPECIFICATION Spec
INVARIANTS
  CopyNeverHidesUnread
  CopyIsCurrent
  AloneIsPushedOnce
