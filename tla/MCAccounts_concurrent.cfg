CONSTANTS
  a1 = a1
  a2 = a2
  n1 = n1
  n2 = n2
  e1 = e1
  e2 = e2
  w1 = w1
  w2 = w2
  s1 = s1
  s2 = s2
  None = None
  Accounts <- TwoAccounts
  Usernames <- TwoUsernames
  Emails <- TwoEmails
  Phones <- OnePhone
  Passwords <- TwoPasswords
  Slots <- TwoSlots
  MaxOpened = 1
SPECIFICATION Spec
SYMMETRY Symmetry
INVARIANTS
  RegisteredIsOwn
  TokensAreDeserved
  DeservedIsGranted
PROPERTIES
  ChangesAreProven
  SettingsAreNeverReset
