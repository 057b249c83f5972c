SPECIFICATION Spec
CONSTANTS
  Emails = {ann, bob}
  Founders = {ann}
  Slots = {s1, s2}
  Invitable = {"admin"}
  MaxAttempts = 2
SYMMETRY SlotSymmetry
INVARIANTS
  GuessesBounded
  LockOutNeedsCrossing
PROPERTIES
  AccessByInvite
CHECK_DEADLOCK FALSE
