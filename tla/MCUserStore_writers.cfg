SPECIFICATION Spec
CONSTANTS
  a = a  b = b
  u1 = u1  u2 = u2
  t1 = t1  t2 = t2
  NoUser = NoUser
  Writers = {a, b}
  Users = {u1}
  Types = {t1, t2}
  Prefs <- Preferences
  MaxUpdates = 3
  MaxBreaks = 1
SYMMETRY Symmetry
INVARIANTS
  TypeOK
  CompletedUpdatesAgree
  IndInv
