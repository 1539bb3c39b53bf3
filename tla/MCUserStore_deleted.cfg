SPECIFICATION Spec
CONSTANTS
  a = a  b = b
  u1 = u1  u2 = u2
  t1 = t1  t2 = t2
  NoUser = NoUser
  Writers = {a}
  Users = {u1}
  Types = {t1}
  Prefs <- Preferences
  MaxUpdates = 3
  MaxBreaks = 0
SYMMETRY Symmetry
INVARIANTS
  DeletedUsersAreGone
