SPECIFICATION Spec
CONSTANTS
  Users = {u1, u2}
  Msgs = {m1}
  Names = {n1}
  FreshNames = TRUE
  Inbox = inbox
  Folders = {work}
  Curated = {archive}
  None = none
SYMMETRY Symmetry
INVARIANTS
  IInv
  NeverDestroyed
  NotMissed
