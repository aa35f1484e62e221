SPECIFICATION Spec
CONSTANTS
  Users = {u1}
  Msgs = {m1, m2}
  Names = {n1}
  FreshNames = FALSE
  Inbox = inbox
  Folders = {work}
  Curated = {archive}
  None = none
SYMMETRY Symmetry
INVARIANTS
  NeverDestroyed
