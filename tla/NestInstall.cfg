\* Operations that fail or are cancelled anywhere, the device switched off or
\* the undoing failing at any step, on a game with an update and a renaming.
CONSTANTS
  a = a
  b = b
  v1 = v1
  v2 = v2
  Slugs = {a, b}
  Versions = {v1, v2}
  Manifests <- UpdateAndRename
  Faults = {"power", "rollback"}
  Foreign = Foreign
  Damaged = Damaged
  None = None
SPECIFICATION Spec
INVARIANTS
  Consistent
  AllOrNothing
  OldPackageKept
PROPERTY
  ForeignKept
