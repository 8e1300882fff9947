SPECIFICATION Spec
CONSTANTS
  Request = {r1, r2}
  Owner = {olga, ivan}
  Project = {home}
  Task = {t1}
  Olga = olga
  Home = home
  Seeds = {home, t1}
  SeedParent <- MCSeedParent
  Field = {title, description}
  NotNull = {title}
  Value = {blank, v1}
  Blank = blank
  Bodies <- ValueOrNull
  Null = Null
  Ops = {"patch", "project.delete", "task.delete"}
  Faults = TRUE
  NoRequest = NoRequest
  NoItem = NoItem
  NoOwner = NoOwner
SYMMETRY Symmetry
INVARIANT TypeOK
INVARIANT NoLostPatch
PROPERTY DeletesWhole
PROPERTY OwnerOnly
