SPECIFICATION Spec
CONSTANTS
  Request = {r1, r2}
  Owner = {olga}
  Project = {home}
  Task = {t1}
  Olga = olga
  Home = home
  Seeds = {home}
  SeedParent <- MCSeedParent
  Field = {title}
  NotNull = {title}
  Value = {blank}
  Blank = blank
  Bodies <- OneField
  Null = Null
  Ops = {"task.create", "project.delete"}
  Faults = FALSE
  NoRequest = NoRequest
  NoItem = NoItem
  NoOwner = NoOwner
INVARIANT NoOrphanTask
