SPECIFICATION FairSpec
CONSTANTS
  Request = {r1, r2, r3}
  Owner = {olga}
  Project = {home}
  Task = {t1, t2}
  Olga = olga
  Home = home
  Seeds = {}
  SeedParent <- MCSeedParent
  Field = {title}
  NotNull = {title}
  Value = {blank}
  Blank = blank
  Bodies <- OneField
  Null = Null
  Ops = {"project.create", "task.create", "project.delete", "task.delete"}
  Faults = FALSE
  NoRequest = NoRequest
  NoItem = NoItem
  NoOwner = NoOwner
INVARIANT CascadeCoversScan
INVARIANT OnlyCascadesDeadlock
PROPERTY RequestsEnd
