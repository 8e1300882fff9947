SPECIFICATION FairSpec
CONSTANTS
  Migrator = {m1, m2, m3}
  Faults = TRUE
INVARIANT TypeOK
INVARIANT SchemaMatchesStamp
INVARIANT UndisturbedMigrationWorks
PROPERTY MigrationsEnd
