SPECIFICATION Spec
CONSTANTS
    N = 2
    Migrator = {m1}
    None = None
INVARIANTS
    TypeOK
    NoOrphans
    MigrationSuffices
PROPERTIES
    ServiceEnds
