\* One process that fails the check of migration 4 and is started again.
SPECIFICATION Spec
CONSTANTS
    Processes = {p1}
    Latest = 5
    Binaries = {5}
    Dangling = TRUE
INVARIANTS
    FailedMigrationIsRefused
