SPECIFICATION FairSpec
CONSTANTS
    admin = admin
    chief = chief
    Processes = {p1, p2}
    None = None
    Configs <- EveryConfig
    Names = {admin}
    Migrations = 2
    Interruptions = TRUE
INVARIANTS TypeOK ServesOnlyMigrated
PROPERTIES StartsEnd SignalledEnd MigrationsRunOnce
