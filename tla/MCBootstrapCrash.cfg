SPECIFICATION Spec
CONSTANTS
    admin = admin
    chief = chief
    Processes = {p1}
    None = None
    Configs <- OnlyComplete
    Names = {admin, chief}
    Migrations = 0
    Interruptions = TRUE
INVARIANT StartsSucceed
