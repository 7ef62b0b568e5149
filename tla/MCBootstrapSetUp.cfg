SPECIFICATION Spec
CONSTANTS
    admin = admin
    chief = chief
    Processes = {p1, p2}
    None = None
    Configs <- OtherName
    Names = {admin, chief}
    Migrations = 7
    Interruptions = FALSE
INVARIANT SuperuserIsWhole
