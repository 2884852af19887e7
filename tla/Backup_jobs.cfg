SPECIFICATION BackupSpec
CONSTANTS
    d1 = d1
    d2 = d2
    a1 = a1
    a2 = a2
    Domains = {d1, d2}
    Accounts = {a1, a2}
    Messages = {m1}
    Drivers = {"sqlite", "postgres"}
    MaxWrites = 3
    MaxJobs = 2
SYMMETRY Symmetry
INVARIANTS
    ArchiveIsWhole
    QuietBackupRestores
PROPERTIES
    RestoreIsTheArchive
CHECK_DEADLOCK FALSE
