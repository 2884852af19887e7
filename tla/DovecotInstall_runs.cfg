CONSTANTS
    Settings <- const_Settings
    Rejected <- const_Rejected
    Invalid <- const_Invalid
    MaxRuns = 2
    MaxEdits = 1
    MaxTorn = 2
SPECIFICATION Spec
INVARIANTS
    LoginsKeepWorking
PROPERTIES
    FailedInstallRestores
    InstallIsComplete
CHECK_DEADLOCK FALSE
