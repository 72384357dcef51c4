SPECIFICATION Spec
CONSTANTS
    QuotaCooldown = 2
    PrimaryWindow = 2
    QuotaDefault = 2
    Recent = 1
    BackoffBase = 1
    BackoffMax = 2
    MaxTime = 3
    MaxErrors = 4
    MaxReset = 5
PROPERTIES
    
    ExhaustedHeldBack
    TerminalKept
