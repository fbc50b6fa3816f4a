SPECIFICATION Spec
CONSTANTS
    NewRules <- SomeNewRules
    InitialFiles <- SomeFiles
    Packets <- SomePackets
    MaxChoices = 3
    MaxLaunches = 2
CHECK_DEADLOCK FALSE
INVARIANTS
    TypeOK
    FirstFit
    ResidueRestores
    FileMatchesMemory
    RulesKept
PROPERTIES
    StartReturns
