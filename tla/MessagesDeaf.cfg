SPECIFICATION Spec
CONSTANTS
    Receivers <- AckOnErrorOnly
    Payloads <- SomePayloads
    FCNs <- SomeFCNs
    RCSs <- SomeRCSs
    AckBitmaps <- SomeBitmaps
    CompoundBitmaps <- FewBitmaps
    WindowLists <- AllWindowLists
CHECK_DEADLOCK FALSE
INVARIANTS
    FragmentsToldApart
