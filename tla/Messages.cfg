SPECIFICATION Spec
CONSTANTS
    Receivers <- ArqFecOnly
    Payloads <- SomePayloads
    FCNs <- SomeFCNs
    RCSs <- SomeRCSs
    AckBitmaps <- SomeBitmaps
    CompoundBitmaps <- FewBitmaps
    WindowLists <- AllWindowLists
CHECK_DEADLOCK FALSE
INVARIANTS
    FragmentsToldApart
    AcksToldApart
    FieldsSurvive
    BitmapsSurvive
