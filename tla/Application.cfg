SPECIFICATION Spec
CONSTANTS
    main = main
    w1 = w1
    w2 = w2
    NoCaller = NoCaller
    Callers <- TwoWorkers
    Stacks <- AllStacks
    Packets <- Numbers
    Uplinks <- Numbers
    MaxEvents = 2
CHECK_DEADLOCK FALSE
INVARIANTS
    TypeOK
    JoinedBeforeDestroyed
    AnswersFresh
    AloneGetsOwn
PROPERTIES
    PacketsRelayed
    UplinksRelayed
    MainReturns
