SPECIFICATION Spec
CONSTANTS
    Tickers <- MCTickers
    BookSet = {"PETR4"}
    Orchestrator = orchestrator
    Others = {engine}
    OtherCommands <- MCOther
    NoThread = none
INVARIANTS
    TypeOK
    CommandsWhole
    RegistryBehindWire
    LinesUnderstood
    DamageContained
PROPERTY CallsReturn
CHECK_DEADLOCK FALSE
