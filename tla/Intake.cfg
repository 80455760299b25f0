CONSTANTS
    Width = 3
    MaxSeq = 7
    Hosts = {nat, office, home}
    Limit = 3
    MaxSources = 2
SPECIFICATION IntakeFairSpec
INVARIANTS NoLossInsideWindow LimiterBounded
PROPERTIES ImplementsChannel BlockEnds
