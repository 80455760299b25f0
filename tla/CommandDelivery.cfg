SPECIFICATION FairSpec
CONSTANTS
    NumCmds = 1
    Reconnects = {}
    BatchLimit = 1
    MaxAttempts = 2
    MaxInbox = 2
    MaxGhosts = 1
    None = None
INVARIANT ExecutedAtMostOnce
PROPERTIES ImplementsContract PendingSettles
