SPECIFICATION Spec
CONSTANTS
    NumCmds = 1
    Reconnects = {}
    BatchLimit = 1
    MaxAttempts = 1
    MaxInbox = 1
    MaxGhosts = 0
    None = None
INVARIANT ExpiredNeverAccepted
