SPECIFICATION Spec
CONSTANTS
    NumCmds = 2
    Reconnects = {2}
    BatchLimit = 2
    MaxAttempts = 1
    MaxInbox = 2
    MaxGhosts = 0
    None = None
PROPERTY AcceptedInOrder
