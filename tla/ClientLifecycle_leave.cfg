SPECIFICATION Spec
CONSTANTS
    IPs = {a, b}
    MaxDevices = 2
    None = None
INVARIANT CanEnrollAgain
