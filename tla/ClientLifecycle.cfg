SPECIFICATION FairSpec
CONSTANTS
    IPs = {a, b}
    MaxDevices = 2
    None = None
INVARIANTS WaitingIsClean IdentityMatchesState PlaneOnCurrentAdapter
PROPERTIES EnrolmentWakesRun LeavingStopsTheConnection
