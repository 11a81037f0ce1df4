CONSTANTS
    c1 = c1
    c2 = c2
    c3 = c3
    Clients <- MC_Clients
    EdgeTriggered = FALSE
    ListenMayFail = TRUE
    CbMayFail = TRUE
    None = None
SPECIFICATION Spec
INVARIANT RequestAccountedOnce
PROPERTY ConnectionEstablished
PROPERTY ShutdownCompletes
