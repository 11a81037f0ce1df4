CONSTANTS
    c1 = c1
    c2 = c2
    c3 = c3
    Clients <- MC_Clients
    EdgeTriggered = TRUE
    ListenMayFail = FALSE
    CbMayFail = FALSE
    None = None
SPECIFICATION Spec
PROPERTY ConnectionEstablished
CHECK_DEADLOCK FALSE
