\* Three or four mallocs of 1 to 9 bytes fill a 40-byte area.
CONSTANTS
    Oids <- MC_Oids
    Start = 8
    Size = 48
    Requests = {1, 8, 9}
    Width = 16
    MaxMallocs = 5
    MaxCrashes = 1
SPECIFICATION Spec
INVARIANT BlocksInArea
