\* Two authenticated authorities sharing one pool.
CONSTANTS
    u0 = u0
    u1 = u1
    u2 = u2
    pool1 = pool1
    key1 = key1
    val1 = val1
    none = none
    Auths <- MC_Named
    Anon = u0
    Pools = {pool1}
    DataKeys = {key1}
    DataVals = {val1}
    Missing = none
    Granted = {0, 6}
SPECIFICATION Spec
SYMMETRY MC_Symmetry
VIEW StateView
PROPERTY OpenTimeAuthorization
