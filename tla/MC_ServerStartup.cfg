\* Start-up of the core, topology and admin servers with one config
\* callback each; the wait loops poll up to twice.
CONSTANTS
    Configs <- MCConfigs
    Zero <- MCZero
    WaitTime = 2
    TopoWait = 3
    MaxUpdates = 1
SPECIFICATION Spec
INVARIANT TypeOK
INVARIANT WaitedForConfig
PROPERTY StartupEnds
CHECK_DEADLOCK FALSE
