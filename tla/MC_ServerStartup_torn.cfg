\* A core or topology service built with a Config no callback delivered.
\* Same bounds as MC_ServerStartup.cfg.
CONSTANTS
    Configs <- MCConfigsTwo
    Zero <- MCZero
    WaitTime = 2
    TopoWait = 3
    MaxUpdates = 2
SPECIFICATION Spec
INVARIANT ServesDeliveredConfig
CHECK_DEADLOCK FALSE
