\* Two registering processes, one discoverer, up to two faults
CONSTANTS
    Procs = {p1, p2}
    MaxFaults = 2
SPECIFICATION Spec
INVARIANT TypeOK
PROPERTIES
    DiscoveryConverges
    ShutdownEnds
