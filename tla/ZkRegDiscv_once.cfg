\* One registering process and the discoverer, up to two faults
CONSTANTS
    Procs = {p1}
    MaxFaults = 2
SPECIFICATION Spec
PROPERTY RegisteredOnce
