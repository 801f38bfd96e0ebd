SPECIFICATION FairSpec
CONSTANTS
    port1 = port1
    port2 = port2
    port3 = port3
    NONE = NONE
    Callers = {"control", "scan"}
    Starters = {"control"}
    Retrying = {"control"}
    Ports = {port1, port2, port3}
    FAULTS = 1
PROPERTIES
    LinkRecovers
