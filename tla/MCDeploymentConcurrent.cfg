CONSTANTS
    Packages = {"p"}
    Hashes = {1, 2}
    Pkg <- MCPkg
    Calls = {c1, c2}
    Requests = {}
    Streams = {}
    MaxDeploys = 3
    MaxClock = 0
    MaxCrashes = 1
    MaxFaults = 1
SPECIFICATION Spec
SYMMETRY CallSymmetry
INVARIANTS StoppedNotRouted
PROPERTIES NeverReplaced
