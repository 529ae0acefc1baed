CONSTANTS
    Packages = {"p"}
    Hashes = {1, 2}
    Pkg <- MCPkg
    Calls = {c1}
    Requests = {r1}
    Streams = {r1}
    MaxDeploys = 1
    MaxClock = 0
    MaxCrashes = 0
    MaxFaults = 0
SPECIFICATION Spec
INVARIANTS StoppedIsIdle
