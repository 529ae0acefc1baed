SPECIFICATION FairSpec
CONSTANTS
    Runners = {r1, r2}
    Deployed = {r1}
    Requests = {}
    Jobs = {j1, j2, j3}
    Ttl = 2
    MaxEvents = 2
PROPERTY UpIsListed
