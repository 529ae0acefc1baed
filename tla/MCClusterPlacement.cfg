SPECIFICATION FairSpec
CONSTANTS
    Runners = {r1, r2}
    Deployed = {r1}
    Requests = {q1}
    Jobs = {j1, j2, j3}
    Ttl = 2
    MaxEvents = 2
INVARIANTS QuietClusterServes ClusterDeployCovers
PROPERTIES RequestsEnd SweepSparesFresh RestartRestores MigrationKeepsAgent
