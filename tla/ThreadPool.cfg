SPECIFICATION FairSpec
CONSTANTS
    Workers = {w1, w2}
    Submitters = {s1, s2, s3}
    Nobody = nobody
INVARIANTS PoolInv NoTaskStranded
PROPERTIES TaskRuns
