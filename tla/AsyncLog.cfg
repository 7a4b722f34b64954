SPECIFICATION FairSpec
CONSTANTS
    Users = {u1, u2}
    Levels = {0, 1}
    INFO = 1
    MaxDate = 3
    MaxTargets = 3
INVARIANTS LogInv OnceInOrder RightFile
PROPERTIES LogHandled
