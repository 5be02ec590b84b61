SPECIFICATION FairSpec
CONSTANTS
    c1 = c1
    c2 = c2
    Cmds = {c1, c2}
    MaxUnblock = 1
    Environments = {{"connlost", "locklost"}}
PROPERTIES
    RecoveryAlwaysEnds
CHECK_DEADLOCK FALSE
