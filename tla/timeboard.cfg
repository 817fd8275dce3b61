SPECIFICATION TBSpec
CONSTANTS
    Configs <- MCConfigs
    Durations = {1, 2}
    num_expert = 2
INVARIANTS
    NoTimeLost
    StampsNest
