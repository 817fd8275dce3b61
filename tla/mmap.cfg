SPECIFICATION MMSpec
CONSTANTS
    granul = 2
    num_cube = 2
    num_logic_cube = 2
    num_channel = 4
    num_rank = 2
    num_bankgroup = 2
    num_row = 2
    num_col = 2
    Sizes = {3, 130, 289}
    MaxTensors = 3
INVARIANTS
    WeightsDisjoint
    SampleStandsForTensor
    IdealCountsSimulated
CHECK_DEADLOCK FALSE
