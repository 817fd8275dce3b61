SPECIFICATION Spec
CONSTANTS
  Requests = {1, 2, 3}
  total_batch_size = 3
  dp_degree = 1
  max_process_token = 3
  RequestLengths <- MixedLengths
  max_seq_len = 10
  real_data = TRUE
  mode = "mixed"
  reuse_kv_percent = 0
  iter = 7
  Durations = {1, 2}
  MaxHits = 3
INVARIANTS
  NoOvershoot
  NoDecodeBeforeHandoff
  HandoffReached
  PromptTakesItsTurns
CHECK_DEADLOCK FALSE
