SPECIFICATION Spec
CONSTANTS
  Requests = {1, 2, 3, 4, 5}
  total_batch_size = 4
  dp_degree = 2
  max_process_token = 1
  RequestLengths <- ReusedPrompt
  max_seq_len = 12
  real_data = FALSE
  mode = "mixed"
  reuse_kv_percent = 50
  use_inject_rate = TRUE
  MaxHits = 1
  MaxArrivals = 2
INVARIANTS
  IdleOnlyWhenStarved
