SPECIFICATION Spec
CONSTANTS
  Requests = {1, 2, 3, 4}
  total_batch_size = 4
  dp_degree = 2
  max_process_token = 3
  RequestLengths <- OneLength
  max_seq_len = 3
  real_data = FALSE
  mode = "decode"
  reuse_kv_percent = 0
  use_inject_rate = FALSE
  MaxHits = 1
  MaxArrivals = 0
INVARIANT DecodeOutputAboveOne
