SPECIFICATION FairSpec
CONSTANTS
  Requests = {1, 2, 3, 4, 5}
  total_batch_size = 5
  dp_degree = 2
  max_process_token = 3
  RequestLengths <- MixedLengths
  max_seq_len = 10
  real_data = TRUE
  mode = "mixed"
  reuse_kv_percent = 0
  use_inject_rate = FALSE
  MaxHits = 1
  MaxArrivals = 0
INVARIANTS
  TypeOK
  OneHome
  NoOvershoot
  OnePhasePerIteration
  PrefillBudget
  FirstTokenReported
PROPERTY
  ImplementsLifecycle
  AdmittedCompletes
  QueuedAdmitted
