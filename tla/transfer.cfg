SPECIFICATION Spec
CONSTANTS
  Clusters <- MCClusters
  DeviceByte = 1
  DeviceLatency = 8
  NodeByte = 3
  NodeLatency = 1
INVARIANTS
  SentIsReceived
PROPERTY
  TokensNeverSpeedUp
CHECK_DEADLOCK FALSE
