SPECIFICATION FairSpec
CONSTANTS
  Jobs = {j1}
  Workers = {w1, w2}
  Uploads <- MCUploads
  Configs <- MCConfigs
  Apps = {a1, a2}
  FirstApp = a1
  MaxLate = 1
  MaxGenerations = 2
  MaxDisruptions = 1
INVARIANTS PublishedFileKept GatewayAccounted
PROPERTIES FinishedIsFinal JobSettles EffectSettles
CHECK_DEADLOCK FALSE
