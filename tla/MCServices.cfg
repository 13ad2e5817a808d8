CONSTANTS
  d1 = d1
  d2 = d2
  d3 = d3
  web = web
  api = api
  Deploys <- MCDeploys
  Apps <- MCApps
  Ports <- MCPorts
  MaxApps = 1
  s1 = s1
  s2 = s2
  Sessions <- MCSessions
  KindOf <- MCKindOf
  Slots = 1
  Retries = 2
  m1 = m1
  m2 = m2
  m3 = m3
  Mentions = {m1, m2, m3}
  Short = {m3}
  MaxQueue = 1
  MaxDedup = 2
  MaxTrouble = 1
SPECIFICATION MCSpec
INVARIANTS RunnerInv BrowserInv BridgeInv
PROPERTIES ADeadAppIsReaped AQueuedMentionIsAnswered
CHECK_DEADLOCK FALSE
