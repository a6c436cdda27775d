\* Gateways that start, serve and end over shared keys, logs and ports, and verify.
SPECIFICATION StartSpec
CONSTANTS
  g1 = g1 g2 = g2 g3 = g3 k1 = k1 k2 = k2 k3 = k3 s1 = s1 s2 = s2
  own = own shared = shared port = port
  Gateways <- MCGateways Keys <- MCKeys NoFile = NoFile Damaged = Damaged
  MayLose = TRUE
  Sessions <- MCSessions Logs <- MCLogs LogOf <- MCLogOf
  Ports <- MCPorts PortOf <- MCPortOf NoPort = NoPort Nobody = Nobody
  MaxEntries = 3
INVARIANTS NeverOrphaned LogsUnderAnchor VerifyNeverAccuses TrafficUnderItsHeader
PROPERTY NeverReplaced
SYMMETRY Interchangeable
CHECK_DEADLOCK FALSE
