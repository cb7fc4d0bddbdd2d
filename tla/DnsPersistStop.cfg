SPECIFICATION ShutdownSpec
CONSTANTS
  Resolvers = {r1, r2}
  IPs = {i1}
  MaxIPs = 1
  MaxFaults = 0
  NoIP = NoIP
  Nobody = Nobody
  Main = Main
  Torn = Torn
PROPERTIES
  StopSaves
CHECK_DEADLOCK FALSE
