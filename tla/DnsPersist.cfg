SPECIFICATION LiveSpec
CONSTANTS
  Resolvers = {r1, r2}
  IPs = {i1, i2}
  MaxIPs = 1
  MaxFaults = 1
  NoIP = NoIP
  Nobody = Nobody
  Main = Main
  Torn = Torn
INVARIANTS
  FileNeverTorn
  CleanMeansSaved
PROPERTIES
  LearnedGetsSaved
