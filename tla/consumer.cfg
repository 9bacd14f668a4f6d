SPECIFICATION FairSpec
CONSTANTS
  s1 = s1
  s2 = s2
  k1 = k1
  k2 = k2
  Services <- MCServices
  Keys <- MCKeys
  SvcOf <- MCSvcOf
  Workers = {w1, w2}
  Junk = Junk
  BatchSize = 2
  ResultsMaxLen = 2
  MaxEntries = 3
  MaxFaults = 2
INVARIANTS
  TypeOK
  OneHandler
  FedAtMostOnce
  StoredIsFed
  StrandedPerFault
PROPERTIES
  AckMeansAccounted
  ImplementsLedger
  EveryEntryIsAcked
CHECK_DEADLOCK FALSE
