SPECIFICATION FairSpec
CONSTANTS
  Services = {s1}
  Processes = {p1}
  Urls = {u1, u2}
  Intervals = {2, 4}
  MinInterval = 2
  Jitter = 1
  SyncPeriod = 3
  Grace = 1
  MaxLag = 2
  Cycle = 4
  Long = 6
  MaxChanges = 2
  MaxFaults = 0
PROPERTY
  ArgumentsFollowServices
