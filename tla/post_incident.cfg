SPECIFICATION FairSpec
CONSTANTS
  leak = leak
  overload = overload
  t1 = t1
  t2 = t2
  Requests = {q1}
  Rules = {mail, hook}
  OnIncident = {mail, hook}
  OnResolve = {mail}
  Answers <- MCAnswers
  Text <- MCText
  None = None
  Malformed = Malformed
  MaxFaults = 1
INVARIANTS
  TypeOK
  TextOfStructured
  ContextFollowsSummary
  SentMeansTried
  OpenedAlertCarriesSummary
PROPERTIES
  SummaryIsKept
  WantedRulesAreTold
CHECK_DEADLOCK FALSE
