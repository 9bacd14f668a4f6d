SPECIFICATION Spec
CONSTANTS
  k1 = k1
  k2 = k2
  form = form
  Checks <- MCChecks
  BodyOf <- MCBodyOf
  None = None
  NoneText = NoneText
  Codes = {200, 503}
  Expected = 200
  Millis = {0}
  Retries = 1
  PageSize = 2
  OldRows = 3
INVARIANTS
  TypeOK
  RowTellsTries
  BodySurvives
  PagingMissesNothing
CHECK_DEADLOCK FALSE
