CONSTANTS
  Amounts = {0, 1}
  Losses = {0, 1}
  None = None
  MaxMoments = 4
  MaxNews = 1

CHECK_DEADLOCK FALSE
SPECIFICATION Spec

INVARIANTS
  TypeOK
  MarginIsOfMoments
PROPERTIES
  MarginNeverGoesBack
