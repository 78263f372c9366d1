CONSTANTS
  Amounts = {1, 2}
  Losses = {0}
  None = None
  MaxMoments = 4
  MaxNews = 1

CHECK_DEADLOCK FALSE
SPECIFICATION Spec

INVARIANT
  UserShowsMargin
