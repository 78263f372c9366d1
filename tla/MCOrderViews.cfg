CONSTANTS
  Half = 8
  Limit = 3
  Gap = 2
  Commands = {1, 2}
  Digits = {2, 4}
  Prices = {1, 2}
  Volumes = {100}
  Memory = {0}
  None = None
  MaxChanges = 4
  MaxFeed = 2

CHECK_DEADLOCK FALSE
SPECIFICATION Spec

INVARIANTS
  TypeOK
  Prompt
  FreshProfit
  ClosedShowsFinal
  PipsIgnoreExtraDigit
  PipsAndProfitAgree
PROPERTIES
  Spaced
  ProfitNeverGoesBack
