SPECIFICATION Spec
CONSTANTS
  MaxAbsRate = 2
  MinDuration <- MCMinDuration
  MaxQueryLogSize = 2
  Floor <- MCFloor
  Ceil = 4
  MaxDuration = 6
  Views <- MCViews
  BootView <- RateView2
  Documents <- MCDocuments
  Handlers = {h1}
  MaxTime = 4
  MaxSteps = 1
  MaxCompiles = 2
INVARIANT RepliesAreConsistent
INVARIANT ValidatedDocumentsServe
PROPERTY RateKeepsTime
CHECK_DEADLOCK FALSE
