SPECIFICATION Spec
CONSTANTS
  Sizes = {0, 1, 2, 3, 4}
  MinCap = 1
  MaxCap = 3
  MaxSamples = 6
INVARIANT NewestFirst
PROPERTY ImplementsSampleLog
PROPERTY ResizeLosesOnlyRacing
