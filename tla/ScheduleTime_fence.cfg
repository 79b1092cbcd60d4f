SPECIFICATION SpecTimes
CONSTANTS
  Stamps <- MCStamps
INVARIANT FenceIsChronological
