CONSTANTS
  MaxEvents = 4
  MaxRetries = 2
  MaxDrops = 3
  MaxDeaths = 2
SPECIFICATION FairStreamSpec
INVARIANT ShownIsPrefix
PROPERTY RecordedEndIsShown
\* A finished page stops.
CHECK_DEADLOCK FALSE
