SPECIFICATION SpecV
CONSTANTS
  MaxLong = 7
  Number <- Numbers
  MaxLength = 3
  None = None
  MaxEntries = 3
  NULL = NULL
INVARIANT RangeTakesItsItems NumbersSurvive ValuesSurvive HashSurvives
