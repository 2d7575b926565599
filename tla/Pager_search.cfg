SPECIFICATION Spec
CONSTANTS
    Lines <- MCLines
    MaxResults = 3
    Keywords = {"a", "b"}
    Malformed = {"b"}
    MaxKeywords = 2
    MaxSearches = 1
    Windows <- MCWindows
    ResultsMaxLen = 3
    Timeouts = {0, 2, 3}
    Word = 4096
INVARIANT TypeOK
INVARIANT ListingMatches
INVARIANT ListingFits
PROPERTY PagerEnds
\* The program comes to its end.
CHECK_DEADLOCK FALSE
