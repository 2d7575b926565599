SPECIFICATION Spec
CONSTANTS
    LineSize = 5
    KeywordLength = 3
    InitialSpace = 2
    Sessions <- MCSessions
    Typed = {97, 32, 10, 195}
    Queries <- MCQueries
    KeywordLists <- MCKeywordLists
CHECK_DEADLOCK FALSE
INVARIANT LinesIntact
