SPECIFICATION Spec
CONSTANTS
    LineSize = 5
    KeywordLength = 3
    InitialSpace = 2
    Sessions <- MCSessions
    Typed = {97, 32, 10, 195}
    Queries <- MCQueries
    KeywordLists <- MCKeywordLists
INVARIANT TypeOK
INVARIANT BufferTerminated
INVARIANT ArrayFits
INVARIANT LoadFaithful
INVARIANT DumpFaithful
INVARIANT PrefixWhole
INVARIANT NoFalseChange
INVARIANT ChangeNoticed
INVARIANT MatchExact
\* The program comes to its end.
CHECK_DEADLOCK FALSE
