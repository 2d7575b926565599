SPECIFICATION Spec
CONSTANTS
    B = 4
    KeySize = 2
    Discarded = 3
    StirInterval = 6
    Bounds = {1, 100, 128, 200}
    MaxPasswordLength = 2
    UInt = 8
    PasswordCounts = {0, 2}
    CharacterCounts = {0, 2, 3, 7}
    CmdCharacterCounts = {0, 1}
    CharacterSets <- MCCharacterSets
INVARIANT TypeOK
INVARIANT StateIsPermutation
INVARIANT KeyRenewed
INVARIANT Unbiased
INVARIANT PrintedAsAsked
PROPERTY HeaviestAdded
\* The program comes to its end.
CHECK_DEADLOCK FALSE
