SPECIFICATION Spec
CONSTANTS
    Word = 8
    Numbers <- MCNumbers
    Words = {"yes", "off"}
    ProfileNames = {"num", "hex"}
    CommandWords <- MCCommandWords
    MaxLines = 3
INVARIANT TypeOK
INVARIANT StoreChecked
INVARIANT DispatchUnique
INVARIANT CountAsDeclared
\* The model ends where the command starts or the program exits.
CHECK_DEADLOCK FALSE
