SPECIFICATION Spec
CONSTANTS
    Missing = Missing
    Parallelism = {0, 2}
    CommandLines <- MCCommandLines
    Contents <- MCContents
INVARIANTS VerdictIsHonest FailsFast TracedOnce
PROPERTY Terminates
CHECK_DEADLOCK FALSE
