SPECIFICATION Spec
CONSTANTS
    MaxTime = 2
    MaxBlock = 2
    MaxBalance = 1
    Genesis = {"none", "other", "v1.1.0"}
    Funded = {"oracle"}
    Written = {"oracle"}
    Configured <- MCConfigured
INVARIANT BlockIsPrepared
PROPERTIES UpgradesAtForks SpecOnlyAdvances
CHECK_DEADLOCK FALSE
