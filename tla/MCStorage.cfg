SPECIFICATION Spec
CONSTANTS
    a = a  b = b  low = low  high = high  Absent = Absent
    Accounts <- MCAccounts
    Keys = {1}
    MaxValue = 1
    Worlds <- MCWorlds
    Specs = {1, 6}
    Buckets = {low, high}
    SaltEnvs <- MCSaltEnvs
    Written = {b}
    bucket_id_for_account <- MCBucketOfAccount
    bucket_id_for_slot <- MCBucketOfSlot
    created_address = b
    Creators = {b}
    MaxNonce = 1
    MaxDepth = 2
    MaxCharges = 2
    Preloaded = {b}
INVARIANTS GrowthIsPaidOrGiven DelegationWalkEnds
PROPERTY InspectionIsInvisibleButForPreloaded
CHECK_DEADLOCK FALSE
