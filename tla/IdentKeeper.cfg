\* Six identifiers, reserved, disposed of and found invalid in any order.
SPECIFICATION Spec
CONSTANTS
    IdentMin = 1
    IdentMax = 6
    Modulus = 16
INVARIANT TypeOK
INVARIANT ListSound
INVARIANT FreeOneFound
PROPERTY PoolSpec
\* ReserveNoMemory returns with the mutex held: nobody gets any further.
CHECK_DEADLOCK FALSE
