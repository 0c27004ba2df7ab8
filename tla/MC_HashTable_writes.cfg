\* The table as db_init would allocate it.  The code as built never calls
\* db_init, so every db_* call fails at once (see the README); these runs
\* check the table logic for the day it is wired in.
CONSTANTS
    Key <- MCKey
    Value <- MCValue
    V1 = V1
    V2 = V2
    NotFound = NotFound
    HashSize = 1024
    MaxKeySize = 255
    DbInitCalled = TRUE
SPECIFICATION Spec
INVARIANT TypeOK KeysWhereHashed
PROPERTY WritesTakeEffect
