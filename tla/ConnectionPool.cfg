\* As many requests at a time as connections: the code has ten of these and
\* lets up to a hundred requests in.
SPECIFICATION LiveSpec
CONSTANTS
    Requests = {r1, r2}
    PoolSize = 2
    Nobody = Nobody
PROPERTIES ConfirmationsSerialized
