\* Auto and a client compete for one group under crashes, refused saves, repeats
\* and the switch of Auto.
SPECIFICATION Spec
CONSTANTS
    r1 = r1
    r2 = r2
    k1 = k1
    Runs <- Requests
    GroupOf <- OneGroup
    Commands <- Starts
    Budget = 2
    Refusals = {"end"}
    None = None
INVARIANTS TypeOK CommandOnce OneHolder
PROPERTIES RequestSettles
