SPECIFICATION Spec
CONSTANTS
    c1 = c1
    c2 = c2
    c3 = c3
    listing = listing
    panel = panel
    anilist = anilist
    tsukihime = tsukihime
    page = page
    NoKey = NoKey
    NoCall = NoCall
    Calls <- Threads
    KeyOf <- Page
    Operations <- Scopes
    OpOf <- Scope
    Timed <- Deadlines
    Budget <- Reads
    Providers <- Both
    Limits <- Windows
    Cooldowns <- Delay
    PoolSize = 1
INVARIANTS TypeOK OwnLimits OneInFlight NoStaleRead RatesKept CooldownInForce
PROPERTIES CallsReturn
CHECK_DEADLOCK FALSE
