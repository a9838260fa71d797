\* The pool's accounts, one part at a time; every part may come to rest.
SPECIFICATION PartSpec
CONSTANTS
    p1 = p1
    p2 = p2
    a1 = a1
    a2 = a2
    i1 = i1
    m1 = m1
    m2 = m2
    m3 = m3
    c1 = c1
    c2 = c2
    None = None
    \* SignIn
    Accounts = {a1}
    Cooldown = 1
    MaxNow = 1
    MaxRevision = 1
    MaxEvents = 3
    NoRevision = NoRevision
    \* Acquisition
    Slots = {m1, m2, m3}
    Founders = {m1}
    AccountOf <- MCAccountOf
    Readings <- MCReadings
    Cap = 2
    MaxAsks = 3
    MaxRuns = 1
    Nobody = Nobody
    \* SavedResets
    Redeemers = {p1, p2}
    Subscribers = {m1}
    CreditIds = {c1, c2}
    Expiring = {c1}
    Keeps = {0}
    MaxSends = 2
    MaxOutside = 1
    Free = Free
    \* PoolOverlay
    Handlers = {p1, p2}
    MemberIds = {i1}
    MaxPages = 2
    NoOne = NoOne
    \* Enrolment
    Enrollers = {p1, p2}
    Persons = {a1, a2}
    Mails = {m1}
    IdOf <- MCIdOf
    ReceiptOf <- MCReceiptOf
    MaxRounds = 2
    MaxOwner = 2
    NoPerson = NoPerson
    \* Listings
    Askers = {c1, c2}
    Refresher = p1
    MaxReadings = 2
    NoReading = NoReading
    \* UsageLedger
    Processes = {p1}
    Members = {m1}
    Causes = {"refused"}
    BlockTime = 1
    Expiries <- MCExpiries
    MaxTime = 1
    MaxCalls = 1
    MaxLost = 1
INVARIANTS   OneRedemptionAtATime CodeSpentOnce
           ListingsSafe LedgerInv
PROPERTIES EnrolmentSafe CountsKept VerdictKept
CHECK_DEADLOCK FALSE
