\* Two scenes of what must eventually happen, fairly scheduled.
SPECIFICATION UpkeepSpec
CONSTANTS
    Tracked = {m1, m2}
    MaxClock = 3
    Unstated = Unstated
    g1 = g1
    p1 = p1
    None = None
    Tasks = {t1, t2}
    Gateways = {g1}
    GatewayOf <- OneGateway
    Sessions = {s1}
    Agents = {}
    Providers = {p1}
    Members = {m1}
    ProviderOf <- MCProviderOf
    Limit <- MCLimit
    MaxTime = 1
INVARIANT LoopInv
PROPERTIES  ReadMomentServed  
CHECK_DEADLOCK FALSE
