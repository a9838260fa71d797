\* Two gateways on one register, and removals beside takes.
SPECIFICATION SceneSpec
CONSTANTS
    t1 = t1
    t2 = t2
    g1 = g1
    g2 = g2
    p1 = p1
    s1 = s1
    None = None
    Tasks = {t1, t2}
    Gateways = {g1, g2}
    GatewayOf <- TwoGateways
    Sessions = {s1, s2}
    Agents = {a1}
    Providers = {p1}
    Members = {m1}
    ProviderOf <- MCProviderOf
    Limit <- MCLimit
    MaxTime = 1
    Removers = {r1, r2}
    RemoverOf <- OneRemoverGateway
INVARIANTS WithinLimit OneStanding RemovalSparesLeased
PROPERTIES EndedOnlyByOwner 
SYMMETRY Symmetry
CHECK_DEADLOCK FALSE
