\* What a request meets, one part at a time; every part may come to rest.
SPECIFICATION PartSpec
CONSTANTS
    t1 = t1
    t2 = t2
    w1 = w1
    u1 = u1
    p1 = p1
    p2 = p2
    a1 = a1
    a2 = a2
    d1 = d1
    d2 = d2
    x = x
    y = y
    \* Admission
    Visitors = {v1}
    Declarable <- MCDeclarable
    WorkloadTokens = {w1}
    PersonTokens = {u1}
    AgentOf <- MCAgentOf
    RequiredAliases = {a1}
    RequiredClient = "backend"
    MaxVisits = 1
    MaxRevocations = 1
    NoAgent = NoAgent
    NoScope = NoScope
    NoToken = NoToken
    \* ChatEdge
    Chats = {q1, q2}
    Bodies = {b1}
    Days = {d1}
    MaxStops = 1
    NoAnswer = NoAnswer
    \* EventStream
    ToolCalls = {1, 2}
    MaxEvents = 4
    \* SseFrames
    MaxBytes = 5
    \* RouteRegistry
    Editors = {e1, e2}
    Aliases = {a1, a2}
    RequiredNames = {a1}
    Local = {d1, d2}
    Installed <- MCInstalled
    Offered <- MCOffered
    MaxEdits = 2
    NoRoute = NoRoute
    \* ModelCatalog
    Requests = {q1, q2}
    Beside = Beside
    MaxDocument = 3
    Unparsable = {2}
    MaxRestarts = 1
    NoDocument = NoDocument
    \* ModelDiscovery
    Discovered <- MCDiscovered
    RoutingWalk = RoutingWalk
    ConsoleWalk = ConsoleWalk
    Unlocked = Unlocked
    \* Readiness
    Questions = {q1}
    Sweeps = {s1}
    Calls = {k1}
    MaxSweeps = 2
    MaxCalls = 1
INVARIANTS AdmissionSafe ChatSafe  WholeEvents ColdFetchOnce 
           
PROPERTY RegistrySafe
    EditsAtOnce
CHECK_DEADLOCK FALSE
