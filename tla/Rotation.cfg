\* One request, two members, a rate block that lapses, one step of others.
SPECIFICATION Spec
CONSTANTS
    p1 = p1
    None = None
    Causes = {"refused"}
    BlockTime = 1
    Requests = {r1}
    Agents = {a1}
    Routes = {x, y}
    RouteOf <- MCRouteOf
    Members = {m1, m2}
    MemberOf <- MCMemberOf
    Resets = {1}
    Found <- MCFound
    FoundPins <- MCFoundPins
    MaxTime = 1
    MaxAsked = 1
    MaxOutside = 1
INVARIANTS VerdictHonest 
PROPERTY EmptiedNotReasked
SYMMETRY Symmetry
CHECK_DEADLOCK FALSE
