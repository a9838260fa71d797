\* A retirement and an in-flight renewal of the same member.
SPECIFICATION Spec
CONSTANTS
    p1 = p1
    m1 = m1
    None = None
    Processes = {p1}
    Members = {m1}
    Causes = {"refused"}
    BlockTime = 1
    Expiries <- MCExpiries
    MaxTime = 1
    MaxCalls = 1
    MaxLost = 1
PROPERTY RetirementStands
