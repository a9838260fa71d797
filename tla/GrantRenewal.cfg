\* Two callers in one process, one rotation or sign-in, one crash; tasks are
\* scheduled fairly.
SPECIFICATION FairSpec
CONSTANTS
    c1 = c1
    c2 = c2
    gateway = gateway
    None = None
    Processes = {gateway}
    Callers = {c1, c2}
    Host <- OneHost
    MaxGrant = 1
    MaxCrash = 1
INVARIANT RenewalInv
 
