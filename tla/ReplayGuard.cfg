\* Two callers, two agents, four genuine requests.
SPECIFICATION FairSpec
CONSTANTS
    a1 = a1
    a2 = a2
    s1 = s1
    s2 = s2
    NoTask = NoTask
    Tasks = {t1, t2}
    Agents = {a1, a2}
    Signatures = {s1, s2}
    Timestamps <- MCTimestamps
    Genuine <- MCGenuine
INVARIANT AcceptedOnce
PROPERTIES NewestKept LetInOnceInOrder WaiterAnswered
