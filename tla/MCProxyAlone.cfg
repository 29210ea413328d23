CONSTANTS
    proxy = proxy  fwd = fwd
    q1 = q1  q2 = q2
    r1 = r1  r2 = r2  r3 = r3
    s1 = s1  s2 = s2  s3 = s3  s4 = s4
    NONE = NONE  REVEAL = REVEAL  ANON = ANON
    Candidates <- MCCandidates
    Reals = {r1, r2, r3}
    Surrs = {s1, s2, s3, s4}
    Proxies = {proxy}
    Requests = {q1, q2}
    Procs = {proxy}
    Served <- AloneServed
    Carries <- AloneCarries
    Streamed = {q2}
    Chosen = {}
    Blocking = TRUE
    CacheSize = 2
    MaxTurns = 1
SPECIFICATION FairProxySpec
INVARIANTS OwnRestorable
PROPERTIES EveryRequestEnds
