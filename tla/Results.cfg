SPECIFICATION ResultSpec
CONSTANTS
    d1 = d1  d2 = d2  j1 = j1  j2 = j2  p1 = p1  p2 = p2
    Workflows = {1, 2}
    Deliverers = {d1, d2}
    Projectors = {j1, j2}
    Publishers = {p1, p2}
    Setups <- AllSetups
    MaxProcessings = 3
    MaxVersion = 3
    MaxFaults = 1
    MaxPublications = 5
    MaxChecks = 4
INVARIANTS ConclusionsEarned ShownUnlessOvertaken ChecksAccounted
PROPERTIES ResultSettles
CHECK_DEADLOCK FALSE
