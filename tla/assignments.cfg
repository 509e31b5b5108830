CONSTANTS
    Agents = {a1, a2}
    Groups = {g1}
    Targets = {t1, t2}
    Monitors = {m1}
    Behaviours = {b1, b2}
    Workers = {w1}
    None = None
    MaxRevision = 2
    MaxMonitorRevision = 2
    MaxStops = 1
SPECIFICATION Spec
INVARIANTS   ViewsAgree 
PROPERTY HistoryOnlyGrows
SYMMETRY Symmetry
CHECK_DEADLOCK FALSE
