SPECIFICATION Spec
CONSTANTS
    Users = {u1}
    Realms = {n1, n2}
    Sessions = {s1}
    Requests = {r1, r2}
    Challenges = {c1, c2}
    Passkeys = {k1}
    None = None
    RecoveryCodes = 1
    MaxPassword = 2
    MaxStops = 1
INVARIANTS  ActiveRealmIsUsable 
SYMMETRY Symmetry
