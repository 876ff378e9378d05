CONSTANTS
    ana = ana
    bea = bea
    eva = eva
    luz = luz
    c1 = c1
    c2 = c2
    k1 = k1
    k2 = k2
    s1 = s1
    None = None
    Users = {ana, bea, eva, luz}
    Owners = {ana, bea}
    Admins = {eva}
    Clients = {c1, c2}
    Sockets = {s1}
    Keys = {k1, k2}
    Offered = {"CREATE", "DEACTIVATE", "REACTIVATE", "RESET", "CHANGE", "ASSIGN", "REVOKE"}
    Clock = {1, 2}
    MaxChanges = 3
    Scenarios = {"sockets"}
SYMMETRY Same
SPECIFICATION ScenarioSpec
INVARIANTS
    SocketsSeeTheAccount
