CONSTANTS
    c1 = c1
    c2 = c2
    u1 = u1
    u2 = u2
    u3 = u3
    NoClient = NoClient
    Clients = {c1, c2}
    Users = {u1, u2, u3}
SPECIFICATION Spec
INVARIANTS OneHolder
PROPERTY IdleClientTaken
