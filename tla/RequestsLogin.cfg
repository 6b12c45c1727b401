\* Reloads that turn authentication on and off.
CONSTANTS
    h = h
    u = u
    t = t
    client = client
    Clients = {client}
    Calls <- ByUser
    Configs <- AuthReloads
    Invalid = Invalid
    None = None
SPECIFICATION Spec
INVARIANTS
    UsersCanLogIn
