SPECIFICATION Spec
CONSTANTS
    Users = {u1, u2}
    Orgs = {o1}
    Tokens = {t1}
    None = None
    MaxLinks = 1
    MaxDisturbances = 1
PROPERTY RoleIsOwn
