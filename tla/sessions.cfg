SPECIFICATION FairSpec
CONSTANTS
    Users = {u1, u2}
    Orgs = {o1, o2}
    Tokens = {t1}
    None = None
    MaxLinks = 1
    MaxDisturbances = 2
INVARIANT TypeOK
PROPERTIES
    CurrentIsOwn
    EmailLinkLands
    RequestsAreServed
