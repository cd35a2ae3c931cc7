SPECIFICATION Spec
CONSTANTS
    Users = {u1, u2, u3}
    Founder = u1
    Requests = {q1, q2}
    Invitations = {i1, i2}
    None = None
SYMMETRY Interchangeable
VIEW WhatIsRead
INVARIANTS
    TypeOK
    LastOwnerKept
PROPERTIES
    OwnersMakeOwners
    RevokedAdmitsNobody
CHECK_DEADLOCK FALSE
