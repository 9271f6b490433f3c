SPECIFICATION Spec
CONSTANTS
    Users = {a, b, c}
    a = a
    b = b
    c = c
    Roles = {admin, r, n}
    n = n
    admin = admin
    r = r
    AdminRole = admin
    Catalog = {ManageUsers, ManageRoles, x}
    x = x
    Super = Super
    ManageUsers = ManageUsers
    ManageRoles = ManageRoles
    FirstRole <- SeededRole
    FirstUser <- SeededUser
    Grants <- RoleGrants
    Requests = {q1, q2, q3}
    MaxAsked = 4
SYMMETRY Symmetry
INVARIANTS
    TypeOK
    NoStaleGrants
    KilledStaysDead
    ManagerRemains
CHECK_DEADLOCK FALSE
