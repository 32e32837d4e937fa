SPECIFICATION HistorySpec
CONSTANTS
    Workers = {w1, w2}
    Tenants = {t1, t2}
    Primary = t1
    Claimable = {t2}
    Users = {u1, u2}
    Roles = {"standart"}
    NoTenant = NoTenant
SYMMETRY Symmetry
PROPERTIES AdminRemains ChangedByAdmins
