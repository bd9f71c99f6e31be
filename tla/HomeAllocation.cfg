SPECIFICATION Spec
CONSTANTS
    Adm = {a1, a2}
    Lane = {l1, l2}
    AdHoc = AdHoc
    Profile = {p1, p2}
    Digest = {d1, d2}
    Home = {h1, h2}
    None = None
    Place <- OnePlace
    Later = {"active", "unknown", "released", "broken"}
SYMMETRY Symmetry
INVARIANTS
    TypeOK
    AllocationRule
PROPERTIES
    ImplementsTenancy
