CONSTANTS
    Socket = {s1, s2, s3}
    Key = {k1, k2}
    Group = {g1}
    Caster = {c1}
    All = All
    None = None
SPECIFICATION Spec
SYMMETRY Symmetric
INVARIANTS
    EverybodyReached
PROPERTIES SteadyStay DeadPruned
CHECK_DEADLOCK FALSE
