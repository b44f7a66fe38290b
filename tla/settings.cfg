SPECIFICATION SettingsSpec
CONSTANTS
    c1 = c1
    c2 = c2
    c3 = c3
    s1 = s1
    s2 = s2
    Calls = {c1, c2, c3}
    Supporters = {s1, s2}
    MaxGrants = 3
    MaxVersions = 3
    MaxRows = 3
    MaxCount = 3
INVARIANTS OneGrant PolicyInForce SendingIsChecked StageEarned
SYMMETRY Symmetry
CHECK_DEADLOCK FALSE
