CONSTANTS
    viewer = viewer
    editor = editor
    team = team
    org = org
    read = read
    alice = alice
    MaxSetDepth = 1
    Role = {viewer, editor}
    Group = {team, org}
    Capability = {read}
    User = {alice}
    Everyone = Everyone
    AllCapabilities = AllCapabilities
    Grant <- Grants
    Start <- Starts
    Request = {q1, q2}
    NoSet = NoSet
    q1 = q1
    q2 = q2
    MaxFaults = 1
SPECIFICATION Spec
SYMMETRY Interchangeable
INVARIANT CacheIsCurrentOrOwed SerialEditsMaterialise
