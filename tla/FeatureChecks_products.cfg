CONSTANTS
    Plan = {p1, p2}
    Interval = {month}
    Amount = {a1, a2}
    Name = {n1, n2}
    Account = {mine, other}
    Product = {first, s1, s2}
    Price = {firstp, oldp, r1, r2}
    FirstProduct = first
    FirstPrice = firstp
    OldPrice = oldp
    None = None
    Rollouts = {"some", "all"}
    Subjects = {"out", "nobody"}
    Feature = {f1, f2}
    Handler = {h1, h2}
    Starts <- FewRequests
CHECK_DEADLOCK FALSE
SPECIFICATION Spec
SYMMETRY Interchangeable
INVARIANT ListedIsCharged DuplicatesAreExcused ReferencesStand StandingGroundsDecide
