CONSTANTS
    a = a
    b = b
    free = free
    pro = pro
    monthly = monthly
    yearly = yearly
    cusA = cusA
    cusA2 = cusA2
    cusB = cusB
    subA = subA
    subB = subB
    d1 = d1
    d2 = d2
    k1 = k1
    k2 = k2
    Org = {a, b}
    NoOrg = NoOrg
    Plan = {free, pro}
    NoPlan = NoPlan
    Price = {monthly, yearly}
    NoPrice = NoPrice
    Customer = {cusA, cusB}
    NoCustomer = NoCustomer
    Sub = {subA, subB}
    NoSub = NoSub
    Owner <- Owners
    Event = {1, 2}
    NoEvent = 0
    Content <- TwoOrganisations
    Delivery = {d1, d2}
    Checkout = {k1, k2}
    Offer <- Offers
    FreePlan = free
    Choice = {}
    MaxFaults = 1
    MaxDeletes = 1
SPECIFICATION FairSpec
INVARIANT OwnMoneyOnly
PROPERTY EveryEventSettles
