CONSTANTS
    a = a
    b = b
    free = free
    pro = pro
    monthly = monthly
    yearly = yearly
    cusA = cusA
    cusA2 = cusA2
    cusB = cusB
    subA = subA
    subB = subB
    d1 = d1
    d2 = d2
    k1 = k1
    k2 = k2
    Org = {a}
    NoOrg = NoOrg
    Plan = {free, pro}
    NoPlan = NoPlan
    Price = {monthly, yearly}
    NoPrice = NoPrice
    Customer = {cusA, cusA2}
    NoCustomer = NoCustomer
    Sub = {subA}
    NoSub = NoSub
    Owner <- Owners
    Event = {1, 2}
    NoEvent = 0
    Content <- OneSubscription
    Delivery = {d1, d2}
    Checkout = {k1, k2}
    Offer <- Offers
    FreePlan = free
    Choice <- Comps
    MaxFaults = 1
    MaxDeletes = 1
SPECIFICATION Spec
SYMMETRY Interchangeable
INVARIANT PaymentsAreNotOverlooked StatusIsNewest
PROPERTY InboxPromise
