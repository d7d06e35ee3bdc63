SPECIFICATION MCSpec
CONSTANTS
    c1 = c1
    c2 = c2
    phone = phone
    tier = tier
    text = text
    word = word
    number = number
    x1 = x1
    e1 = e1
    h1 = h1
    h2 = h2
    None = None
    Blank = Blank
    db = db
    wh = wh
    hook = hook
    a1 = a1
    a2 = a2
    s1 = s1
    s2 = s2
    Customer = {c1, c2}
    Key = {phone, tier}
    Default = {phone}
    Value = {text, word, number}
    Kind <- MCKind
    Printed <- MCPrinted
    External = {x1}
    Email = {e1}
    Wish <- MCWish
    DefinitionPatch <- MCDefinitionPatch
    Defined <- MCDefined
    Handler = {h1, h2}
    MaxEdits = 1
    MaxRequests = 3
    Connection = {db, wh, hook}
    ConnectionKind <- MCConnectionKind
    Address = {a1, a2}
    Secret = {s1, s2}
    NewConnection <- MCNewConnection
    ConnectionPatch <- MCConnectionPatch
    MaxConnectionRequests = 4
SYMMETRY Symmetry
INVARIANTS
    StoredIsAsked
    AttributesAreTyped
    TriggersMissNothing
    ConnectedIsEarned
    SecretsServeOnlyTheirRow
CHECK_DEADLOCK FALSE
