SPECIFICATION Spec
CONSTANTS
    none = none
    norule = norule
    ann = ann
    everyUser = everyUser
    team = team
    crew = crew
    doc = doc
    everyDoc = everyDoc
    folder = folder
    Node <- MCNode
    Type <- MCType
    TypeOf <- MCTypeOf
    Star <- MCStar
    Name <- MCName
    Expr <- MCExpr
    Rule <- MCRule
    NoRule = norule
    Declared <- MCDeclared
    Transitive <- MCTransitive
    ObjectStar <- MCObjectStar
    SubjectStar <- MCSubjectStar
    Edge <- walkEdges
    NoName = none
    Start <- walkStart
    Request <- walkRequest
    MaxDepth = 3
    MaxWrites = 1
    Interpretation <- MCInterpretation
INVARIANTS AllowedHasAPath DenialsAreExact LoopsNeverExhaustDepth SameAnswerInAnyOrder
