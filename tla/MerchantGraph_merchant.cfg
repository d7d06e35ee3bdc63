CONSTANTS
    None = None
    Kind = {"project", "region", "document", "role"}
    Capability <- MCCapability
    Ident <- MCIdent
    Batch <- MCBatch
    Question <- MCQuestion
    Starts <- MCStarts
    MaxDepth = 4
    MaxCandidates = 3
    MaxEdits = 2
SPECIFICATION Spec
INVARIANTS
    SchemaStands
    AccessIsRevocable
    ListsAreExact
    SameVersionSameAnswer
PROPERTIES
    VocabularyOnlyWidens
