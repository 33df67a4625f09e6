CONSTANTS
    Protocols <- MCProtocols
    Chunks <- MCChunks
    ProtocolOf <- MCProtocolOf
    SourceOf <- MCSourceOf
    DocumentOf <- MCDocumentOf
    Proposals <- MCProposals
    KNarrow = 2
    KBroad = 3
    KPerProtocol = 2
    FetchMultiplier = 2
    MaxContext = 3
    None = None
SPECIFICATION Spec
INVARIANTS
    RightPassages
    FanOutCovers
    NarrowedToSql
    Grounded
CHECK_DEADLOCK FALSE
