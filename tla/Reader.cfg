CONSTANTS
    Texts <- MCTexts
    Documents <- MCDocuments
    MaxDepth = 8
SPECIFICATION ReaderSpec
INVARIANTS
    TypeOK
    NothingSkipped
    LexedAsGraphQL
    SentIsRead
    DeclaresWhatItUses
