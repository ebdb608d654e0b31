SPECIFICATION Spec
CONSTANTS
    writer = writer
    reader = reader
    Keys <- MCKeys
    Cursor <- MCCursor
    Reader <- MCReader
    Scenes <- MCScenes
    Width = 6
    NoRow = NoRow
    Corrupt = Corrupt
INVARIANTS
    TypeOK
    BtreesAgree
    LookupIsExact
    
    SeekFinds
    
PROPERTIES
    OrphanReads
