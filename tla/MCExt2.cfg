CONSTANTS
    Name = {"f", "file"}
    FileName = "file"
    PrefixesOf <- MCPrefixesOf
    NumBlocks = 11
    Meta = 3
    Reserved = 5
    StrayBit = 2
    NumInodes = 6
    StrayIno = 5
    FirstIno = 3
    FileIno = 5
    Direct = 3
    SizeAt = 5
    LinksAt = 7
    InodeWords = 9
    FileParts = {1, 2, 5, 11, 13}
    MaxLinks = 65535
    MaxCommands = 4
SPECIFICATION Spec
INVARIANTS
    TypeOK
    CountsOnlyOverstate
    MetadataIsIntact
    DirectoriesStay
PROPERTY OnlyNeighboursAreLost
