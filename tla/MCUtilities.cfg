\* The list is as mlog.c uses it: fresh pointers for every removal, one node per handle.
CONSTANTS
    Nodes = {n1, n2, n3}
    Handles = {h1, h2, h3}
    NULL = NULL
    FreshPointers = TRUE
    UniqueHandles = TRUE
    letter = letter
    blank = blank
    Colon = colon
    Characters = {letter, blank, colon}
    Separators = {{blank}, {colon}}
    default_sep = {blank}
    MaxString = 5
    SPLIT_SIZE_INITIAL = 1
    SPLIT_GROW_FACTOR = 2
    BinDirectories <- PathDirectories
    Listings <- DirectoryListings
    BUFSIZE = 4
    InputOctets = {100, 255}
    MaxInput = 5
    Indeterminate = {27}
    Places <- ThreePlaces
    Cwd = "cwd"
    Extensions <- LongerNames
    FileSystems <- AnythingThere
    BlockSizes = {1, 2, 4}
    MaxPlain = 9
    UInt64 = 16
    MaxCount = 12
    Garbage = Garbage
    Items = {i1, i2}
    GC_COUNT = 3
    Word = 32
    MemCells = 16
    InitialSize = 0
    MaxSize = 3
    NoItem = NULL
SPECIFICATION MCSpec
INVARIANTS
    ChainIsList FreenodeIsRemoved
    SplitGivesWords WordsFit BinsListsExecutables
    Mb64Encodes FollowFindsTarget CryptOwns CryptFits FibIsSequence
    SeqQueueInv SeqBoundedMemory
PROPERTIES RemoveEnds FollowEnds ImplementsSeqFifo
