\* One visualizer at a time, on instances small enough to reach the full pool,
\* the split root, the doubled table, the empty free list and the first old object; and
\* every small request of the four endpoints: the subnet calculator on 8-bit
\* addresses of four 2-bit octets, the banker's integers on 5 bits.
SPECIFICATION Spec
CONSTANTS
    MaxGestures <- MCMaxGestures
    MaxPoolSize = 3
    CarrierCount = 2
    FirstSpawn = 4
    LaterSpawn = 3
    PageFrames <- MCPageFrames
    NoFrame = NoFrame
    FreeFrames <- MCFreeFrames
    EdenCapacity = 3
    TenuringAge = 3
    MapKeys = {1, 4, 6, 8}
    SpreadHash <- MCSpreadHash
    MapSeeds <- MCMapSeeds
    DemoKeys <- MCDemoKeys
    InitialCapacity = 4
    TreeifyBin = 3
    MinTreeCapacity = 8
    UntreeifyBin = 2
    ServerNames <- MCServerNames
    HashToAngle <- MCHashToAngle
    KeyAngles = {45, 110, 190, 260, 320}
    VNodeCounts = {1, 3}
    InitialSsthresh = 16
    Orders = {3, 4}
    FirstOrder = 3
    Prefilled <- MCPrefilled
    DemoInserts <- MCDemoInserts
    TypedKeys = {12, 30}
    Repeats = 2
    MaxCylinder = 199
    DiskQueues <- MCDiskQueues
    BlockSizeBytes = 8
    DirectPointers = 12
    FileSizes = {0, 96, 97, 112, 113, 150}
    FirstSize = 60
    A = A
    B = B
    C = C
    D = D
    E = E
    Null = Null
    BitInputs <- MCBitInputs
    Capacities = {2, 4}
    Rates = {1, 3}
    Bursts = {3, 6}
    FirstCapacity = 4
    FirstRate = 1
    FirstBurst = 6
    BufferSize = 2
    Threads = {"T1", "T2"}
    NoThread = "nobody"
    Coordinates = {0, 1}
    Drifts = {9, 24, 25}
    QuizData <- MCQuizData
    Unanswered = 0
    Requests <- MCRequests
    MaxTimeline = 20
    PageRequests <- MCPageRequests
    MaxFrames = 6
    MaxReferences = 13
    BankRequests <- MCBankRequests
    MaxWord = 15
    OctetBits = 2
    SubnetRequests <- MCSubnetRequests
CHECK_DEADLOCK FALSE
INVARIANTS
    EnginesAreSound
    LessonsAreRight
    ShownIsSound
    AnswersAreSound
PROPERTIES
    OnlyItsOwnKeysMove
    PlaybackEnds
