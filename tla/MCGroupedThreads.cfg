SPECIFICATION GroupedSpec
CONSTANTS
    sim1 = sim1
    sim2 = sim2
    room = room
    Threads <- MCThreads
    KeyOrder <- MCKeyOrder
    Grouping <- MCGrouping
    ChatType <- MCChatType
    SameNumbers <- MCSameNumbers
    VoiceKeys = {}
    Stamps = {1, 2}
    NoConversation = NoConversation
    NoKey = NoKey
    Rooms = {room}
    Members = {ann}
    ann = ann
    InitialStores <- MCInitialStores
    PageSize = 2
    MaxOperations = 3
CHECK_DEADLOCK FALSE
INVARIANTS
    RowsFollowService
    FetchedListsMissNobody
    EverythingIsShown
