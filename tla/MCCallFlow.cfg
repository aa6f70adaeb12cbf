SPECIFICATION CallSpec
CONSTANTS
    NoThread = NoThread
    NoTime = NoTime
    NoState = NoState
    NoContext = NoContext
    incoming = incoming
    outgoing = outgoing
    text = text
    flash = flash
    batch1 = batch1
    batch2 = batch2
    MaxThreads = 2
    MaxTime = 2
    MaxKills = 1
    Accounts <- MCAccounts
    Protocol <- MCProtocol
    Ids <- MCIds
    RoomIds = {}
    Normal <- MCNormal
    LongNumbers <- MCIds
    SimilarNumbers <- MCSimilar
    Lists <- MCLists
    Calls = {incoming, outgoing}
    TextChannels = {text}
    FlashMessages = {flash}
    Contexts = {batch1, batch2}
    Batch <- MCBatch
    CallWith <- MCCallWith
    Incoming = {incoming}
    RemoteMembers <- MCRemoteMembers
INVARIANTS
    CallsAreFollowed
    FinishedMeansReady
PROPERTIES
    CallsAreRecorded
    ContextsAreFinished
