SPECIFICATION Spec
CONSTANTS
    sim1 = sim1
    sim2 = sim2
    sip = sip
    mms = mms
    NoConversation = NoConversation
    NoKey = NoKey
    Threads <- MCThreads
    KeyOrder <- MCKeyOrder
    Grouping <- MCGrouping
    ChatType <- MCChatType
    SameNumbers <- MCSameNumbers
    VoiceKeys <- MCVoiceKeys
    Stamps <- MCStamps
INVARIANTS
    CacheIsWellFormed
    ConversationsAreComplete
    CacheMirrorsTable
PROPERTIES
    RestartKeepsConversations
    RemovalPromotesOthers
