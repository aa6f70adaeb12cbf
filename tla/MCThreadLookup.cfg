SPECIFICATION LookupSpec
CONSTANTS
    NoThread = NoThread
    MaxThreads = 2
    Accounts <- MCAccounts
    Protocol <- MCProtocol
    Ids <- MCIds
    RoomIds <- MCRooms
    Normal <- MCNormal
    LongNumbers <- MCLong
    SimilarNumbers <- MCSimilar
    Lists <- MCLists
INVARIANTS
    AnswersMatch
    NoThreadTwice
PROPERTIES
    ConversationsStay
