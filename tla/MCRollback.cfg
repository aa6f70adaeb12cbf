SPECIFICATION Spec
CONSTANTS
    alice = alice
    call = call
    photo = photo
    hello = hello
    joined = joined
    ring = ring
    NoEvent = NoEvent
    NoThread = NoThread
    TextThreads <- MCTextThreads
    VoiceThreads <- MCVoiceThreads
    Events <- MCEvents
    ThreadOf <- MCThreadOf
    InfoEvents <- MCInfoEvents
    MultipartEvents <- MCMultipartEvents
    Stamp <- MCStamp
    Stamps <- MCStamps
    Requests <- MCRequests
    StaleWriters = FALSE
PROPERTY
    RollbackRevertsBatch
