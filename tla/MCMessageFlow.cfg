SPECIFICATION Spec
CONSTANTS
    newer = newer
    sent = sent
    Received <- MCReceived
    OwnReceived = {newer}
    Sent = {sent}
    Supersedes <- MCSupersedes
    SentStatus = "Unknown"
    Reported = {sent}
    Reports = {"Delivered", "Read"}
    NoMessage = NoMessage
    NoRow = NoRow
    MaxReports = 2
    MaxHappenings = 3
CHECK_DEADLOCK FALSE
INVARIANTS
    QueuesAreServed
    NothingMissed
    RemovedStayRemoved
PROPERTIES
    StatusesAreKept
    EventuallySettled
