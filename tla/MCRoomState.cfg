SPECIFICATION Spec
CONSTANTS
    ann = ann
    Contacts <- MCContacts
    Self = Self
    Title = Title
    NoSubject = NoSubject
    Subjects = {NoSubject, tea}
    NoThread = NoThread
    Nothing = Nothing
    Protocols = {"ofono", "irc", "jabber"}
    MaxChannels = 2
    MaxHappenings = 3
CHECK_DEADLOCK FALSE
INVARIANTS
    TablesFollowRoom
    ClientsKnowRoom
    NoEventRepeated
