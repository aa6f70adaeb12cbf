CONSTANTS
    number = number
    uri = uri
    other = other
    anna = anna
    ben = ben
    Ids <- MCIds
    Normal <- MCNormal
    Addressable <- MCAddressable
    Contacts <- MCContacts
    Nobody = Nobody
    NotKnown = NotKnown
    NotShown = NotShown
    MaxOperations = 3

SPECIFICATION Spec
SYMMETRY ContactSymmetry
INVARIANTS
    MatcherFollowsBook
    ShownMatchesBook
