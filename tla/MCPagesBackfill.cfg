SPECIFICATION Spec
CONSTANTS
    gia = gia  about = about
    hero = hero  essay = essay  legacy = legacy  banner = banner
    b1 = b1  b2 = b2  b3 = b3
    Pages = {gia, about}
    NoContacts = {about}
    SystemKeys = {hero, essay}
    CustomKeys = {legacy}
    GlobalKeys = {banner}
    Contacts = Contacts
    Obsolete = Obsolete
    Owner <- MCOwner
    Index <- MCIndex
    Rank <- MCRank
    Runs = {b1, b2, b3}
    MaxRevision = 2
    MaxId = 6
    None = None
SYMMETRY Symmetry
INVARIANTS RegistryIsConsistent RepeatedApplyIsNoOp
PROPERTIES ChangesAreCounted EditorsSectionsStay
CHECK_DEADLOCK FALSE
