SPECIFICATION Spec
CONSTANTS
    Users = {ann, bob}
    Mods = {}
    MaxConfirmations = 2
INVARIANTS
    Consent
    OneRequestNotification
    NotificationsTrue
    BlockParts
PROPERTY
    ImplementsFriendship
