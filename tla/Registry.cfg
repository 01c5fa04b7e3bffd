CONSTANTS
    Servers = {s1, s2}
    Client = Client
    Unknown = Unknown
    MaxSession = 4
SPECIFICATION RegistrySpec
INVARIANTS RegisteredIsListed NoChangeMissed
CHECK_DEADLOCK FALSE
