SPECIFICATION FairSpec
CONSTANTS
    anna = anna
    root = root
    shop = shop
    mall = mall
    Accounts <- MCAccounts
    Hosts <- MCHosts
    HostOf <- MCHostOf
    Superusers <- MCSuperusers
    DefaultHost = shop
    Boot = boot
    Slots = {s1, s2}
    None = none
INVARIANTS
    TypeOK
    SentAtMostTwice
    OneSession
PROPERTY
    CallsEnd
