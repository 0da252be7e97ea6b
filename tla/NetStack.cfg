SPECIFICATION FairSpec
CONSTANT Addresses = {a1, a2}
CONSTANT Router = router
CONSTANT Server = server
CONSTANT None = none
CONSTANT Options <- DhcpOptions
CONSTANT Short = 1
CONSTANT Long = 3
CONSTANT RetrySeconds = 2
CONSTANT MaxSyn = 1
CONSTANT MaxReplies = 2
INVARIANT LeaseIsLive
INVARIANT AddressIsOffered
PROPERTY RenewedBeforeExpiry
PROPERTY LeaseIsObtained
