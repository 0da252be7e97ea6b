SPECIFICATION FairSpec
CONSTANT Threads = {r1, r2}
CONSTANT Usb = usb
CONSTANT MaxPhones = 2
CONSTANT MaxAttempts = 1
CONSTANT QueueDepth = 1
INVARIANT RetryClaimIsHeld
INVARIANT ReadyIsEarned
INVARIANT SessionAgrees
INVARIANT PairingHears
PROPERTY RetryHandoff
CHECK_DEADLOCK FALSE
