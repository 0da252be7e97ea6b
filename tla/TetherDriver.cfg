SPECIFICATION FairSpec
CONSTANT Threads = {w1, w2}
CONSTANT Usb = usb
CONSTANT MaxPhones = 2
INVARIANT ClaimIsHeld
INVARIANT SetupInOrder
PROPERTY PhoneIsServed
PROPERTY BridgeFollows
