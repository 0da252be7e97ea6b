SPECIFICATION Spec
CONSTANT Xam = {x1, x2}
CONSTANT Worker = worker
CONSTANT Usb = usb
CONSTANT Macs = {m1, m2}
CONSTANT Nobody = nobody
CONSTANT Depth = 2
CONSTANT MaxPhones = 2
CONSTANT MaxFrames = 3
SYMMETRY Symmetry
INVARIANT OnlyLateFramesCross
PROPERTY QueueIsFifo
CHECK_DEADLOCK FALSE
