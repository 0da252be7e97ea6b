SPECIFICATION FairSpec
CONSTANT Nothing = none
CONSTANT NotifyDepth = 2
CONSTANT MaxPhones = 2
INVARIANT NoticeReachesUser
INVARIANT GivenOnce
INVARIANT NothingOfTheDeparted
PROPERTY QueueDrains
