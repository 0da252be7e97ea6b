SPECIFICATION FairSpec
CONSTANT MaxConnection = 1
PROPERTY ServiceDoesNotStrand
