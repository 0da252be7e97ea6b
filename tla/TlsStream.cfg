SPECIFICATION StreamSpec
CONSTANTS
  Asked = 2
  Sent = 3
  Lengths = {2, 3, 4}
  Capacity = 1
  ReadMax = 2
INVARIANT StreamIsKept
INVARIANT EofIsTrue
PROPERTY FetchEnds
