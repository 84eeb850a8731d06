SPECIFICATION MCSpec
CONSTANTS
  a = a
  b = b
  s1 = s1
  s2 = s2
  Workers = {w1, w2}
  Lease = 2
  CallTime = 1
  PostTime = 1
  MaxPosts = 2
  Guids = {a, b}
  Poison = {a}
  Scanners = {s1, s2}
  PageSize = 1
  MaxRequests = 2
  Limit = 1
  MaxStops = 1
  Creators = {k1, k2}
  MaxClaims = 2
  Senders = {p1, p2}
  MaxStatus = 2
  Changes = {1}
  MaxFaults = 2
INVARIANTS EachTypeOK AskedInBounds OneComment
PROPERTIES CandidateKeepsOneCheck RunKeepsOneCheck CreatedIsKept DeliverySettles NewestWithoutFault
\* A component that is over does nothing more.
CHECK_DEADLOCK FALSE
