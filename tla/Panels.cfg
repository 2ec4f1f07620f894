\* Every panel and record, one at a time.
CONSTANTS
  MaxKeys <- BoundKeys
  MaxLoads <- BoundLoads
  MaxFaults <- BoundFaults
  None = None
  Threads = {"a", "b"}
  Top <- TopOf
  Cached <- CachedOf
  MaxTop = 3
  Initial = 2
  PageSize = 1
  MaxJump = 4
  Hits = {2}
  LocalProviders = {"lo"}
  Cloud = {"cl"}
  Policies = {"local", "cloud", "disabled"}
  Off = "off"
  Convs = {"a", "b"}
  Typed = {1}
  Spots = {"s"}
  Whole = "w"
  StartConfig <- Start
  Others = {"o", "g"}
  Group = "g"
  Pics = {1, 2, 3}
  Large = {2}
  Bad = {3}
  MaxPics = 2
  Messages <- Received
  Plain = {"p"}
  Thumbed = {"q"}
  Own = {"r"}
  Chats = {"t", "u"}
  With <- NumberOf
  Numbers = {"p", "+p", "q", "r"}
  Person <- PersonOf
  Colours = {"c"}
  Texts = {1, 2}
  Empty = 0
  Bodies = {"x", "y"}
  MaxSends = 2
  MaxTyped = 1
  MaxSpan = 1

SPECIFICATION MCSpec
CHECK_DEADLOCK FALSE
INVARIANTS
  TypeOK
  Settled
  JumpResolved
  InForceIsFile
  PolicyRespected
  NoStaleReview
  CancelledStays
  PicturesPlaced
  PicturesKept
  ShownOnRequest
  FetchedKept
  NoTwins
  
  ReplyAccounted
  Reconciled
PROPERTY
  NewStaysUnread
