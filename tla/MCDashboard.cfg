SPECIFICATION FairPageSpec
CONSTANTS
  Null = Null
  Dash = 0
  TextRank <- RankOfText
  Payloads = {"resting", "working"}
  PageData = "page"
  Fields <- Contents
  MaxPolls = 3
  MaxHistory = 2
  MaxEvents = 2
  UserTabs = {3, 4, 5, 8}
  UserHashes = {"", "server"}
  UserColumns = {"hits", "waitSec"}
  K = 16
  Amounts <- SomeAmounts
  Times <- SomeTimes
INVARIANT ScreenTrue
INVARIANT TabFollowsHash
INVARIANT TablesTrue
INVARIANT NoTabBlank
INVARIANT FormatsExact
PROPERTY IsLive
PROPERTY CatchesUp
\* The page rests when its polls are over and the user does nothing.
CHECK_DEADLOCK FALSE
