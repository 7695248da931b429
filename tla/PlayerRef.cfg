SPECIFICATION Spec
CONSTANTS
  Threads = {ui, other}
  Owner = ui
  Players = {p1, p2, p3}
  First = p1
  NULL = NULL
  MaxCalls = 5
  MaxPosts = 1
INVARIANTS CountIsExact UsedIsLive DestroyedOnce
PROPERTIES EventuallyFreed
