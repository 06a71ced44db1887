SPECIFICATION FairSpec
CONSTANTS
  http = http
  https = https
  c1 = c1
  c2 = c2
  c3 = c3
  Listener <- Listeners
  Conn <- Conns
  Slots = 2
INVARIANT SlotsAccounted
PROPERTIES StopsAfterClose ServedWhenNoneOpen
CHECK_DEADLOCK FALSE
