SPECIFICATION Spec
CONSTANTS
  Segment = {"a", "b", "c"}
  Request = {r1}
  Url <- Urls
  Broken <- Unserved
  Orders <- AnyOrder
INVARIANT ServedFromLongestPrefix
PROPERTY SortedIsOnlyRead
