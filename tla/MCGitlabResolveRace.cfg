SPECIFICATION Spec
CONSTANTS
  Segment = {"a", "b", "c"}
  Request = {r1, r2}
  Url <- Urls
  Broken <- Unserved
  Orders <- TwoProjects
INVARIANT ServedFromLongestPrefix
