SPECIFICATION MCSpec
CONSTANTS
  MaxLinks = 3
  Site <- MCSite
  Modtimes = {1, 2}
  Asks <- MCAsks
  Html <- MCHtml
  MaxAsks <- MCMaxAsks
  MaxDeploys = 1
  maxRuleCount = 2
  maxPathSegments = 3
  Enabled = TRUE
INVARIANTS
  ResolvesLikeChroot
  DirectoryRedirectSettles
  NotModifiedIsCurrent
  EncodingIsBest
  AnsweredAsAnnounced
  DocumentedIsMatched
CHECK_DEADLOCK FALSE
