SPECIFICATION Spec
CONSTANTS
  Undecodable = Undecodable
  None = None
  t1 = t1
  t2 = t2
  p = p
  d = d
  a = a
  b = b
  Tab <- MCTab
  Host <- MCHost
  PagesHost = p
  Site <- MCSite
  Member <- MCMember
  MaxOpens = 2
  MaxLogins = 3
  MaxFaults = 1
INVARIANTS
  TokenOfOwnLogin
  ReturnsToItsPage
  UndisturbedLoginWorks
PROPERTIES
  NavigationSettles
CHECK_DEADLOCK FALSE
