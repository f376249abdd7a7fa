SPECIFICATION FairSpec
CONSTANTS
  Attempts = {a1, a2}
  Saved = Saved
  NoCookie = NoCookie
  NoEngine = NoEngine
  Purses = {"practice"}
  NoPurse = NoPurse
INVARIANTS
  WaitingIsServed
  LeaseServes
PROPERTIES
  LiveBookKept
  WaitingEnds
  CookiesTakenUp
CHECK_DEADLOCK FALSE
