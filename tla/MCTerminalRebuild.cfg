SPECIFICATION Spec
CONSTANTS
  Attempts = {a1, a2}
  Saved = Saved
  NoCookie = NoCookie
  NoEngine = NoEngine
  Purses = {"practice", "real"}
  NoPurse = NoPurse
INVARIANTS
  RebuildServes
CHECK_DEADLOCK FALSE
