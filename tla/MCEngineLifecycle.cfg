SPECIFICATION FairSpec
CONSTANTS
  c1 = c1
  c2 = c2
  Consoles = {c1, c2}
  Loops = {l1, l2}
  NoThread = NoThread
  Commands <- MCCommands
INVARIANTS
  OneLoop
  KillStops
PROPERTIES
  LifeboatSails
  CommandsReturn
