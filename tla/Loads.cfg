CONSTANTS
  root = root
  docA = docA
  docB = docB
  docC = docC
  image = image
  Malformed = Malformed
  Root = root
  Compositions = {root, docA, docB, docC}
  Assets = {image}
  Installable = {docB}
  Worlds <- SmallWorlds
  DepthCap = 2
  MaxRepeats = 1
  MaxCalls = 1
SPECIFICATION FairSpec
INVARIANTS AnswersApplied RequestsSound
PROPERTIES HolesRedrawn SettlesQuiesce
CHECK_DEADLOCK FALSE
