SPECIFICATION PartsSpec
CONSTANTS
  Webs = {w1, w2}
  Lcps = {l1, l2}
  Ce = ce
  Interfaces = 1
  MaxWeb = 2
  Answers <- MCAnswers
  Bare <- MCBare
  Logical = {"deth0", "deth1"}
  Widths = {90, 130, 170, 340, 1000}
  BoxWidth = 85

INVARIANTS
  PartsTypeOK
  OneServes
  TreeDrawn
  LightFollowsPointer

PROPERTIES
  NobodyWaitsForEver

\* An application that has quit does nothing more.
CHECK_DEADLOCK FALSE
