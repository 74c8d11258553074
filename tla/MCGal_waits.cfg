SPECIFICATION PartsSpec
CONSTANTS
  Webs = {w1, w2}
  Lcps = {l1}
  Ce = ce
  Interfaces = 1
  MaxWeb = 2
  Answers <- MCComplete
  Bare <- MCBare
  Logical = {"deth0", "deth1"}
  Widths = {1000}
  BoxWidth = 85
PROPERTIES AlwaysAnswered
\* An application that has quit does nothing more.
CHECK_DEADLOCK FALSE
