SPECIFICATION PartsSpec
CONSTANTS
  Kinds = {"served", "fails", "delete", "unknown"}
  Bodies = {0, 1}
  MaxAsked = 3
  Elements = {"fe1"}
  History = 2
  Limit = 2
  MaxTime = 3
  MaxOpen = 2
  Callers = {"lcp", "cores"}
  MaxCalls = 2

INVARIANTS
  PartsTypeOK
  ExchangeInStep
  ChartSound
  AnswersKnown

PROPERTIES
  AnswersArrive
  PartsPageConverges
  CallbackInItsFrame
  PartsAnsweredReturns

\* A connection ends, and an application that has quit or crashed.
CHECK_DEADLOCK FALSE
