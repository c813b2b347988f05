\* The build-install event with the one plugin an image has.
SPECIFICATION Spec
CONSTANTS
  p1 = p1
  p2 = p2
  Plugins <- OnePlugin
  Providers = 6
\* The system stops when the call has returned.
CHECK_DEADLOCK FALSE
INVARIANTS
  TypeOK
  OutcomeIsComplete
  SuccessMeansAllAsked
  NoNegativeWaitGroup
PROPERTY Returns
