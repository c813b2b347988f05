\* The build-install event with a second plugin on disk.
SPECIFICATION Spec
CONSTANTS
  p1 = p1
  p2 = p2
  Plugins <- TwoPlugins
  Providers = 2
\* The system stops when the call has returned.
CHECK_DEADLOCK FALSE
PROPERTY
  EveryAnswerDone
