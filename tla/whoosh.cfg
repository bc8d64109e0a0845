\* Scripts of one or two groups, up to two Ctl-C at any moment.
SPECIFICATION FairSpec
CONSTANTS
  Scripts <- AllScripts
  Vars = {x, y}
  NULL = NULL
  VAR = 3
  Codes = {1}
  Signals = {15}
  MaxPids = 8
  MaxInterrupts = 2
INVARIANTS NoZombies ErrorsNeedCtlC ResultReceived CrashesExplained TermsOwnGroup
PROPERTIES Finishes CtlCEndsCommand
\* the script ends
CHECK_DEADLOCK FALSE
