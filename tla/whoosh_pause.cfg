\* scripts/ctl-c/pause.whoosh with its Ctl-C.
SPECIFICATION Spec
CONSTANTS
  Scripts <- PauseScript
  Vars = {x, y}
  NULL = NULL
  VAR = 4
  Codes = {0, 1}
  Signals = {}
  MaxPids = 4
  MaxInterrupts = 1
INVARIANT ScriptGoesOn
\* the script ends
CHECK_DEADLOCK FALSE
