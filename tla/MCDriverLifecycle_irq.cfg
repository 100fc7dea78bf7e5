SPECIFICATION Spec
CONSTANTS
  Code <- MCCode
  MaxFiles = 1
INVARIANT IrqIsFreed
