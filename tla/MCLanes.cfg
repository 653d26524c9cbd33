SPECIFICATION Spec
CONSTANTS
  Widths = {4, 8, 16}
  Seeds = {"numbers", "small", "equal", "zeros"}
  RowStride <- MCRowStride
  RowOffset = 0
  Depth <- MCDepth
  Register <- MCRegister
  Stored <- MCStored
INVARIANTS ImplementationsAgree StoresUndoLoads
CHECK_DEADLOCK FALSE
