CONSTANTS
  Agents = {a1, a2, a3}
  Pair = {a1, a2}
  MaxMessages = 2
  MaxIds = 3
  Recipients = {"*"}
  Limit = 2
SYMMETRY StoresSymmetry
SPECIFICATION StoresSpec
INVARIANT MessagesInv
CHECK_DEADLOCK FALSE
