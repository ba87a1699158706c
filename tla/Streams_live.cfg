SPECIFICATION LiveSpec
CONSTANTS
  Accounts = {"a1","a2"}
  First = "a1"
  Symbols = {"x"}
  Cap = 1
  Slots = {1,2,3,4,5}
  Budgets <- MCBudgets
INVARIANT OneChain
PROPERTIES KeepsRefreshing PushedIsStreamed
CHECK_DEADLOCK FALSE
