SPECIFICATION Spec
CONSTANTS
  Folders = {"root", "a"}
  Root = "root"
  Orders = {0, 1}
  Pages = 2
  Visits <- EditsOrAccounts
INVARIANTS TypeOK OneListing SettledScreen
CHECK_DEADLOCK FALSE
