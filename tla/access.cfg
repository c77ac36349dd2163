SPECIFICATION Spec
CONSTANTS
  Accounts = {"ann", "bob"}
  Modules = {"chatbot"}
  Defaults = {"chatbot"}
  Configured = "nobody"
  Nobody = "nobody"
  Tenants = {"board"}
  NoTenant = "none"
  Starts <- MCStarts
  Granted = {2, 3}
  Bodies <- MCBodies
  MaxRequests = 3
  Together = 2
INVARIANT Inv
PROPERTIES AdminsInCharge OnlyRevocationLowers
CHECK_DEADLOCK FALSE
