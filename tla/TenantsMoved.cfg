\* multi-tenant mode is off at first; one Secret for another SVM, one restart
SPECIFICATION Spec
CONSTANTS
  o1 = o1
  ns1 = ns1
  ns2 = ns2
  Object = {o1}
  Namespace = {ns1}
  NoNamespace = NoNamespace
  Owners <- OneOwner
  Secret <- GoodSecret
  NoSecret = NoSecret
  Env <- MCEnv
  URL <- MCURL
  File <- MCFile
  ValidPEM = {"PEM"}
  System <- MCSystem
  NoClient = NoClient
  StartModes = {FALSE}
  MaxEdits = 1
  MaxRestarts = 1
  MaxFaults = 0
CHECK_DEADLOCK FALSE
INVARIANT NothingLost
