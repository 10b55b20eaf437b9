\* an object of a tenant or of none; two edits of Secrets, one restart, one fault
SPECIFICATION FairSpec
CONSTANTS
  o1 = o1
  ns1 = ns1
  ns2 = ns2
  Object = {o1}
  Namespace = {ns1, ns2}
  NoNamespace = NoNamespace
  Owners <- MCOwners
  Secret <- MCSecret
  NoSecret = NoSecret
  Env <- MCEnv
  URL <- MCURL
  File <- MCFile
  ValidPEM = {"PEM"}
  System <- MCSystem
  NoClient = NoClient
  StartModes = {TRUE, FALSE}
  MaxEdits = 2
  MaxRestarts = 1
  MaxFaults = 1
CHECK_DEADLOCK FALSE
INVARIANTS TenantIdentityOnly BucketsStayWithTenant LostOnlyByMoveOrLateJob 
PROPERTY Heals
