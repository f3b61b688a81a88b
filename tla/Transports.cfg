SPECIFICATION Spec
CONSTANTS
  NoFilter = NoFilter
  allowed = allowed
  other = other
  Allowed = {allowed}
  Requests <- MCRequests
INVARIANT TransportsAgree
INVARIANT CallsAreAuthorized
INVARIANT CredentialsCostATurn
CHECK_DEADLOCK FALSE
