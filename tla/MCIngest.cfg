CONSTANTS
  Envs <- MCEnvs
  Updates <- MCUpdates
  Signatures <- MCSignatures
  MaxAccounts = 2
SPECIFICATION Spec
INVARIANTS TypeOK NoNullDereference RequestMatchesConfig EventMatchesReference OverrunByOne
