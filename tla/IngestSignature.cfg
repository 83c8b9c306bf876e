CONSTANTS
  Envs <- MCEnvs
  Updates <- MCUpdates
  Signatures <- MCSignatures
  MaxAccounts = 2
SPECIFICATION Spec
INVARIANT SignatureKept
