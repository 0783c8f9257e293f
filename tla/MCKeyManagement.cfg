SPECIFICATION MCSpec
CONSTANTS
  k1 = k1
  k2 = k2
  v1 = v1
  v2 = v2
  n1 = n1
  w1 = w1
  w2 = w2
  ct1 = ct1
  x1 = x1
  x2 = x2
  main = main
  admin = admin
  t1 = t1
  t2 = t2
  c1 = c1
  a1 = a1
  NoVersion = NoVersion
  AnyCaller = AnyCaller
  NoProc = NoProc
  Absent = Absent
  NoSecret = NoSecret
  MaxRequests = 3
  Version <- MCVersion
  SecretName <- MCName
  Secret <- MCSecret
  Purpose <- MCPurpose
  Caller <- MCCaller
  Stored <- MCStored
  Decrypted <- MCDecrypted
  Environment <- MCEnvironment
  InitialVault <- MCInitialVault
  Resolves <- MCResolves
  Kms <- MCKms
  Cli <- MCCli
  Agent <- MCAgent
  Ciphertext <- MCCiphertext
  KeyName <- MCKeyName
  VaultVersion <- MCVaultVersion
  Changes <- MCChanges
  InitialKeyring <- MCInitialKeyring
INVARIANTS
  KeyringConsistent
  SavedKept
  SameVersionSameSecret
  CurrentKeyringAudited
PROPERTY EveryRequestSettles
CHECK_DEADLOCK FALSE
