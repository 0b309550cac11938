SPECIFICATION RecoverySpec
SYMMETRY Symmetry
CONSTANTS
  a1 = a1
  w1 = w1
  w2 = w2
  s1 = s1
  None = None
  Account = {a1}
  Wallet = {w1, w2}
  Chain = {1}
  ChainOf <- MCChainOf
  Nonce = {n1, n2, n3}
  Session = {s1}
  Proc = {p1}
  Ops = {"EXECUTE_RECOVERY", "GRANT_AUTH"}
INVARIANT RecoveryInserts
CHECK_DEADLOCK FALSE
