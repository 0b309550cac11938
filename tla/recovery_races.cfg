SPECIFICATION RecoverySpec
SYMMETRY Symmetry
CONSTANTS
  a1 = a1
  w1 = w1
  w2 = w2
  s1 = s1
  None = None
  Account = {a1}
  Wallet = {w1, w2}
  Chain = {1}
  ChainOf <- MCChainOf
  Nonce = {n1, n2, n3}
  Session = {s1, s2}
  Proc = {p1, p2}
  Ops = {"EXECUTE_RECOVERY", "REMOVE_WALLET", "REFRESH"}
INVARIANTS TypeOK OwnerAgreement TriggerStopsOnlyRemovals
PROPERTIES ChangesAreAudited OwnershipImplemented SessionsImplemented
CHECK_DEADLOCK FALSE
