SPECIFICATION OwnerSpec
SYMMETRY Symmetry
CONSTANTS
  a1 = a1
  w1 = w1
  w2 = w2
  s1 = s1
  None = None
  Account = {a1}
  Wallet = {w1, w2, w3}
  Chain = {1, 2}
  ChainOf <- MCTwoChains
  Nonce = {n1, n2, n3, n4}
  Session = {s1}
  Proc = {p1, p2}
  Ops = {"ASSIGN_RECOVERY"}
INVARIANTS OneHolderPerRole NonceExclusive OneChain
PROPERTIES NonceBurnedWithOutcome ChangesAreAudited OwnershipImplemented
CHECK_DEADLOCK FALSE
