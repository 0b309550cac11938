SPECIFICATION RecoverySpec
SYMMETRY Symmetry
CONSTANTS
  a1 = a1
  w1 = w1
  w2 = w2
  s1 = s1
  None = None
  Account = {a1, a2}
  Wallet = {w1, w2}
  Chain = {1}
  ChainOf <- MCChainOf
  Nonce = {n1}
  Session = {s1, s2}
  Proc = {p1}
  Ops = {"LOGIN"}
INVARIANT LoginBurnsWithOutcome
CHECK_DEADLOCK FALSE
