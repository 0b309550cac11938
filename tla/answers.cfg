SPECIFICATION OwnerFairSpec
CONSTANTS
  a1 = a1
  w1 = w1
  w2 = w2
  s1 = s1
  None = None
  Account = {a1}
  Wallet = {w1}
  Chain = {1}
  ChainOf <- MCChainOf
  Nonce = {n1, n2}
  Session = {s1}
  Proc = {p1, p2}
  Ops = {"GRANT_AUTH", "REVOKE_AUTH"}
PROPERTIES RequestsFinish ChangesAreAudited
CHECK_DEADLOCK FALSE
