SPECIFICATION Spec
SYMMETRY EmptySymmetry
CONSTANTS
  a1 = a1
  w1 = w1
  w2 = w2
  s1 = s1
  None = None
  Account = {a1, a2}
  Wallet = {w1, w2}
  Chain = {1}
  ChainOf <- MCChainOf
  Nonce = {n1, n2}
  Session = {s1, s2, s3}
  Proc = {p1, p2}
  Ops = {"LOGIN", "REFRESH", "LINK_WALLET"}
INVARIANTS Inv
PROPERTIES ChangesAreAudited SessionsImplemented
