CONSTANTS
  t1 = t1
  t2 = t2
  t3 = t3
  Task = {t1, t2, t3}
  Nobody = Nobody
  Cancellable = {}
  Attempts = 3
  Lag = TRUE
  RpcUnreliable = TRUE
  MaxNonce = 4
SPECIFICATION Spec
INVARIANT MutualExclusion
INVARIANT NonceIsNext
PROPERTY SendsOneByOne
