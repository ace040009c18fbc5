CONSTANTS
  t1 = t1
  t2 = t2
  t3 = t3
  Task = {t1, t2, t3}
  Nobody = Nobody
  Cancellable = {t1}
  Attempts = 2
  Lag = TRUE
  RpcUnreliable = TRUE
  MaxNonce = 4
SPECIFICATION Spec
INVARIANT MutualExclusion
