CONSTANTS
  t1 = t1
  t2 = t2
  t3 = t3
  Task = {t1, t2, t3}
  Nobody = Nobody
  Cancellable = {t1, t2}
  Attempts = 1
  Lag = TRUE
  RpcUnreliable = TRUE
  MaxNonce = 2
SPECIFICATION FairSpec
INVARIANT TypeOK
INVARIANT NoWaiterForgotten
PROPERTY WaitersServed
