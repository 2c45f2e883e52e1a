SPECIFICATION Spec
CONSTANTS
  a1 = a1
  Adapters = {a1}
  Threads = {t1, t2}
  Conns = {c1, c2}
  PoolSize <- OneFree
  CloseActions = {"commit", "rollback"}
  ReallyArgs = {TRUE, FALSE}
  UsePoolArgs = {TRUE, FALSE}
  CheckActive = TRUE
  MayFail = TRUE
  MayDefine = TRUE
  NoConn = NoConn
  NoThread = NoThread
INVARIANTS TypeOK Exclusive PoolBound LockBalanced PooledIsIdle 
PROPERTIES LeaseSpec CloseUnbinds
