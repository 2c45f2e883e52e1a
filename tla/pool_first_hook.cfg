SPECIFICATION Spec
CONSTANTS
  a1 = a1
  Adapters = {a1}
  Threads = {t1, t2}
  Conns = {c1, c2}
  PoolSize <- OneFree
  CloseActions = {"commit"}
  ReallyArgs = {TRUE}
  UsePoolArgs = {TRUE}
  CheckActive = TRUE
  MayFail = FALSE
  MayDefine = FALSE
  NoConn = NoConn
  NoThread = NoThread
INVARIANTS FirstHookOnce
