SPECIFICATION FairSpec
CONSTANTS
  a1 = a1
  Adapters = {a1}
  Threads = {t1, t2}
  Conns = {c1, c2}
  PoolSize <- OneFree
  CloseActions = {"commit"}
  ReallyArgs = {TRUE}
  UsePoolArgs = {TRUE}
  CheckActive = TRUE
  MayFail = TRUE
  MayDefine = TRUE
  NoConn = NoConn
  NoThread = NoThread
PROPERTIES CallsReturn
