SPECIFICATION Spec
CONSTANTS
  Procs = {"p1", "p2"}
  Fields = {"a", "b", "c"}
  FieldOrder <- Order
  Names = {"a1", "a2", "b1", "c1", "a_tmp", "b_tmp", "c_tmp"}
  TmpOf <- Tmps
  Sqls = {"text", "int", "double"}
  Frozen = {"double"}
  Definitions <- Versions
  Engines = {"postgres", "mysql", "sqlite"}
  Overlap = {"postgres"}
  Faults = {"crash", "error"}
  MaxStarts = 3
  NoOne = NoOne
  NoData = NoData
INVARIANTS TypeOK DataKept UndisturbedConverges
PROPERTIES EveryMigrationEnds
CHECK_DEADLOCK FALSE
