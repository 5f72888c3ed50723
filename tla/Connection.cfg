SPECIFICATION FairSpec
CONSTANTS
  Users = {u1}
  Tasks = {t1, t2}
  Caller = caller
  MaxInstalls = 2
  MaxRows = 2
  MaxChanges = 2
  Nobody = Nobody
INVARIANTS TypeOK
PROPERTIES MaintainersOnly RecordSurvives CallsRecover
CHECK_DEADLOCK FALSE
