SPECIFICATION FairRolesSpec
CONSTANTS
  Instances = {i1, i2}
  Mobiles = {m0, m1}
  SuperAdminMobile = m0
  Handlers = {h1, h2, h3}
  AccessTtl = 1
  MaxTime = 1
  MaxChanges = 2
  MaxStartFaults = 1
INVARIANTS
  RolesTypeOK
  SuperAdminFirst
  AdminsAreCurrent
PROPERTY
  InstancesComeUp
CHECK_DEADLOCK FALSE
