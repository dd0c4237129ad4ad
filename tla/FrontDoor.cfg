CONSTANTS
  Absent = Absent
  Bad = Bad
  Tenants = {t1, t2}
  SessionIds = {s1}
  DefaultTenant = t1
  PresetGrants <- MCPresetGrants
  KnownCaps = {"read", "net"}
  Limits = {1}
  MaxWork = 4
  MaxFaults = 1
  MaxCrashes = 1
SPECIFICATION Spec
INVARIANTS
    ReadsAgree
    SessionsHoldOneToken
    SettledFilesAreMemory
    RestartKeepsTasks
CHECK_DEADLOCK FALSE
