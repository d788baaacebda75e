CONSTANTS
  a1 = a1  a2 = a2  v1 = v1  v2 = v2  entry = entry  close = close
  Accounts = {a1, a2}
  Venues = {v1, v2}
  Bound <- MCBound
  Intents = {entry, close}
  AccountOf <- MCAccountOf
  Closing = {close}
  FREEZE_ON_REJECTS = 2
  SWEEP_FAILURE_FREEZE = 2
  MAX_PLACE_ATTEMPTS = 1
  FREEZE_AUTO_LIFT_MIN_MS = 1
  NoStamp = NoStamp  NoAccount = NoAccount
  MaxCrashes = 1
  MaxFailedWrites = 1
  MaxCorruptions = 1
SPECIFICATION Spec
INVARIANTS TypeOK OperatorFreezeStands PostureRecorded
PROPERTY AutoFreezesHeal
