CONSTANTS
  r1 = r1
  r2 = r2
  r3 = r3
  boss = boss
  helper = helper
  guest = guest
  Old = Old
  Req <- MCReq
  User <- MCUser
  Given <- MCGiven
  Edits <- MCEdits
  DevAdmin = guest
  Mixes <- MCMixes
  MaxInFlight = 2
  ConfigKey <- MCConfigKey
  Audience <- MCAudience
  BatchSize = 1
SPECIFICATION Spec
SYMMETRY Symmetry
PROPERTIES OverridesSurviveSeed
CHECK_DEADLOCK FALSE
