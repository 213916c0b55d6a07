SPECIFICATION FairSpec
CONSTANTS
  SampleTicks = 1
  MinSampleUtil = 0
  Clients = {c1, c2}
  Launchers = {}
  Limits = {1}
  Utils = {0}
  MaxCycle = 1
  SemMax = 1
  LaunchSamples = 1
  MaxAverage = 4
  Garbage = {0}
  KillAt = {}
  MaxKills = 0
PROPERTY ClientStarts
