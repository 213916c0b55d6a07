\* One process, the monitor killed anywhere but between inited = 1 and sem_post.
SPECIFICATION FairSpec
CONSTANTS
  SampleTicks = 1
  MinSampleUtil = 1
  Clients = {c1}
  Launchers = {c1}
  Limits = {1}
  Utils = {0, 3}
  MaxCycle = 2
  SemMax = 1
  LaunchSamples = 1
  MaxAverage = 4
  Garbage = {0, 2}
  KillAt = {"params", "inited", "resize", "flag", "watch", "cur", "last", "change", "notify"}
  MaxKills = 1
INVARIANT TypeOK
INVARIANT InitBeforeUse
INVARIANT NoLostWakeup
INVARIANT RateDelivered
PROPERTY ClientStarts
PROPERTY LaunchProceeds
