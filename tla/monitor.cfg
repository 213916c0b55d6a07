\* Three processes in any containers and two samples a poll, or any utilisation
\* and launch averages.
SPECIFICATION Spec
CONSTANTS
  Pids = {1, 2, 3}
  Worlds <- AllWorlds
  Stale <- Tails
  MaxIdLen = 4
  MaxSamples = 2
  SampleTicks = 2
  MinSampleUtil = 1
  MaxCycle = 8
INVARIANTS
  TypeOK
  UtilOfContainer
  PrefixFound
  TowardLimit
  Damped
