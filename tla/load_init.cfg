\* Two threads, every environment.  exit(-1) ends the process: the deadlock
\* there is intended.
SPECIFICATION FairSpec
CONSTANTS
  t0 = t0
  t1 = t1
  Threads = {t0, t1}
  Loader = t0
  Envs <- AllEnvs
  MayFail = TRUE
  NotRun = NotRun
CHECK_DEADLOCK FALSE
INVARIANTS
  NoFault
  OnceMeansReady
PROPERTY CallsReturn
