\* Two threads, failing malloc, subdevices whose free credits another entry.
\* A mutex left locked by a failed malloc stops everybody: no deadlock check.
SPECIFICATION Spec
CONSTANTS
  Threads = {t1, t2}
  Handles = {h1, h2, h3}
  Root = root
  OwnerTags = {}
  Devices = {0}
  Ops = {"heap_alloc", "rm_device", "rm_subdevice", "control", "free"}
  Minors = {"ctl"}
  Sizes = {1}
  Aligns = {2}
  TotalMem = 2
  SizeMod = 4
  MallocMayFail = TRUE
  MaxEntries = 2
  NoThread = none
SYMMETRY Symmetry
INVARIANT TypeOK
INVARIANT MutualExclusion
INVARIANT LedgerMatchesList
INVARIANT Conservation
CHECK_DEADLOCK FALSE
