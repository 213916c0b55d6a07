\* Two threads, two GPUs, both minors; a temporal property, so no symmetry.
SPECIFICATION FairSpec
CONSTANTS
  Threads = {t1, t2}
  Handles = {h1, h2}
  Root = root
  OwnerTags = {}
  Devices = {0, 1}
  Ops = {"heap_alloc", "rm_device", "rm_subdevice", "free"}
  Minors = {"ctl", "gpu"}
  Sizes = {1}
  Aligns = {1}
  TotalMem = 1
  SizeMod = 4
  MallocMayFail = FALSE
  MaxEntries = 3
  NoThread = none
INVARIANT DeviceMapFaithful
PROPERTY SystemProgress
