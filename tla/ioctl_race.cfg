SPECIFICATION Spec
CONSTANTS
  Threads = {t1, t2}
  Handles = {h1, h2, h3}
  Root = root
  OwnerTags = {}
  Devices = {0}
  Ops = {"heap_alloc", "rm_device", "free"}
  Minors = {"ctl"}
  Sizes = {1, 2}
  Aligns = {1}
  TotalMem = 2
  SizeMod = 8
  MallocMayFail = FALSE
  MaxEntries = 2
  NoThread = none
INVARIANT KernelWithinLimit
