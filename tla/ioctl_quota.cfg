\* One thread, aligned memory keyed by its handle.
SPECIFICATION Spec
CONSTANTS
  Threads = {t1}
  Handles = {h1, h2, h3}
  Root = root
  OwnerTags = {}
  Devices = {0}
  Ops = {"heap_alloc", "heap_info", "rm_memory", "rm_device", "free", "passthru"}
  Minors = {"ctl"}
  Sizes = {1, 2}
  Aligns = {1, 2}
  TotalMem = 3
  SizeMod = 8
  MallocMayFail = FALSE
  MaxEntries = 3
  NoThread = none
INVARIANT ChargeFits
INVARIANT KernelWithinLimit
INVARIANT HeapListFaithful
PROPERTY LedgerQuota
