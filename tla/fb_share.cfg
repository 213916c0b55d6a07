\* A serial and a shared deployment.
SPECIFICATION Spec
CONSTANTS
  p1 = p1
  p2 = p2
  p3 = p3
  o1 = o1
  Members = {p1, p2, p3}
  Observers = {o1}
  Sizes = {1, 2}
  TotalMem = 3
  DriverMem = 9
  KiB = 2
  SizeMod = 8
  NoPid = NoPid
  Ghost = Ghost
  MaxObjects = 3
  Worlds <- BothWorlds
INVARIANT TypeOK
INVARIANT KernelWithinLimit
INVARIANT RestartExact
INVARIANT MemberSeesLimit
