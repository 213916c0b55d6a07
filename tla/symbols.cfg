\* Every process of MCSymbolHook; the application keeps two pointers.
\* A scan that is over, or ends in a fault, is the end: no deadlock check.
SPECIFICATION Spec
CONSTANTS
  Wanted = {"dlsym", "ioctl"}
  Self = 2
  Worlds <- AllWorlds
  Flags = {"plain", "ptsz"}
  MaxHeld = 2
CHECK_DEADLOCK FALSE
INVARIANTS
  DispatchFaithful
  NoBypass
  FirstDefinition
  FindsNext
