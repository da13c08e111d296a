SPECIFICATION Spec
CONSTANTS
  Fan = 4
  PhysPages <- Pages31
  MemMap <- Map31
  KernelBase = 1
  Sections <- Image
  StackPages = 1
  BootGuard <- FirstGuard
  Targets <- StackBottom
  Frames = {22}
  Watched <- StackBottom
INVARIANT
  GuardsHold
