SPECIFICATION Spec
INVARIANT
  LoopReady
