SPECIFICATION Spec
CONSTANT NoDisk = NoDisk
INVARIANTS
  TypeOK
  Accounted
  CoalescingExact
  
  WriteXorExecute
  TlbCoherent
  TablesSound
  RegionsRight
  PressureTold
  
  BootInOrder
  
  
  DescriptorsRight
  FilesRead
  
  StringsRight
PROPERTIES
  PoolKept
  NothingUnasked
CHECK_DEADLOCK FALSE
