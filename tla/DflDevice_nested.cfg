\* Violation: ImplementsEnumContract.  A port sits below card A's PR region.
CONSTANTS
  NoNode = "null"
  Nodes <- MC_Nodes_Nested
  RegOrder <- MC_RegOrder_Nested
  ParentOf <- MC_ParentOf_Nested
  Subsystem <- MC_Subsystem_Nested
  Driver <- MC_Driver_Nested
  SysnameKind <- MC_SysnameKind_Nested
  SysAttrs <- MC_SysAttrs_Nested
  CompatId <- MC_CompatId_Nested
  AfuId <- MC_AfuId_Nested
  Guids <- MC_Guids
  MaxOwned = 1
  MaxErrs = 0

SPECIFICATION Spec

PROPERTY ImplementsEnumContract
