\* Card B has no PR region: its FME has no fpga_region candidate for compat_id.
CONSTANTS
  NoNode = "null"
  Nodes <- MC_Nodes_NoPR
  RegOrder <- MC_RegOrder_NoPR
  ParentOf <- MC_ParentOf_NoPR
  Subsystem <- MC_Subsystem_NoPR
  Driver <- MC_Driver_NoPR
  SysnameKind <- MC_SysnameKind_NoPR
  SysAttrs <- MC_SysAttrs_NoPR
  CompatId <- MC_CompatId_NoPR
  AfuId <- MC_AfuId_NoPR
  Guids <- MC_Guids
  MaxOwned = 2
  MaxErrs = 2

SPECIFICATION Spec

INVARIANT CompatIdSound
